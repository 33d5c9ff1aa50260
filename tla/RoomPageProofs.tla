--------------------------- MODULE RoomPageProofs ----------------------------
(***************************************************************************)
(* What the room's page may show and miss, for any number of pages, files, *)
(* pushes, clicks and repeated completions, and with every fault.          *)
(*                                                                         *)
(* The argument is about the numbers of the answers.  What is deleted or   *)
(* delivered is never offered again, so among answers taken in the order   *)
(* they were made a file leaves the list once, unless a list is made while *)
(* a repeated completion has set the file back; and the newest answer that *)
(* is made after a push knows the pushed file, with the same exception.    *)
(* Both are lost for a page as soon as an answer overtakes another one.    *)
(***************************************************************************)
EXTENDS RoomPage, SequenceTheorems, TLAPS

\* The elements of a sequence.
Items(s) == {s[i] : i \in 1 .. Len(s)}

\* The events that are owed or were delivered have been broadcast.
FeedInv ==
    /\ published \in Nat
    /\ feed \in [Clients -> Seq(Nat)]
    /\ got \in [Clients -> Seq(Nat)]
    /\ \A p \in Clients : Items(feed[p]) \cup Items(got[p]) \subseteq 1 .. published

\* Only a file that has been ready is spoken of.
Known == {f \in Files : row[f] # "pending"}

KnownInv ==
    /\ unsaid \cup Items(topic) \cup Items(about) \subseteq Known
    /\ \A p \in Clients : shown[p] \subseteq Known /\ \A a \in answers[p] : a.files \subseteq Known

\* One request per reason to ask.
AskInv ==
    \A p \in Clients :
        /\ timers[p] <= clicks[p]
        /\ asked[p] + made[p] + timers[p]
             <= (IF join[p] \in {"none", "joining"} THEN 0 ELSE 1) + Len(got[p]) + clicks[p]

\* Every answer has a number of its own, and the newest one received is not on its
\* way any more.
NumbersInv ==
    \A p \in Clients :
        /\ newest[p] <= made[p]
        /\ \A a \in answers[p] : a.nth <= made[p] /\ a.nth # newest[p]
        /\ \A a \in answers[p] : \A b \in answers[p] : a.nth = b.nth => a = b

\* The file is deleted, or delivered to the participant: not to be offered any more.
Over(p, f) == row[f] = "gone" \/ <<p, f>> \in delivered

\* No answer made after number n has the file.
NoneAfter(p, n, f) == \A a \in answers[p] : a.nth > n => f \notin a.files

(* In a list shown and the answers to come, all in the order they were     *)
(* made, a file that is absent after it was present is absent for good, if *)
(* it was not set back then.                                               *)
OnceInv ==
    \A p \in Clients \ overtaken : \A f \in Files : <<p, f>> \notin skipped =>
        /\ f \in shown[p] => \A a \in answers[p] :
             a.nth > newest[p] /\ f \notin a.files => Over(p, f) /\ NoneAfter(p, a.nth, f)
        /\ \A a \in answers[p] : f \in a.files => \A b \in answers[p] :
             b.nth > a.nth /\ f \notin b.files => Over(p, f) /\ NoneAfter(p, b.nth, f)

\* A file that was clicked has been shown.
ClickedInv ==
    \A p \in Clients \ overtaken : \A f \in Files : <<p, f>> \notin skipped =>
        (<<p, f>> \in downloads \cup delivered /\ f \notin shown[p] =>
            Over(p, f) /\ NoneAfter(p, newest[p], f))

\* The file is on the newest list there is, or there will be another list.
Comes(p, f) ==
    \/ asked[p] > 0
    \/ newest[p] = made[p] /\ f \in shown[p]
    \/ \E a \in answers[p] : a.nth = made[p] /\ f \in a.files

\* A file that was pushed comes, or came, unless a list left it out as set back since.
PushedInv ==
    \A p \in Clients \ (overtaken \cup failed) : join[p] # "closed" =>
        \A f \in FilesOf(got[p]) :
            ~Over(p, f) /\ <<p, f>> \notin unmended => Comes(p, f)

PageInv ==
    /\ PageTypeOK /\ FeedInv /\ KnownInv /\ AskInv
    /\ NumbersInv /\ OnceInv /\ ClickedInv /\ PushedInv
------------------------------------------------------------------------------
(* Sequences.                                                              *)

\* One more element.
LEMMA ItemsOfAppend ==
    ASSUME NEW S, NEW s \in Seq(S), NEW e \in S
    PROVE  /\ Append(s, e) \in Seq(S) /\ Len(Append(s, e)) = Len(s) + 1 /\ Len(s) \in Nat
           /\ Items(Append(s, e)) = Items(s) \cup {e}
           /\ \A i \in 1 .. Len(s) : Append(s, e)[i] = s[i]
<1> DEFINE w == Append(s, e)
<1>1. /\ w \in Seq(S) /\ Len(w) = Len(s) + 1 /\ w[Len(s) + 1] = e
      /\ \A i \in 1 .. Len(s) : w[i] = s[i]
  BY AppendProperties
<1>2. Len(s) \in Nat
  BY LenProperties
<1> HIDE DEF w
<1>3. Items(w) = Items(s) \cup {e}
  BY <1>1, <1>2 DEF Items
<1>4. QED
  BY <1>1, <1>2, <1>3 DEF w

\* The first element and the others.
LEMMA ItemsOfTail ==
    ASSUME NEW S, NEW s \in Seq(S), s # <<>>
    PROVE  /\ Tail(s) \in Seq(S) /\ Items(Tail(s)) \subseteq Items(s)
           /\ Head(s) \in Items(s) /\ Head(s) \in S
<1> DEFINE t == Tail(s)
<1>1. /\ t \in Seq(S) /\ Len(t) = Len(s) - 1 /\ \A i \in 1 .. Len(t) : t[i] = s[i + 1]
      /\ Head(s) \in S
  BY HeadTailProperties
<1>2. Len(s) \in Nat /\ Len(s) # 0 /\ Head(s) = s[1]
  BY EmptySeq, LenProperties
<1> HIDE DEF t
<1>3. Items(t) \subseteq Items(s) /\ Head(s) \in Items(s)
  BY <1>1, <1>2 DEF Items
<1>4. QED
  BY <1>1, <1>3 DEF t

\* All but the last.
LEMMA ItemsOfFront ==
    ASSUME NEW S, NEW s \in Seq(S)
    PROVE  /\ SubSeq(s, 1, Len(s) - 1) \in Seq(S)
           /\ Items(SubSeq(s, 1, Len(s) - 1)) \subseteq Items(s)
<1> DEFINE n == Len(s) - 1
           w == SubSeq(s, 1, n)
<1>1. Len(s) \in Nat /\ n \in Int /\ \A i \in 1 .. n : s[i] \in S
  BY LenProperties, ElementOfSeq
<1>2. /\ w \in Seq(S) /\ Len(w) = (IF 1 <= n THEN n - 1 + 1 ELSE 0)
      /\ \A i \in 1 .. n - 1 + 1 : w[i] = s[1 + i - 1]
  <2> HIDE DEF n
  <2>1. QED
    BY <1>1, SubSeqProperties
<1> HIDE DEF w
<1>3. Items(w) \subseteq Items(s)
  BY <1>1, <1>2 DEF Items
<1>4. QED
  BY <1>2, <1>3 DEF w
------------------------------------------------------------------------------
(* Frames: what the steps of each kind leave alone.                        *)

Socket(p) ==
    SocketOpens(p) \/ SocketSeated(p) \/ SocketFails(p) \/ SocketForgotten(p) \/ SocketDrops(p)

\* What each step leaves alone.
LEMMA PageFrame ==
    /\ \A f \in Files : MarkReady(f) \/ SetBack(f) \/ Announce(f) \/ Remove(f) =>
        UNCHANGED <<about, feedVars, join, list, clicking>>
    /\ Broadcast => UNCHANGED <<row, delivered, repeats, unsaid, got, join, list, clicking>>
    /\ \A p \in Clients :
        /\ Socket(p) => UNCHANGED <<published, got, backend, join, list, clicking>>
        /\ ReceivePush(p) =>
            UNCHANGED <<published, made, answers, shown, newest, overtaken, failed, skipped,
                        backend, join, clicking>>
        /\ Mount(p) \/ JoinFails(p) => UNCHANGED <<feedVars, backend, list, clicking>>
        /\ Joined(p) =>
            UNCHANGED <<feedVars, backend, made, answers, shown, newest, overtaken, failed,
                        skipped, unmended, clicking>>
        /\ Close(p) =>
            UNCHANGED <<published, seat, feed, got, backend, clicks, downloads,
                        made, shown, newest, overtaken, failed, skipped, unmended>>
        /\ Serve(p) => UNCHANGED <<shown, newest, overtaken, failed, feedVars, backend, join, clicking>>
        /\ Receive(p) =>
            UNCHANGED <<asked, made, failed, skipped, unmended, feedVars, backend, join, clicking>>
        /\ ListFails(p) =>
            UNCHANGED <<made, shown, newest, overtaken, skipped, unmended, feedVars, backend, join,
                        clicking>>
        /\ TimerFires(p) =>
            UNCHANGED <<made, answers, shown, newest, overtaken, failed, skipped, unmended,
                        feedVars, backend, join, clicks, downloads>>
        /\ \A f \in Files :
            /\ Click(p, f) => UNCHANGED <<feedVars, backend, join, list>>
            /\ DownloadEnds(p, f) =>
                UNCHANGED <<row, repeats, unsaid, topic, about, feedVars, join, list, clicks, timers>>
    /\ ApiCrash =>
        UNCHANGED <<published, got, row, delivered, repeats, unsaid, about, clicks, timers,
                    made, answers, shown, newest, overtaken, skipped, unmended>>
BY DEF MarkReady, SetBack, Announce, Remove, Broadcast, Socket, SocketOpens, SocketSeated, SocketFails,
       SocketForgotten, SocketDrops, ReceivePush, Mount, JoinFails, Joined, Close, Serve, Receive,
       ListFails, TimerFires, Click, DownloadEnds, ApiCrash, Publish, Connect, TakeSeat, Hangup,
       LeaveSeat, Lose, Drop, Deliver, Ask, feedVars, backend, list, clicking

\* The steps of the page in groups.
LEMMA PageCases ==
    ASSUME [PageNext]_pageVars
    PROVE  \/ \E f \in Files : MarkReady(f) \/ SetBack(f) \/ Announce(f) \/ Remove(f)
           \/ Broadcast
           \/ \E p \in Clients :
                \/ Socket(p) \/ ReceivePush(p)
                \/ Mount(p) \/ JoinFails(p) \/ Joined(p) \/ Close(p)
                \/ Serve(p) \/ Receive(p) \/ ListFails(p) \/ TimerFires(p)
                \/ \E f \in Files : Click(p, f) \/ DownloadEnds(p, f)
           \/ ApiCrash
           \/ UNCHANGED pageVars
BY Zenon DEF PageNext, PageStep, Socket

------------------------------------------------------------------------------
(* The feed and what is known of the files.                                *)

\* Nothing comes through the feed that was not broadcast.
LEMMA FeedStep ==
    ASSUME PageTypeOK, FeedInv, [PageNext]_pageVars
    PROVE  FeedInv'
<1> DEFINE Good(q) == q \in Seq(Nat) /\ Items(q) \subseteq 1 .. published
<1>1. /\ published \in Nat /\ feed \in [Clients -> Seq(Nat)] /\ got \in [Clients -> Seq(Nat)]
      /\ \A p \in Clients : Good(feed[p]) /\ Good(got[p])
  BY DEF FeedInv
<1>2. ASSUME NEW p \in Clients, NEW q, Good(q), feed' = [feed EXCEPT ![p] = q],
             UNCHANGED <<published, got>>
      PROVE  FeedInv'
  BY <1>1, <1>2 DEF FeedInv
<1>3. UNCHANGED <<published, feed, got>> => FeedInv'
  BY <1>1 DEF FeedInv
<1>4. Good(<<>>)
  BY EmptySeq DEF Items
<1>5. ASSUME NEW p \in Clients, feed[p] # <<>>
      PROVE  Good(Tail(feed[p])) /\ Head(feed[p]) \in Nat /\ Head(feed[p]) \in 1 .. published
  BY <1>1, <1>5, ItemsOfTail
<1>6. ASSUME NEW p \in Clients PROVE Good(SubSeq(feed[p], 1, Len(feed[p]) - 1))
  BY <1>1, ItemsOfFront
<1>7. CASE Broadcast
  <2>1. PICK room \in Rooms : Publish(room)
    BY <1>7 DEF Broadcast
  <2>2. /\ published' = published + 1 /\ got' = got
        /\ feed' = [c \in Clients |->
                     IF seat[c] = "taken" /\ RoomOf[c] = room
                     THEN Append(feed[c], published') ELSE feed[c]]
    BY <2>1 DEF Publish
  <2>3. ASSUME NEW c \in Clients
        PROVE  /\ Append(feed[c], published') \in Seq(Nat)
               /\ Items(Append(feed[c], published')) = Items(feed[c]) \cup {published'}
    <3>1. published' \in Nat /\ feed[c] \in Seq(Nat)
      BY <1>1, <2>2
    <3>2. QED
      BY <3>1, ItemsOfAppend
  <2>4. \A c \in Clients : feed'[c] \in Seq(Nat) /\ Items(feed'[c]) \subseteq 1 .. published'
    <3> SUFFICES ASSUME NEW c \in Clients
                 PROVE  feed'[c] \in Seq(Nat) /\ Items(feed'[c]) \subseteq 1 .. published'
      OBVIOUS
    <3> DEFINE longer == Append(feed[c], published')
    <3>1. longer \in Seq(Nat) /\ Items(longer) = Items(feed[c]) \cup {published'}
      BY <2>3
    <3>2. feed'[c] = longer \/ feed'[c] = feed[c]
      BY <2>2
    <3> HIDE DEF longer
    <3>3. 1 .. published \subseteq 1 .. published' /\ published' \in 1 .. published'
      BY <1>1, <2>2
    <3>4. CASE feed'[c] = longer
      BY <1>1, <3>1, <3>3, <3>4, Zenon
    <3>5. CASE feed'[c] = feed[c]
      BY <1>1, <3>3, <3>5, Zenon
    <3>6. QED
      BY <3>2, <3>4, <3>5
  <2>5. \A c \in Clients : Items(got'[c]) \subseteq 1 .. published'
    BY <1>1, <2>2
  <2>6. DOMAIN feed' = Clients /\ feed' = [c \in Clients |-> feed'[c]]
    BY <2>2
  <2>7. feed' \in [Clients -> Seq(Nat)]
    BY <2>4, <2>6
  <2>8. QED
    BY <1>1, <2>2, <2>4, <2>5, <2>7 DEF FeedInv
<1>8. ASSUME NEW p \in Clients, Socket(p) PROVE FeedInv'
  <2>1. CASE UNCHANGED feed
    BY <1>3, <1>8, <2>1, PageFrame
  <2>2. CASE Drop(p)
    <3>1. feed' = [feed EXCEPT ![p] = SubSeq(feed[p], 1, Len(feed[p]) - 1)]
      BY <1>1, <2>2 DEF Drop
    <3>2. QED
      BY <1>2, <1>6, <1>8, <3>1, PageFrame
  <2>3. CASE Lose(p)
    <3>1. feed[p] # <<>> /\ feed' = [feed EXCEPT ![p] = Tail(feed[p])]
      BY <1>1, <2>3 DEF Lose
    <3>2. QED
      BY <1>2, <1>5, <1>8, <3>1, PageFrame
  <2>4. QED
    BY <1>8, <2>1, <2>2, <2>3 DEF Socket, SocketOpens, SocketSeated, SocketFails, SocketForgotten,
                                  SocketDrops, Connect, TakeSeat, Hangup, LeaveSeat
<1>9. ASSUME NEW p \in Clients, ReceivePush(p) PROVE FeedInv'
  <2> DEFINE e == Head(feed[p])
             longer == Append(got[p], e)
             rest == Tail(feed[p])
  <2>1. /\ feed[p] # <<>> /\ published' = published
        /\ got' = [got EXCEPT ![p] = longer] /\ feed' = [feed EXCEPT ![p] = rest]
    BY <1>1, <1>9 DEF ReceivePush, Deliver
  <2>2. Good(rest) /\ e \in Nat /\ e \in 1 .. published
    BY <1>5, <2>1
  <2>3. Good(longer)
    <3> HIDE DEF e
    <3>1. got[p] \in Seq(Nat)
      BY <1>1
    <3>2. longer \in Seq(Nat) /\ Items(longer) = Items(got[p]) \cup {e}
      BY <2>2, <3>1, ItemsOfAppend
    <3>3. QED
      BY <1>1, <2>2, <3>2
  <2> HIDE DEF longer, rest
  <2>4. QED
    BY <1>1, <2>1, <2>2, <2>3 DEF FeedInv
<1>10. CASE ApiCrash
  <2>1. feed' = [p \in Clients |-> <<>>] /\ UNCHANGED <<published, got>>
    BY <1>10 DEF ApiCrash
  <2>2. QED
    BY <1>1, <1>4, <2>1 DEF FeedInv
<1>11. CASE UNCHANGED pageVars
  BY <1>3, <1>11 DEF pageVars, feedVars
<1>12. ASSUME UNCHANGED feedVars PROVE FeedInv'
  BY <1>3, <1>12 DEF feedVars
<1>13. ASSUME NEW p \in Clients, Close(p) PROVE FeedInv'
  BY <1>3, <1>13, PageFrame
<1>14. QED
  BY <1>7, <1>8, <1>9, <1>10, <1>11, <1>12, <1>13, PageCases, PageFrame, Zenon

BackTypes ==
    /\ row \in [Files -> {"pending", "ready", "stored", "gone"}]
    /\ delivered \subseteq Clients \X Files
    /\ repeats \in 0 .. MaxRepeats
    /\ unsaid \subseteq Files
    /\ topic \in Seq(Files)
    /\ about \in Seq(Files) /\ Len(about) = published

\* A deleted file is deleted for good, and a delivery is only forgotten with its file.
LEMMA OverIsForGood ==
    ASSUME BackTypes, [PageNext]_pageVars
    PROVE  /\ Known \subseteq Known'
           /\ \A p \in Clients, f \in Files : Over(p, f) => Over(p, f)'
<1>1. ASSUME UNCHANGED <<row, delivered>>
      PROVE  Known' = Known /\ \A p \in Clients, f \in Files : Over(p, f)' <=> Over(p, f)
  BY <1>1 DEF Known, Over
<1>2. ASSUME NEW f \in Files, MarkReady(f) \/ SetBack(f) \/ Announce(f) \/ Remove(f)
      PROVE  /\ Known \subseteq Known'
             /\ \A p \in Clients, g \in Files : Over(p, g) => Over(p, g)'
  BY <1>2 DEF MarkReady, SetBack, Announce, Remove, BackTypes, Known, Over
<1>3. ASSUME NEW q \in Clients, NEW f \in Files, DownloadEnds(q, f)
      PROVE  /\ Known \subseteq Known'
             /\ \A p \in Clients, g \in Files : Over(p, g) => Over(p, g)'
  BY <1>3 DEF DownloadEnds, Known, Over
<1>4. CASE UNCHANGED pageVars
  BY <1>1, <1>4 DEF pageVars, backend
<1>5. ASSUME NEW p \in Clients,
             \/ Socket(p) \/ ReceivePush(p)
             \/ Mount(p) \/ JoinFails(p) \/ Joined(p) \/ Close(p)
             \/ Serve(p) \/ Receive(p) \/ ListFails(p) \/ TimerFires(p)
             \/ \E f \in Files : Click(p, f)
      PROVE  UNCHANGED <<row, delivered>>
  BY <1>5, PageFrame DEF backend
<1>6. Broadcast \/ ApiCrash => UNCHANGED <<row, delivered>>
  BY PageFrame
<1>7. QED
  BY <1>1, <1>2, <1>3, <1>4, <1>5, <1>6, PageCases, Zenon

\* Nobody speaks of a file that has not been ready.
LEMMA BackStep ==
    ASSUME PageTypeOK, FeedInv, KnownInv, [PageNext]_pageVars
    PROVE  BackTypes' /\ (unsaid \cup Items(topic) \cup Items(about) \subseteq Known)'
<1> DEFINE Spoken == unsaid \cup Items(topic) \cup Items(about) \subseteq Known
<1>1. BackTypes /\ Spoken
  BY DEF PageTypeOK, BackTypes, KnownInv
<1>2. Known \subseteq Known'
  BY <1>1, OverIsForGood
<1>3. ASSUME UNCHANGED <<published, backend>> PROVE BackTypes' /\ Spoken'
  BY <1>1, <1>3 DEF BackTypes, backend, Known
<1>4. ASSUME NEW f \in Files, MarkReady(f) PROVE BackTypes' /\ Spoken'
  <2>1. /\ \/ row[f] = "gone" /\ row' = row
           \/ row' = [row EXCEPT ![f] = "ready"]
        /\ unsaid' = unsaid \cup {f}
        /\ UNCHANGED <<delivered, topic, about, published>>
    BY <1>4 DEF MarkReady, feedVars
  <2>2. \/ UNCHANGED repeats
        \/ repeats > 0 /\ repeats' = repeats - 1
    BY <1>4 DEF MarkReady
  <2>3. BackTypes'
    BY <1>1, <2>1, <2>2, PageAssumption DEF BackTypes
  <2>4. f \in Known'
    BY <1>1, <2>1 DEF BackTypes, Known
  <2>5. QED
    BY <1>1, <1>2, <2>1, <2>3, <2>4
<1>5. ASSUME NEW f \in Files, Announce(f) PROVE BackTypes' /\ Spoken'
  <2>1. /\ f \in unsaid /\ unsaid' = unsaid \ {f}
        /\ topic' \in {topic, Append(topic, f), Append(Append(topic, f), f)}
        /\ UNCHANGED <<row, delivered, repeats, about, published>>
    BY <1>5 DEF Announce, feedVars
  <2>2. topic \in Seq(Files)
    BY <1>1 DEF BackTypes
  <2> DEFINE longer == Append(topic, f)
             longest == Append(longer, f)
  <2>3. longer \in Seq(Files) /\ Items(longer) = Items(topic) \cup {f}
    BY <2>2, ItemsOfAppend
  <2>4. topic' \in {topic, longer, longest}
    BY <2>1
  <2> HIDE DEF longer
  <2>5. longest \in Seq(Files) /\ Items(longest) = Items(longer) \cup {f}
    BY <2>3, ItemsOfAppend
  <2> HIDE DEF longest
  <2>6. topic' \in Seq(Files) /\ Items(topic') \subseteq Items(topic) \cup {f}
    BY <2>2, <2>3, <2>4, <2>5
  <2>7. QED
    BY <1>1, <1>2, <2>1, <2>6 DEF BackTypes
<1>6. ASSUME NEW f \in Files, Remove(f) PROVE BackTypes' /\ Spoken'
  <2>1. /\ row' = [row EXCEPT ![f] = "gone"] /\ delivered' \subseteq delivered
        /\ UNCHANGED <<repeats, unsaid, topic, about, published>>
    BY <1>6 DEF Remove, feedVars
  <2>2. QED
    BY <1>1, <1>2, <2>1 DEF BackTypes
<1>7. CASE Broadcast
  <2>1. /\ topic # <<>> /\ topic' = Tail(topic) /\ about' = Append(about, Head(topic))
        /\ UNCHANGED <<row, delivered, repeats, unsaid>>
    BY <1>7 DEF Broadcast
  <2>2. published' = published + 1
    BY <1>7 DEF Broadcast, Publish
  <2>3. topic \in Seq(Files) /\ about \in Seq(Files) /\ Len(about) = published
    BY <1>1 DEF BackTypes
  <2> DEFINE f == Head(topic)
             rest == Tail(topic)
             longer == Append(about, f)
  <2>4. /\ rest \in Seq(Files) /\ Items(rest) \subseteq Items(topic)
        /\ f \in Items(topic) /\ f \in Files
    BY <2>1, <2>3, ItemsOfTail
  <2>5. /\ longer \in Seq(Files) /\ Len(longer) = Len(about) + 1
        /\ Items(longer) = Items(about) \cup {f}
    <3> HIDE DEF f
    <3>1. QED
      BY <2>3, <2>4, ItemsOfAppend
  <2>6. topic' = rest /\ about' = longer
    BY <2>1
  <2> HIDE DEF f, rest, longer
  <2>7. BackTypes'
    BY <1>1, <2>1, <2>2, <2>3, <2>4, <2>5, <2>6 DEF BackTypes
  <2>8. Spoken'
    BY <1>1, <1>2, <2>1, <2>4, <2>5, <2>6
  <2>9. QED
    BY <2>7, <2>8
<1>8. ASSUME NEW p \in Clients, NEW f \in Files, DownloadEnds(p, f) PROVE BackTypes' /\ Spoken'
  <2>1. /\ delivered' \subseteq delivered \cup {<<p, f>>}
        /\ UNCHANGED <<row, repeats, unsaid, topic, about, published>>
    BY <1>8 DEF DownloadEnds, feedVars
  <2>2. QED
    BY <1>1, <1>2, <2>1 DEF BackTypes
<1>9. CASE ApiCrash
  <2>1. UNCHANGED <<row, delivered, repeats, unsaid, about, published>>
    BY <1>9 DEF ApiCrash
  <2>2. topic' = topic \/ (topic # <<>> /\ topic' = Tail(topic))
    BY <1>9 DEF ApiCrash
  <2>3. topic \in Seq(Files)
    BY <1>1 DEF BackTypes
  <2>4. topic' \in Seq(Files) /\ Items(topic') \subseteq Items(topic)
    BY <2>2, <2>3, ItemsOfTail
  <2>5. QED
    BY <1>1, <1>2, <2>1, <2>4 DEF BackTypes
<1>10. CASE UNCHANGED pageVars
  BY <1>3, <1>10 DEF pageVars, feedVars
<1>11. ASSUME NEW p \in Clients,
              \/ Socket(p) \/ ReceivePush(p)
              \/ Mount(p) \/ JoinFails(p) \/ Joined(p) \/ Close(p)
              \/ Serve(p) \/ Receive(p) \/ ListFails(p) \/ TimerFires(p)
              \/ \E f \in Files : Click(p, f)
       PROVE  UNCHANGED <<published, backend>>
  BY <1>11, PageFrame DEF feedVars
<1>12. ASSUME NEW f \in Files, SetBack(f) PROVE BackTypes' /\ Spoken'
  <2>1. /\ repeats > 0 /\ row' = [row EXCEPT ![f] = "stored"] /\ repeats' = repeats - 1
        /\ UNCHANGED <<delivered, unsaid, topic, about, published>>
    BY <1>12 DEF SetBack, feedVars
  <2>2. BackTypes'
    BY <1>1, <2>1, PageAssumption DEF BackTypes
  <2>3. QED
    BY <1>1, <1>2, <2>1, <2>2
<1>13. QED
  BY <1>3, <1>4, <1>5, <1>6, <1>7, <1>8, <1>9, <1>10, <1>11, <1>12, PageCases, Zenon
------------------------------------------------------------------------------
(* The pages' own state, and the requests they have a reason for.          *)

ListTypes ==
    /\ made \in [Clients -> Nat]
    /\ answers \in [Clients -> SUBSET Answers]
    /\ shown \in [Clients -> SUBSET Files]
    /\ newest \in [Clients -> Nat]
    /\ overtaken \subseteq Clients
    /\ failed \subseteq Clients
    /\ skipped \subseteq Clients \X Files
    /\ unmended \subseteq skipped
    /\ downloads \subseteq Clients \X Files

CountTypes ==
    /\ join \in [Clients -> {"none", "joining", "joined", "failed", "closed"}]
    /\ asked \in [Clients -> Nat]
    /\ clicks \in [Clients -> 0 .. MaxClicks]
    /\ timers \in [Clients -> 0 .. MaxClicks]

\* The lists and the answers are of files.
LEMMA ListStep ==
    ASSUME PageTypeOK, [PageNext]_pageVars
    PROVE  ListTypes'
<1> USE DEF ListTypes
<1>1. ListTypes
  BY DEF PageTypeOK
<1>2. UNCHANGED <<list, downloads>> => ListTypes'
  BY <1>1 DEF list
<1>3. ASSUME NEW p \in Clients, Serve(p) PROVE ListTypes'
  <2> DEFINE a == [nth |-> made[p] + 1, files |-> Waiting(p)]
  <2>1. /\ made' = [made EXCEPT ![p] = made[p] + 1]
        /\ answers' = [answers EXCEPT ![p] = answers[p] \cup {[nth |-> made'[p], files |-> Waiting(p)]}]
        /\ skipped' = skipped \cup SetBackNow(p) /\ unmended' = unmended \cup SetBackNow(p)
        /\ UNCHANGED <<shown, newest, overtaken, failed, downloads>>
    BY <1>1, <1>3 DEF Serve, clicking
  <2>2. made'[p] = made[p] + 1 /\ made[p] \in Nat
    BY <1>1, <2>1
  <2>3. answers' = [answers EXCEPT ![p] = answers[p] \cup {a}]
    BY <2>1, <2>2
  <2>4. a \in Answers
    BY <2>2 DEF Answers, Waiting
  <2> HIDE DEF a
  <2>5. SetBackNow(p) \subseteq Clients \X Files
    BY DEF SetBackNow
  <2>6. QED
    BY <1>1, <2>1, <2>2, <2>3, <2>4, <2>5
<1>4. ASSUME NEW p \in Clients, Receive(p) PROVE ListTypes'
  <2>1. PICK a \in answers[p] :
            /\ answers' = [answers EXCEPT ![p] = answers[p] \ {a}]
            /\ shown' = [shown EXCEPT ![p] = a.files]
            /\ newest' = [newest EXCEPT ![p] = IF a.nth > newest[p] THEN a.nth ELSE newest[p]]
            /\ overtaken' \subseteq overtaken \cup {p}
            /\ UNCHANGED <<made, failed, skipped, unmended, downloads>>
    BY <1>1, <1>4 DEF Receive, NextShown, clicking
  <2>2. a.nth \in Nat /\ a.files \subseteq Files
    BY <1>1, <2>1 DEF Answers
  <2>3. QED
    BY <1>1, <2>1, <2>2
<1>5. ASSUME NEW p \in Clients, ListFails(p) PROVE ListTypes'
  <2>1. /\ UNCHANGED answers \/ \E a \in answers[p] : answers' = [answers EXCEPT ![p] = answers[p] \ {a}]
        /\ failed' = failed \cup {p}
        /\ UNCHANGED <<made, shown, newest, overtaken, skipped, unmended, downloads>>
    BY <1>1, <1>5 DEF ListFails, clicking
  <2>2. QED
    BY <1>1, <2>1
<1>6. ASSUME NEW p \in Clients, Close(p) PROVE ListTypes'
  BY <1>1, <1>6 DEF Close
<1>7. ASSUME NEW p \in Clients, NEW f \in Files, Click(p, f) \/ DownloadEnds(p, f)
      PROVE  ListTypes'
  BY <1>1, <1>7 DEF Click, DownloadEnds, list
<1>8. ASSUME NEW p \in Clients, TimerFires(p) \/ Joined(p) \/ ReceivePush(p) PROVE ListTypes'
  BY <1>1, <1>8 DEF TimerFires, Joined, ReceivePush, Mend, clicking
<1>9. CASE ApiCrash
  BY <1>1, <1>9 DEF ApiCrash
<1>10. CASE UNCHANGED pageVars
  BY <1>2, <1>10 DEF pageVars, clicking
<1>11. ASSUME UNCHANGED <<list, clicking>> PROVE ListTypes'
  BY <1>2, <1>11 DEF clicking
<1>12. ASSUME NEW p \in Clients, Socket(p) \/ Mount(p) \/ JoinFails(p)
       PROVE  UNCHANGED <<list, clicking>>
  BY <1>12, PageFrame
<1>13. QED
  BY <1>3, <1>4, <1>5, <1>6, <1>7, <1>8, <1>9, <1>10, <1>11, <1>12, PageCases, PageFrame, Zenon

\* A page asks once per join, push and click; nothing asks by itself.
LEMMA CountStep ==
    ASSUME PageTypeOK, FeedInv, AskInv, [PageNext]_pageVars
    PROVE  CountTypes' /\ AskInv'
<1> DEFINE First(p) == IF join[p] \in {"none", "joining"} THEN 0 ELSE 1
           Pushes(p) == Len(got[p])
           Ok(p) == /\ timers[p] <= clicks[p]
                    /\ asked[p] + made[p] + timers[p] <= First(p) + Pushes(p) + clicks[p]
<1>1. /\ CountTypes /\ made \in [Clients -> Nat]
      /\ \A p \in Clients : Ok(p) /\ Pushes(p) \in Nat
  BY LenProperties DEF PageTypeOK, CountTypes, AskInv, FeedInv
<1>2. ASSUME CountTypes', \A p \in Clients : Ok(p)' PROVE CountTypes' /\ AskInv'
  BY <1>2 DEF AskInv
<1>3. ASSUME NEW p \in Clients, UNCHANGED <<asked, made, timers, join, clicks>>, Pushes(p)' = Pushes(p)
      PROVE  Ok(p)'
  BY <1>1, <1>3
<1>4. UNCHANGED <<asked, timers, join, clicks>> => CountTypes'
  BY <1>1 DEF CountTypes
<1>5. UNCHANGED got => \A p \in Clients : Pushes(p)' = Pushes(p)
  OBVIOUS
<1>6. ASSUME NEW p \in Clients, ReceivePush(p) PROVE CountTypes' /\ AskInv'
  <2>1. /\ asked' = [asked EXCEPT ![p] = asked[p] + 1]
        /\ got' = [got EXCEPT ![p] = Append(got[p], Head(feed[p]))] /\ feed[p] # <<>>
        /\ UNCHANGED <<made, timers, join, clicks>>
    BY <1>6 DEF ReceivePush, Deliver, Ask, clicking
  <2>2. got \in [Clients -> Seq(Nat)] /\ feed[p] \in Seq(Nat)
    BY DEF FeedInv
  <2>3. Pushes(p)' = Pushes(p) + 1
    <3> DEFINE e == Head(feed[p])
    <3>1. e \in Nat
      BY <2>1, <2>2, ItemsOfTail
    <3>2. got'[p] = Append(got[p], e)
      BY <2>1, <2>2
    <3> HIDE DEF e
    <3>3. Len(Append(got[p], e)) = Len(got[p]) + 1
      BY <2>2, <3>1, ItemsOfAppend
    <3>4. QED
      BY <3>2, <3>3
  <2>4. \A q \in Clients : q # p => Pushes(q)' = Pushes(q)
    BY <2>1, <2>2
  <2> HIDE DEF Pushes
  <2>5. \A q \in Clients : Ok(q)'
    <3>1. \A q \in Clients : First(q)' = First(q)
      BY <2>1
    <3>2. /\ asked'[p] = asked[p] + 1
          /\ \A q \in Clients : q # p => asked'[q] = asked[q]
      BY <1>1, <2>1 DEF CountTypes
    <3>3. ASSUME NEW q \in Clients
          PROVE  /\ asked[q] \in Nat /\ made[q] \in Nat /\ timers[q] \in Nat
                 /\ clicks[q] \in Nat /\ First(q) \in Nat /\ Pushes(q) \in Nat
      BY <1>1, PageAssumption DEF CountTypes
    <3>4. UNCHANGED <<made, timers, clicks>>
      BY <2>1
    <3> HIDE DEF First
    <3>5. ASSUME NEW q \in Clients PROVE Ok(q)'
      <4>1. Ok(q)
        BY <1>1
      <4>2. asked'[q] + made[q] + timers[q] <= First(q) + Pushes(q)' + clicks[q]
        BY <2>3, <2>4, <3>2, <3>3, <4>1
      <4>3. QED
        BY <3>1, <3>4, <4>1, <4>2
    <3>6. QED
      BY <3>5
  <2>6. QED
    BY <1>1, <1>2, <2>1, <2>5 DEF CountTypes
<1> HIDE DEF Pushes
<1>7. ASSUME NEW p \in Clients, Mount(p) \/ JoinFails(p) \/ Joined(p)
      PROVE  CountTypes' /\ AskInv'
  <2>1. UNCHANGED <<made, timers, clicks, got>>
    BY <1>7, PageFrame DEF list, clicking, feedVars
  <2>2. \/ join[p] = "none" /\ join' = [join EXCEPT ![p] = "joining"] /\ UNCHANGED asked
        \/ join[p] = "joining" /\ join' = [join EXCEPT ![p] = "failed"] /\ UNCHANGED asked
        \/ /\ join[p] = "joining" /\ join' = [join EXCEPT ![p] = "joined"]
           /\ asked' = [asked EXCEPT ![p] = asked[p] + 1]
    BY <1>7 DEF Mount, JoinFails, Joined, Ask, list
  <2>3. CountTypes'
    BY <1>1, <2>1, <2>2 DEF CountTypes
  <2>4. \A q \in Clients : Ok(q)'
    BY <1>1, <1>5, <2>1, <2>2 DEF CountTypes
  <2>5. QED
    BY <1>2, <2>3, <2>4
<1>8. ASSUME NEW p \in Clients, Close(p) PROVE CountTypes' /\ AskInv'
  <2>1. /\ join' = [join EXCEPT ![p] = "closed"] /\ asked' = [asked EXCEPT ![p] = 0]
        /\ timers' = [timers EXCEPT ![p] = 0] /\ Open(p) /\ UNCHANGED <<made, clicks, got>>
    BY <1>8 DEF Close
  <2>2. CountTypes'
    BY <1>1, <2>1, PageAssumption DEF CountTypes
  <2>3. \A q \in Clients : Ok(q)'
    BY <1>1, <1>5, <2>1, PageAssumption DEF CountTypes
  <2>4. QED
    BY <1>2, <2>2, <2>3
<1>9. ASSUME NEW p \in Clients, Serve(p) \/ ListFails(p) \/ Receive(p)
      PROVE  CountTypes' /\ AskInv'
  <2>1. UNCHANGED <<timers, clicks, got, join>>
    BY <1>9, PageFrame DEF clicking, feedVars
  <2>2. \/ UNCHANGED <<asked, made>>
        \/ /\ asked[p] > 0 /\ asked' = [asked EXCEPT ![p] = asked[p] - 1]
           /\ UNCHANGED made \/ made' = [made EXCEPT ![p] = made[p] + 1]
    BY <1>9 DEF Serve, ListFails, Receive
  <2>3. CountTypes'
    BY <1>1, <2>1, <2>2 DEF CountTypes
  <2>4. \A q \in Clients : Ok(q)'
    BY <1>1, <1>5, <2>1, <2>2, PageAssumption DEF CountTypes
  <2>5. QED
    BY <1>2, <2>3, <2>4
<1>10. ASSUME NEW p \in Clients, TimerFires(p) PROVE CountTypes' /\ AskInv'
  <2>1. /\ timers[p] > 0 /\ timers' = [timers EXCEPT ![p] = timers[p] - 1]
        /\ asked' = [asked EXCEPT ![p] = asked[p] + 1]
        /\ UNCHANGED <<made, clicks, got, join>>
    BY <1>10 DEF TimerFires, Ask, feedVars
  <2>2. CountTypes'
    BY <1>1, <2>1, PageAssumption DEF CountTypes
  <2>3. \A q \in Clients : Ok(q)'
    BY <1>1, <1>5, <2>1, PageAssumption DEF CountTypes
  <2>4. QED
    BY <1>2, <2>2, <2>3
<1>11. ASSUME NEW p \in Clients, NEW f \in Files, Click(p, f) PROVE CountTypes' /\ AskInv'
  <2>1. /\ clicks[p] < MaxClicks /\ clicks' = [clicks EXCEPT ![p] = clicks[p] + 1]
        /\ timers' = [timers EXCEPT ![p] = timers[p] + 1]
        /\ UNCHANGED <<asked, made, got, join>>
    BY <1>11 DEF Click, feedVars, list
  <2>2. CountTypes'
    BY <1>1, <2>1, PageAssumption DEF CountTypes
  <2>3. \A q \in Clients : Ok(q)'
    BY <1>1, <1>5, <2>1, PageAssumption DEF CountTypes
  <2>4. QED
    BY <1>2, <2>2, <2>3
<1>12. CASE ApiCrash
  <2>1. /\ asked' = [p \in Clients |-> 0]
        /\ join' = [p \in Clients |-> IF join[p] = "joining" THEN "failed" ELSE join[p]]
        /\ UNCHANGED <<made, timers, clicks, got>>
    BY <1>12 DEF ApiCrash
  <2>2. CountTypes'
    BY <1>1, <2>1 DEF CountTypes
  <2>3. \A q \in Clients : Ok(q)'
    BY <1>1, <1>5, <2>1, PageAssumption DEF CountTypes
  <2>4. QED
    BY <1>2, <2>2, <2>3
<1>13. ASSUME UNCHANGED <<asked, made, timers, join, clicks, got>> PROVE CountTypes' /\ AskInv'
  BY <1>1, <1>2, <1>3, <1>4, <1>5, <1>13
<1>14. CASE UNCHANGED pageVars
  BY <1>13, <1>14 DEF pageVars, list, clicking, feedVars
<1>15. ASSUME \/ \E f \in Files : MarkReady(f) \/ SetBack(f) \/ Announce(f) \/ Remove(f)
              \/ Broadcast
              \/ \E p \in Clients : Socket(p) \/ \E f \in Files : DownloadEnds(p, f)
       PROVE  UNCHANGED <<asked, made, timers, join, clicks, got>>
  BY <1>15, PageFrame DEF list, clicking, feedVars
<1>16. QED
  BY <1>6, <1>7, <1>8, <1>9, <1>10, <1>11, <1>12, <1>13, <1>14, <1>15, PageCases, Zenon
------------------------------------------------------------------------------
(* The answers and their numbers.  To the list of one page a step is one of *)
(* three things: the api makes the next answer, the page receives one, or   *)
(* answers get lost at most.                                               *)

Makes(p) ==
    /\ asked[p] > 0
    /\ made'[p] = made[p] + 1
    /\ answers'[p] = answers[p] \cup {[nth |-> made[p] + 1, files |-> Waiting(p)]}
    /\ shown'[p] = shown[p] /\ newest'[p] = newest[p]
    /\ skipped' = skipped \cup SetBackNow(p) /\ unmended' = unmended \cup SetBackNow(p)
    /\ UNCHANGED <<row, delivered, got, downloads, overtaken, failed, join>>

Gets(p, a) ==
    /\ a \in answers[p]
    /\ answers'[p] = answers[p] \ {a}
    /\ shown'[p] = a.files
    /\ newest'[p] = IF a.nth > newest[p] THEN a.nth ELSE newest[p]
    /\ a.nth < newest[p] => p \in overtaken'
    /\ overtaken \subseteq overtaken'
    /\ made'[p] = made[p] /\ asked'[p] = asked[p]
    /\ UNCHANGED <<row, delivered, got, downloads, failed, skipped, unmended, join>>

Keeps(p) ==
    /\ answers'[p] \subseteq answers[p]
    /\ made'[p] = made[p] /\ shown'[p] = shown[p] /\ newest'[p] = newest[p]
    /\ p \in overtaken' <=> p \in overtaken
    /\ skipped \subseteq skipped'
    \* As far as the page is still open and none of its requests has failed:
    /\ p \in failed => p \in failed'
    /\ join[p] = "closed" => join'[p] = "closed"
    /\ p \notin failed' /\ join'[p] # "closed" =>
        /\ answers'[p] = answers[p]
        /\ asked[p] > 0 => asked'[p] > 0
        /\ \/ asked'[p] > 0
           \/ /\ got'[p] = got[p]
              /\ \A f \in Files : <<p, f>> \in unmended => <<p, f>> \in unmended'

\* A step makes one answer for a page, or gives it one, or leaves its list alone.
LEMMA ListCases ==
    ASSUME ListTypes, CountTypes, FeedInv, NEW q \in Clients, [PageNext]_pageVars
    PROVE  Makes(q) \/ Keeps(q) \/ \E a \in answers[q] : Gets(q, a)
<1> USE DEF ListTypes
<1>1. ASSUME UNCHANGED <<answers, made, shown, newest, overtaken, failed, skipped, unmended,
                         asked, got, join>>
      PROVE  Keeps(q)
  BY <1>1 DEF Keeps
<1>2. ASSUME NEW p \in Clients, Serve(p) PROVE Makes(q) \/ Keeps(q)
  <2>1. /\ asked[p] > 0 /\ made' = [made EXCEPT ![p] = made[p] + 1]
        /\ asked' = [asked EXCEPT ![p] = asked[p] - 1]
        /\ answers' = [answers EXCEPT ![p] = answers[p] \cup {[nth |-> made'[p], files |-> Waiting(p)]}]
        /\ skipped' = skipped \cup SetBackNow(p) /\ unmended' = unmended \cup SetBackNow(p)
        /\ UNCHANGED <<shown, newest, overtaken, failed, row, delivered, got, downloads, join>>
    BY <1>2 DEF Serve, backend, clicking, feedVars
  <2>2. made'[p] = made[p] + 1
    BY <2>1
  <2>3. CASE q = p
    <3>1. answers'[p] = answers[p] \cup {[nth |-> made[p] + 1, files |-> Waiting(p)]}
      BY <2>1, <2>2
    <3>2. QED
      BY <2>1, <2>2, <2>3, <3>1 DEF Makes
  <2>4. CASE q # p
    <3>1. answers'[q] = answers[q] /\ made'[q] = made[q] /\ asked'[q] = asked[q]
      BY <2>1, <2>4 DEF CountTypes
    <3>2. QED
      BY <2>1, <3>1 DEF Keeps
  <2>5. QED
    BY <2>3, <2>4
<1>3. ASSUME NEW p \in Clients, Receive(p)
      PROVE  Keeps(q) \/ \E a \in answers[q] : Gets(q, a)
  <2>1. PICK a \in answers[p] :
            /\ answers' = [answers EXCEPT ![p] = answers[p] \ {a}]
            /\ shown' = [shown EXCEPT ![p] = a.files]
            /\ newest' = [newest EXCEPT ![p] = IF a.nth > newest[p] THEN a.nth ELSE newest[p]]
            /\ overtaken' = overtaken \cup (IF a.nth < newest[p] THEN {p} ELSE {})
            /\ UNCHANGED <<asked, made, failed, skipped, unmended, row, delivered, got,
                            downloads, join>>
    BY <1>3 DEF Receive, NextShown, backend, clicking, feedVars
  <2>2. CASE q = p
    <3>1. Gets(p, a)
      BY <2>1 DEF Gets
    <3>2. QED
      BY <2>2, <3>1
  <2>3. CASE q # p
    <3>1. /\ answers'[q] = answers[q] /\ shown'[q] = shown[q] /\ newest'[q] = newest[q]
          /\ q \in overtaken' <=> q \in overtaken
      BY <2>1, <2>3
    <3>2. QED
      BY <2>1, <3>1 DEF Keeps
  <2>4. QED
    BY <2>2, <2>3
<1>4. ASSUME NEW p \in Clients, ListFails(p) PROVE Keeps(q)
  <2>1. /\ \/ asked[p] > 0 /\ asked' = [asked EXCEPT ![p] = asked[p] - 1] /\ UNCHANGED answers
           \/ \E a \in answers[p] : answers' = [answers EXCEPT ![p] = answers[p] \ {a}] /\ UNCHANGED asked
        /\ failed' = failed \cup {p}
        /\ UNCHANGED <<made, shown, newest, overtaken, skipped, unmended, got, join>>
    BY <1>4 DEF ListFails, feedVars
  <2>2. /\ answers'[q] \subseteq answers[q]
        /\ q # p => answers'[q] = answers[q] /\ asked'[q] = asked[q]
    BY <2>1 DEF CountTypes
  <2>3. QED
    BY <2>1, <2>2 DEF Keeps
<1>5. ASSUME NEW p \in Clients, Joined(p) \/ TimerFires(p) \/ ReceivePush(p) PROVE Keeps(q)
  <2>1. /\ asked' = [asked EXCEPT ![p] = asked[p] + 1]
        /\ got' = got \/ got' = [got EXCEPT ![p] = Append(got[p], Head(feed[p]))]
        /\ \/ join' = join
           \/ join[p] = "joining" /\ join' = [join EXCEPT ![p] = "joined"]
        /\ unmended' = unmended \/ \E f : unmended' = unmended \ {<<p, f>>}
        /\ UNCHANGED <<answers, made, shown, newest, overtaken, failed, skipped>>
    BY <1>5 DEF Joined, TimerFires, ReceivePush, Mend, Deliver, Ask, feedVars
  <2>2. /\ q = p => asked'[q] > 0
        /\ q # p => /\ asked'[q] = asked[q] /\ got'[q] = got[q]
                    /\ \A f \in Files : <<q, f>> \in unmended => <<q, f>> \in unmended'
        /\ join[q] = "closed" => join'[q] = "closed"
    BY <2>1 DEF CountTypes, FeedInv
  <2>3. QED
    BY <2>1, <2>2 DEF Keeps
<1>6. ASSUME NEW p \in Clients, Mount(p) \/ JoinFails(p) PROVE Keeps(q)
  <2>1. /\ join[p] \in {"none", "joining"}
        /\ join' = [join EXCEPT ![p] = "joining"] \/ join' = [join EXCEPT ![p] = "failed"]
        /\ UNCHANGED <<answers, made, shown, newest, overtaken, failed, skipped, unmended,
                        asked, got>>
    BY <1>6 DEF Mount, JoinFails, list, feedVars
  <2>2. join[q] = "closed" => join'[q] = "closed"
    BY <2>1 DEF CountTypes
  <2>3. QED
    BY <2>1, <2>2 DEF Keeps
<1>7. ASSUME NEW p \in Clients, Close(p) PROVE Keeps(q)
  <2>1. /\ join' = [join EXCEPT ![p] = "closed"] /\ asked' = [asked EXCEPT ![p] = 0]
        /\ answers' = [answers EXCEPT ![p] = {}]
        /\ UNCHANGED <<made, shown, newest, overtaken, failed, skipped, unmended, got>>
    BY <1>7 DEF Close
  <2>2. /\ q = p => answers'[q] = {} /\ join'[q] = "closed"
        /\ q # p => answers'[q] = answers[q] /\ join'[q] = join[q] /\ asked'[q] = asked[q]
    BY <2>1 DEF CountTypes
  <2>3. QED
    BY <2>1, <2>2 DEF Keeps
<1>8. CASE ApiCrash
  <2>1. /\ failed' = failed \cup {p \in Clients : asked[p] > 0}
        /\ join' = [p \in Clients |-> IF join[p] = "joining" THEN "failed" ELSE join[p]]
        /\ UNCHANGED <<answers, made, shown, newest, overtaken, skipped, unmended, got>>
    BY <1>8 DEF ApiCrash
  <2>2. QED
    BY <2>1 DEF Keeps
<1>9. CASE UNCHANGED pageVars
  BY <1>1, <1>9 DEF pageVars, list, feedVars
<1>10. ASSUME \/ \E f \in Files : MarkReady(f) \/ SetBack(f) \/ Announce(f) \/ Remove(f)
              \/ Broadcast
              \/ \E p \in Clients : Socket(p) \/ \E f \in Files : Click(p, f) \/ DownloadEnds(p, f)
       PROVE  UNCHANGED <<answers, made, shown, newest, overtaken, failed, skipped, unmended,
                          asked, got, join>>
  BY <1>10, PageFrame DEF list, feedVars
<1>11. QED
  BY <1>1, <1>2, <1>3, <1>4, <1>5, <1>6, <1>7, <1>8, <1>9, <1>10, PageCases, Zenon

\* Answers are numbered as they are made.
LEMMA NumbersStep ==
    ASSUME ListTypes, CountTypes, FeedInv, NumbersInv, [PageNext]_pageVars
    PROVE  NumbersInv'
<1> SUFFICES ASSUME NEW p \in Clients
             PROVE  /\ newest'[p] <= made'[p]
                    /\ \A a \in answers'[p] : a.nth <= made'[p] /\ a.nth # newest'[p]
                    /\ \A a \in answers'[p] : \A b \in answers'[p] : a.nth = b.nth => a = b
  BY DEF NumbersInv
<1>1. /\ newest[p] \in Nat /\ made[p] \in Nat /\ \A a \in answers[p] : a.nth \in Nat
      /\ newest[p] <= made[p]
      /\ \A a \in answers[p] : a.nth <= made[p] /\ a.nth # newest[p]
      /\ \A a \in answers[p] : \A b \in answers[p] : a.nth = b.nth => a = b
  BY DEF ListTypes, Answers, NumbersInv
<1>2. CASE Makes(p)
  <2> DEFINE new == [nth |-> made[p] + 1, files |-> Waiting(p)]
  <2>1. answers'[p] = answers[p] \cup {new} /\ new.nth = made[p] + 1
        /\ made'[p] = made[p] + 1 /\ newest'[p] = newest[p]
    BY <1>2 DEF Makes
  <2> HIDE DEF new
  <2>2. QED
    BY <1>1, <2>1
<1>3. CASE Keeps(p)
  BY <1>1, <1>3 DEF Keeps
<1>4. ASSUME NEW a \in answers[p], Gets(p, a)
      PROVE  /\ newest'[p] <= made'[p]
             /\ \A b \in answers'[p] : b.nth <= made'[p] /\ b.nth # newest'[p]
             /\ \A b \in answers'[p] : \A c \in answers'[p] : b.nth = c.nth => b = c
  BY <1>1, <1>4 DEF Gets
<1>5. QED
  BY <1>2, <1>3, <1>4, ListCases

\* No page is told of a file that has never been ready.
LEMMA ShownIsKnown ==
    ASSUME ListTypes, CountTypes, BackTypes, FeedInv, KnownInv, [PageNext]_pageVars
    PROVE  (\A p \in Clients : shown[p] \subseteq Known /\ \A a \in answers[p] : a.files \subseteq Known)'
<1> SUFFICES ASSUME NEW p \in Clients
             PROVE  shown'[p] \subseteq Known' /\ \A a \in answers'[p] : a.files \subseteq Known'
  OBVIOUS
<1>1. /\ shown[p] \subseteq Known /\ \A a \in answers[p] : a.files \subseteq Known
      /\ Known \subseteq Known'
  BY OverIsForGood DEF KnownInv
<1>2. CASE Makes(p)
  <2>1. Waiting(p) \subseteq Known
    BY DEF Waiting, Known
  <2> DEFINE new == [nth |-> made[p] + 1, files |-> Waiting(p)]
  <2>2. answers'[p] = answers[p] \cup {new} /\ new.files = Waiting(p) /\ shown'[p] = shown[p]
    BY <1>2 DEF Makes
  <2> HIDE DEF new
  <2>3. QED
    BY <1>1, <2>1, <2>2
<1>3. CASE Keeps(p)
  BY <1>1, <1>3 DEF Keeps
<1>4. ASSUME NEW a \in answers[p], Gets(p, a)
      PROVE  shown'[p] \subseteq Known' /\ \A b \in answers'[p] : b.files \subseteq Known'
  BY <1>1, <1>4 DEF Gets
<1>5. QED
  BY <1>2, <1>3, <1>4, ListCases

\* A file leaves the list once.
LEMMA OnceStep ==
    ASSUME ListTypes, CountTypes, BackTypes, FeedInv, KnownInv, NumbersInv, OnceInv,
           [PageNext]_pageVars
    PROVE  OnceInv'
<1> SUFFICES ASSUME NEW p \in Clients, p \notin overtaken', NEW f \in Files,
                    <<p, f>> \notin skipped'
             PROVE  /\ f \in shown'[p] => \A a \in answers'[p] :
                         a.nth > newest'[p] /\ f \notin a.files =>
                             Over(p, f)' /\ NoneAfter(p, a.nth, f)'
                    /\ \A a \in answers'[p] : f \in a.files => \A b \in answers'[p] :
                         b.nth > a.nth /\ f \notin b.files =>
                             Over(p, f)' /\ NoneAfter(p, b.nth, f)'
  BY DEF OnceInv
<1> DEFINE Goal == /\ f \in shown'[p] => \A a \in answers'[p] :
                        a.nth > newest'[p] /\ f \notin a.files =>
                            Over(p, f)' /\ NoneAfter(p, a.nth, f)'
                   /\ \A a \in answers'[p] : f \in a.files => \A b \in answers'[p] :
                        b.nth > a.nth /\ f \notin b.files =>
                            Over(p, f)' /\ NoneAfter(p, b.nth, f)'
<1>1. /\ newest[p] \in Nat /\ made[p] \in Nat
      /\ \A a \in answers[p] : a.nth \in Nat /\ a.nth <= made[p] /\ a.nth # newest[p]
      /\ newest[p] <= made[p]
  BY DEF ListTypes, Answers, NumbersInv
<1>2. /\ f \in shown[p] => f \in Known
      /\ \A a \in answers[p] : f \in a.files => f \in Known
      /\ Over(p, f) => Over(p, f)'
  BY OverIsForGood DEF KnownInv
<1>3. <<p, f>> \notin skipped
  BY ListCases DEF Makes, Keeps, Gets
<1>4. p \notin overtaken =>
        /\ f \in shown[p] => \A a \in answers[p] :
             a.nth > newest[p] /\ f \notin a.files => Over(p, f) /\ NoneAfter(p, a.nth, f)
        /\ \A a \in answers[p] : f \in a.files => \A b \in answers[p] :
             b.nth > a.nth /\ f \notin b.files => Over(p, f) /\ NoneAfter(p, b.nth, f)
  BY <1>3 DEF OnceInv
<1>5. ASSUME Makes(p) PROVE Goal
  <2>1. PICK new :
            /\ answers'[p] = answers[p] \cup {new}
            /\ new.nth = made[p] + 1 /\ new.files = Waiting(p)
            /\ shown'[p] = shown[p] /\ newest'[p] = newest[p] /\ p \notin overtaken
    <3> DEFINE new == [nth |-> made[p] + 1, files |-> Waiting(p)]
    <3>1. new.nth = made[p] + 1 /\ new.files = Waiting(p) /\ answers'[p] = answers[p] \cup {new}
      BY <1>5 DEF Makes
    <3> HIDE DEF new
    <3>2. QED
      BY <1>5, <3>1 DEF Makes
  <2>2. NoneAfter(p, new.nth, f)'
    BY <1>1, <2>1 DEF NoneAfter
  <2>3. ASSUME NEW n \in Nat, Over(p, f), NoneAfter(p, n, f) PROVE NoneAfter(p, n, f)'
    BY <2>1, <2>3 DEF NoneAfter, Over, Waiting
  <2>4. f \in Known /\ f \notin new.files => Over(p, f)
    <3>1. row[f] # "stored"
      BY <1>5 DEF Makes, SetBackNow
    <3>2. row[f] \in {"pending", "ready", "stored", "gone"}
      BY DEF BackTypes
    <3>3. QED
      BY <2>1, <3>1, <3>2 DEF Over, Known, Waiting
  <2>5. \A a \in answers[p] : ~(a.nth > new.nth)
    BY <1>1, <2>1
  <2>6. f \in shown'[p] => \A a \in answers'[p] :
            a.nth > newest'[p] /\ f \notin a.files => Over(p, f)' /\ NoneAfter(p, a.nth, f)'
    BY <1>1, <1>2, <1>4, <2>1, <2>2, <2>3, <2>4
  <2>7. \A a \in answers'[p] : f \in a.files => \A b \in answers'[p] :
            b.nth > a.nth /\ f \notin b.files => Over(p, f)' /\ NoneAfter(p, b.nth, f)'
    BY <1>1, <1>2, <1>4, <2>1, <2>2, <2>3, <2>4, <2>5
  <2>8. QED
    BY <2>6, <2>7
<1>6. ASSUME Keeps(p) PROVE Goal
  <2>1. /\ answers'[p] \subseteq answers[p] /\ shown'[p] = shown[p] /\ newest'[p] = newest[p]
        /\ p \notin overtaken
    BY <1>6 DEF Keeps
  <2>2. \A n : NoneAfter(p, n, f) => NoneAfter(p, n, f)'
    BY <2>1 DEF NoneAfter
  <2>3. QED
    BY <1>2, <1>4, <2>1, <2>2
<1>7. ASSUME NEW a \in answers[p], Gets(p, a) PROVE Goal
  <2>1. /\ answers'[p] = answers[p] \ {a} /\ shown'[p] = a.files
        /\ newest'[p] = a.nth /\ a.nth > newest[p] /\ p \notin overtaken
    BY <1>1, <1>7 DEF Gets
  <2>2. \A n : NoneAfter(p, n, f) => NoneAfter(p, n, f)'
    BY <2>1 DEF NoneAfter
  <2>3. QED
    BY <1>2, <1>4, <2>1, <2>2
<1> HIDE DEF Goal
<1>8. Goal
  BY <1>5, <1>6, <1>7, ListCases
<1>9. QED
  BY <1>8 DEF Goal

\* What is downloaded or was delivered, was clicked on the list.
LEMMA ClickedWasShown ==
    ASSUME [PageNext]_pageVars, NEW p \in Clients, NEW f \in Files,
           <<p, f>> \in (downloads \cup delivered)'
    PROVE  <<p, f>> \in downloads \cup delivered \/ f \in shown[p]
<1>1. ASSUME NEW q \in Clients, NEW g \in Files, Click(q, g) PROVE <<p, f>> \in downloads \cup delivered \/ f \in shown[p]
  BY <1>1 DEF Click, backend
<1>2. ASSUME NEW q \in Clients, NEW g \in Files, DownloadEnds(q, g)
      PROVE  <<p, f>> \in downloads \cup delivered
  BY <1>2 DEF DownloadEnds
<1>3. ASSUME downloads' \subseteq downloads /\ delivered' \subseteq delivered
      PROVE  <<p, f>> \in downloads \cup delivered
  BY <1>3
<1>4. ASSUME NEW g \in Files, MarkReady(g) \/ SetBack(g) \/ Announce(g) \/ Remove(g)
      PROVE  downloads' \subseteq downloads /\ delivered' \subseteq delivered
  BY <1>4 DEF MarkReady, SetBack, Announce, Remove, clicking
<1>5. ASSUME NEW q \in Clients,
             \/ Socket(q) \/ ReceivePush(q)
             \/ Mount(q) \/ JoinFails(q) \/ Joined(q) \/ Close(q)
             \/ Serve(q) \/ Receive(q) \/ ListFails(q) \/ TimerFires(q)
      PROVE  downloads' \subseteq downloads /\ delivered' \subseteq delivered
  BY <1>5, PageFrame DEF backend, clicking
<1>6. Broadcast => downloads' \subseteq downloads /\ delivered' \subseteq delivered
  BY PageFrame DEF clicking
<1>7. ApiCrash => downloads' \subseteq downloads /\ delivered' \subseteq delivered
  BY DEF ApiCrash
<1>8. UNCHANGED pageVars => downloads' \subseteq downloads /\ delivered' \subseteq delivered
  BY DEF pageVars, backend, clicking
<1>9. QED
  BY <1>1, <1>2, <1>3, <1>4, <1>5, <1>6, <1>7, <1>8, PageCases, Zenon

\* A file that was clicked was shown, and if it is off the list it is so for good.
LEMMA ClickedStep ==
    ASSUME ListTypes, CountTypes, BackTypes, FeedInv, NumbersInv, OnceInv, ClickedInv,
           [PageNext]_pageVars
    PROVE  ClickedInv'
<1> SUFFICES ASSUME NEW p \in Clients, p \notin overtaken', NEW f \in Files,
                    <<p, f>> \notin skipped',
                    <<p, f>> \in (downloads \cup delivered)', f \notin shown'[p]
             PROVE  Over(p, f)' /\ NoneAfter(p, newest[p], f)'
  BY DEF ClickedInv
<1>1. /\ newest[p] \in Nat /\ \A a \in answers[p] : a.nth \in Nat /\ a.nth # newest[p]
  BY DEF ListTypes, Answers, NumbersInv
<1>2. Over(p, f) => Over(p, f)'
  BY OverIsForGood
<1>3. p \notin overtaken =>
        /\ <<p, f>> \in downloads \cup delivered /\ f \notin shown[p] =>
             Over(p, f) /\ NoneAfter(p, newest[p], f)
        /\ f \in shown[p] => \A a \in answers[p] :
             a.nth > newest[p] /\ f \notin a.files => Over(p, f) /\ NoneAfter(p, a.nth, f)
  <2>1. <<p, f>> \notin skipped
    BY ListCases DEF Makes, Keeps, Gets
  <2>2. QED
    BY <2>1 DEF ClickedInv, OnceInv
<1>4. <<p, f>> \in downloads \cup delivered \/ f \in shown[p]
  BY ClickedWasShown
<1>5. CASE Makes(p)
  <2> DEFINE new == [nth |-> made[p] + 1, files |-> Waiting(p)]
  <2>1. /\ answers'[p] = answers[p] \cup {new} /\ new.files = Waiting(p)
        /\ f \notin shown[p] /\ newest'[p] = newest[p] /\ p \notin overtaken
    BY <1>5 DEF Makes
  <2> HIDE DEF new
  <2>2. Over(p, f) /\ NoneAfter(p, newest[p], f)
    BY <1>3, <1>4, <2>1
  <2>3. f \notin Waiting(p)
    BY <2>2 DEF Over, Waiting
  <2>4. QED
    BY <1>2, <2>1, <2>2, <2>3 DEF NoneAfter
<1>6. CASE Keeps(p)
  <2>1. /\ answers'[p] \subseteq answers[p] /\ f \notin shown[p] /\ newest'[p] = newest[p]
        /\ p \notin overtaken
    BY <1>6 DEF Keeps
  <2>2. Over(p, f) /\ NoneAfter(p, newest[p], f)
    BY <1>3, <1>4, <2>1
  <2>3. QED
    BY <1>2, <2>1, <2>2 DEF NoneAfter
<1>7. ASSUME NEW a \in answers[p], Gets(p, a)
      PROVE  Over(p, f)' /\ NoneAfter(p, newest[p], f)'
  <2>1. /\ answers'[p] = answers[p] \ {a} /\ f \notin a.files
        /\ newest'[p] = a.nth /\ a.nth > newest[p] /\ p \notin overtaken
    BY <1>1, <1>7 DEF Gets
  <2>2. Over(p, f) /\ (NoneAfter(p, newest[p], f) \/ NoneAfter(p, a.nth, f))
    BY <1>3, <1>4, <2>1
  <2>3. QED
    BY <1>1, <1>2, <2>1, <2>2 DEF NoneAfter
<1>8. QED
  BY <1>5, <1>6, <1>7, ListCases
------------------------------------------------------------------------------
(* What was pushed.                                                        *)

\* The files pushed so far have been ready, and stay the same files.
LEMMA PushedFiles ==
    ASSUME BackTypes, FeedInv, KnownInv, NEW p \in Clients, [PageNext]_pageVars
    PROVE  /\ FilesOf(got[p]) \subseteq Known
           /\ got'[p] = got[p] => FilesOf(got[p])' = FilesOf(got[p])
<1>1. /\ got[p] \in Seq(Nat) /\ Items(got[p]) \subseteq 1 .. published /\ published \in Nat
      /\ about \in Seq(Files) /\ Len(about) = published /\ Items(about) \subseteq Known
  BY DEF BackTypes, FeedInv, KnownInv
<1>2. \A i \in 1 .. Len(got[p]) : got[p][i] \in 1 .. published
  BY <1>1 DEF Items
<1>3. \A e \in 1 .. published : about[e] \in Known
  BY <1>1 DEF Items
<1>4. \A e \in 1 .. published : about'[e] = about[e]
  <2>1. UNCHANGED about => \A e \in 1 .. published : about'[e] = about[e]
    OBVIOUS
  <2>2. CASE Broadcast
    <3>1. topic # <<>> /\ about' = Append(about, Head(topic)) /\ topic \in Seq(Files)
      BY <2>2 DEF Broadcast, BackTypes
    <3> DEFINE f == Head(topic)
    <3>2. f \in Files /\ about' = Append(about, f)
      BY <3>1, ItemsOfTail
    <3> HIDE DEF f
    <3>3. \A e \in 1 .. Len(about) : Append(about, f)[e] = about[e]
      BY <1>1, <3>2, ItemsOfAppend
    <3>4. QED
      BY <1>1, <3>2, <3>3
  <2>3. ApiCrash => UNCHANGED about
    BY PageFrame
  <2>4. ASSUME NEW q \in Clients,
               \/ Socket(q) \/ ReceivePush(q)
               \/ Mount(q) \/ JoinFails(q) \/ Joined(q) \/ Close(q)
               \/ Serve(q) \/ Receive(q) \/ ListFails(q) \/ TimerFires(q)
               \/ \E f \in Files : Click(q, f) \/ DownloadEnds(q, f)
        PROVE  UNCHANGED about
    BY <2>4, PageFrame DEF backend
  <2>5. ASSUME NEW f \in Files, MarkReady(f) \/ SetBack(f) \/ Announce(f) \/ Remove(f) PROVE UNCHANGED about
    BY <2>5, PageFrame
  <2>6. UNCHANGED pageVars => UNCHANGED about
    BY DEF pageVars, backend
  <2>7. QED
    BY <2>1, <2>2, <2>3, <2>4, <2>5, <2>6, PageCases, Zenon
<1>5. FilesOf(got[p]) \subseteq Known
  BY <1>2, <1>3 DEF FilesOf
<1>6. ASSUME got'[p] = got[p] PROVE FilesOf(got[p])' = FilesOf(got[p])
  BY <1>2, <1>4, <1>6 DEF FilesOf
<1>7. QED
  BY <1>5, <1>6

\* The newest answer that is made after a push knows the pushed file.
LEMMA PushedStep ==
    ASSUME ListTypes, CountTypes, BackTypes, FeedInv, KnownInv, NumbersInv, PushedInv,
           [PageNext]_pageVars
    PROVE  PushedInv'
<1> SUFFICES ASSUME NEW p \in Clients, p \notin overtaken', p \notin failed',
                    join'[p] # "closed", NEW f \in FilesOf(got[p])',
                    ~Over(p, f)', <<p, f>> \notin unmended'
             PROVE  Comes(p, f)'
  BY DEF PushedInv
<1>1. /\ newest[p] \in Nat /\ made[p] \in Nat /\ newest[p] <= made[p]
      /\ \A a \in answers[p] : a.nth \in Nat /\ a.nth <= made[p] /\ a.nth # newest[p]
  BY DEF ListTypes, Answers, NumbersInv
<1>2. ASSUME got'[p] = got[p]
      PROVE  f \in FilesOf(got[p]) /\ f \in Known /\ f \in Files /\ ~Over(p, f)
  <2>1. f \in FilesOf(got[p]) /\ f \in Known
    BY <1>2, PushedFiles
  <2>2. f \in Files
    BY <2>1 DEF Known
  <2>3. QED
    BY <2>1, <2>2, OverIsForGood
<1>3. ASSUME got'[p] = got[p], <<p, f>> \notin unmended,
             p \notin overtaken, p \notin failed, join[p] # "closed"
      PROVE  Comes(p, f)
  BY <1>2, <1>3 DEF PushedInv
<1>4. CASE Makes(p)
  <2> DEFINE new == [nth |-> made[p] + 1, files |-> Waiting(p)]
  <2>1. /\ new \in answers'[p] /\ new.nth = made'[p] /\ new.files = Waiting(p)
        /\ got'[p] = got[p] /\ unmended' = unmended \cup SetBackNow(p)
    BY <1>4 DEF Makes
  <2> HIDE DEF new
  <2>2. row[f] # "stored"
    BY <1>2, <2>1 DEF SetBackNow
  <2>3. row[f] \in {"pending", "ready", "stored", "gone"}
    BY <1>2, <2>1 DEF BackTypes
  <2>4. f \in new.files
    BY <1>2, <2>1, <2>2, <2>3 DEF Waiting, Known, Over
  <2>5. QED
    BY <2>1, <2>4 DEF Comes
<1>5. CASE Keeps(p)
  <2>1. /\ p \notin overtaken /\ p \notin failed /\ join[p] # "closed"
        /\ asked[p] > 0 => asked'[p] > 0
        /\ answers'[p] = answers[p] /\ made'[p] = made[p]
        /\ shown'[p] = shown[p] /\ newest'[p] = newest[p]
    BY <1>5 DEF Keeps
  <2>2. CASE asked'[p] > 0
    BY <2>2 DEF Comes
  <2>3. CASE ~(asked'[p] > 0)
    <3>1. /\ got'[p] = got[p]
          /\ \A g \in Files : <<p, g>> \in unmended => <<p, g>> \in unmended'
      BY <1>5, <2>3 DEF Keeps
    <3>2. Comes(p, f)
      BY <1>2, <1>3, <2>1, <3>1
    <3>3. QED
      BY <2>1, <3>2 DEF Comes
  <2>4. QED
    BY <2>2, <2>3
<1>6. ASSUME NEW a \in answers[p], Gets(p, a)
      PROVE  Comes(p, f)'
  <2>1. /\ answers'[p] = answers[p] \ {a} /\ shown'[p] = a.files
        /\ newest'[p] = a.nth /\ a.nth > newest[p]
        /\ made'[p] = made[p] /\ asked'[p] = asked[p]
    BY <1>1, <1>6 DEF Gets
  <2>2. Comes(p, f)
    BY <1>3, <1>6 DEF Gets
  <2>3. QED
    BY <1>1, <2>1, <2>2 DEF Comes
<1>7. QED
  BY <1>4, <1>5, <1>6, ListCases
------------------------------------------------------------------------------
(* The theorems.                                                           *)

\* Before any page is mounted.
LEMMA PageStart == PageInit => PageInv
<1> SUFFICES ASSUME PageInit PROVE PageInv
  OBVIOUS
<1> USE DEF PageInit, FeedInit
<1>1. /\ <<>> \in Seq(Nat) /\ <<>> \in Seq(Files) /\ Len(<<>>) = 0 /\ Items(<<>>) = {}
  BY EmptySeq DEF Items
<1>2. PageTypeOK
  BY <1>1, PageAssumption DEF PageTypeOK
<1>3. FeedInv
  BY <1>1 DEF FeedInv
<1>4. KnownInv /\ AskInv /\ NumbersInv /\ OnceInv /\ ClickedInv
  BY <1>1 DEF KnownInv, AskInv, NumbersInv, OnceInv, ClickedInv
<1>5. \A p \in Clients : FilesOf(got[p]) = {}
  <2>1. \A p \in Clients : got[p] = <<>>
    OBVIOUS
  <2>2. FilesOf(<<>>) = {}
    BY DEF FilesOf
  <2>3. QED
    BY <2>1, <2>2
<1>6. PushedInv
  BY <1>5 DEF PushedInv
<1>7. QED
  BY <1>2, <1>3, <1>4, <1>6 DEF PageInv

\* The type invariant from the parts that the steps are taken through.
LEMMA TypesTogether ==
    ASSUME ListTypes, CountTypes, BackTypes, FeedInv, AskInv
    PROVE  PageTypeOK
<1>1. ASSUME NEW p \in Clients
      PROVE  asked[p] + made[p] + timers[p] <= 1 + Len(got[p]) + clicks[p]
  <2> DEFINE pushes == Len(got[p])
             first == IF join[p] \in {"none", "joining"} THEN 0 ELSE 1
  <2>1. got[p] \in Seq(Nat)
    BY DEF FeedInv
  <2>2. pushes \in Nat
    BY <2>1, LenProperties
  <2>3. /\ asked[p] \in Nat /\ made[p] \in Nat /\ timers[p] \in Nat /\ clicks[p] \in Nat
    BY PageAssumption DEF ListTypes, CountTypes
  <2>4. asked[p] + made[p] + timers[p] <= first + pushes + clicks[p]
    BY DEF AskInv
  <2>5. first \in {0, 1}
    OBVIOUS
  <2> HIDE DEF pushes, first
  <2>6. asked[p] + made[p] + timers[p] <= 1 + pushes + clicks[p]
    BY <2>2, <2>3, <2>4, <2>5
  <2>7. QED
    BY <2>6 DEF pushes
<1>2. QED
  BY <1>1 DEF PageTypeOK, ListTypes, CountTypes, BackTypes

\* What the pages, the api and the workers maintain together.
THEOREM PageInductive == PageSpec => []PageInv
<1>1. PageInv => ListTypes /\ CountTypes /\ BackTypes
  BY DEF PageInv, PageTypeOK, ListTypes, CountTypes, BackTypes
<1>2. ASSUME PageInv, [PageNext]_pageVars PROVE PageInv'
  <2>1. FeedInv' /\ BackTypes' /\ (unsaid \cup Items(topic) \cup Items(about) \subseteq Known)'
    BY <1>2, FeedStep, BackStep DEF PageInv
  <2>2. ListTypes' /\ CountTypes' /\ AskInv'
    BY <1>2, ListStep, CountStep DEF PageInv
  <2>3. KnownInv'
    BY <1>1, <1>2, <2>1, ShownIsKnown DEF PageInv, KnownInv
  <2>4. NumbersInv' /\ OnceInv' /\ ClickedInv' /\ PushedInv'
    BY <1>1, <1>2, NumbersStep, OnceStep, ClickedStep, PushedStep DEF PageInv
  <2>5. PageTypeOK'
    BY <2>1, <2>2, TypesTogether, PTL
  <2>6. QED
    BY <2>1, <2>2, <2>3, <2>4, <2>5 DEF PageInv
<1>3. QED
  BY PageStart, <1>2, PTL DEF PageSpec

\* Types, and no storm of requests: one per join, push and click (Room.tsx:27-61).
THEOREM PagesAreTyped == PageSpec => []PageTypeOK
<1>1. PageInv => PageTypeOK
  BY DEF PageInv
<1>2. QED
  BY <1>1, PageInductive, PTL

\* Room.tsx:30-63, file_service.go:310: of the files pushed to it, a page at rest misses
\* none that waits, unless an answer overtook a newer one, a list request failed, or a
\* list was made while the file was set back and no push about it has come since.
THEOREM NothingPushedIsMissed == PageSpec => []MissingIsExplained
<1>1. ASSUME PageInv PROVE MissingIsExplained
  <2> SUFFICES ASSUME NEW p \in Clients, Settled(p), p \notin overtaken, p \notin failed,
                      NEW f \in Waiting(p), f \notin shown[p], f \in FilesOf(got[p]),
                      <<p, f>> \notin unmended
               PROVE  FALSE
    BY DEF MissingIsExplained
  <2>1. ~(asked[p] > 0) /\ answers[p] = {} /\ join[p] # "closed"
    BY DEF Settled
  <2>2. ~Over(p, f)
    BY DEF Over, Waiting
  <2>3. QED
    BY <1>1, <2>1, <2>2 DEF PageInv, PushedInv, Comes
<1>2. QED
  BY <1>1, PageInductive, PTL

\* Room.tsx:30-37, FileList.tsx:37: a list that shows a delivered file again was
\* older than the one it replaced, or a list had left the file out while it was set back.
THEOREM DeliveredFilesStayHidden == PageSpec => DeliveredStaysHidden
<1> DEFINE Hidden == \A p \in Clients : \A f \in shown'[p] \ shown[p] :
                       <<p, f>> \in delivered => p \in overtaken' \/ <<p, f>> \in skipped
<1>1. ASSUME PageInv, [PageNext]_pageVars PROVE Hidden
  <2> SUFFICES ASSUME NEW p \in Clients, NEW f \in shown'[p], f \notin shown[p],
                      <<p, f>> \in delivered, p \notin overtaken', <<p, f>> \notin skipped
               PROVE  FALSE
    OBVIOUS
  <2>1. ListTypes /\ CountTypes /\ NumbersInv /\ ClickedInv /\ FeedInv
    BY <1>1 DEF PageInv, PageTypeOK, ListTypes, CountTypes
  <2>2. PICK a \in answers[p] : Gets(p, a)
    BY <1>1, <2>1, ListCases DEF Makes, Keeps
  <2>3. /\ a.nth \in Nat /\ newest[p] \in Nat /\ a.nth # newest[p] /\ a.files \subseteq Files
    BY <2>1 DEF ListTypes, Answers, NumbersInv
  <2>4. f \in a.files /\ f \in Files /\ p \notin overtaken /\ a.nth > newest[p]
    BY <2>2, <2>3 DEF Gets
  <2>5. NoneAfter(p, newest[p], f)
    BY <2>1, <2>4 DEF ClickedInv
  <2>6. QED
    BY <2>4, <2>5 DEF NoneAfter
<1>2. PageInv /\ [PageNext]_pageVars => [Hidden]_pageVars
  BY <1>1
<1>3. QED
  BY <1>2, PageInductive, PTL DEF PageSpec, DeliveredStaysHidden

------------------------------------------------------------------------------
(* The pages are peers as PushFeed knows them.                             *)

PeerInv == peer \in [Clients -> {"none", "up", "gone"}]

\* Whatever pages and workers do, the feed sees a step of its own or none, unless the
\* api process dies and takes all the connections at once.
LEMMA PageStepIsFeedStep ==
    ASSUME PeerInv, "api" \notin Faults, [PageNext]_pageVars
    PROVE  PeerInv' /\ [FeedNext]_feedVars
<1>1. CASE \E f \in Files : MarkReady(f) \/ SetBack(f) \/ Announce(f) \/ Remove(f)
  BY <1>1, PageFrame DEF feedVars, PeerInv
<1>2. CASE Broadcast
  BY <1>2 DEF Broadcast, FeedNext, Publish, PeerInv
<1>3. ASSUME NEW p \in Clients, Socket(p) \/ ReceivePush(p) PROVE PeerInv' /\ [FeedNext]_feedVars
  <2>1. \/ Connect(p) \/ TakeSeat(p) \/ Hangup(p)
        \/ LeaveSeat(p) \/ Lose(p) \/ Drop(p) \/ Deliver(p)
    BY <1>3 DEF Socket, SocketOpens, SocketSeated, SocketFails, SocketForgotten, SocketDrops,
       ReceivePush
  <2>2. FeedNext
    BY <2>1 DEF FeedNext
  <2>3. PeerInv'
    BY <2>1 DEF PeerInv, Connect, TakeSeat, Hangup, LeaveSeat, Lose, Drop, Deliver
  <2>4. QED
    BY <2>2, <2>3
<1>4. ASSUME NEW p \in Clients, Close(p) PROVE PeerInv' /\ [FeedNext]_feedVars
  <2>1. CASE peer[p] = "up"
    <3>1. Hangup(p)
      BY <1>4, <2>1 DEF Close, Hangup
    <3>2. QED
      BY <3>1 DEF Hangup, FeedNext, PeerInv
  <2>2. CASE peer[p] # "up"
    <3>1. peer' = peer
      BY <1>4, <2>2 DEF Close, PeerInv
    <3>2. QED
      BY <1>4, <3>1 DEF Close, feedVars, PeerInv
  <2>3. QED
    BY <2>1, <2>2
<1>5. ASSUME NEW p \in Clients,
             \/ Mount(p) \/ JoinFails(p) \/ Joined(p)
             \/ Serve(p) \/ Receive(p) \/ ListFails(p) \/ TimerFires(p)
             \/ \E f \in Files : Click(p, f) \/ DownloadEnds(p, f)
      PROVE  PeerInv' /\ [FeedNext]_feedVars
  <2>1. UNCHANGED feedVars
    BY <1>5, PageFrame
  <2>2. QED
    BY <2>1 DEF feedVars, PeerInv
<1>6. CASE UNCHANGED pageVars
  BY <1>6 DEF pageVars, feedVars, PeerInv
<1>7. ~ApiCrash
  BY DEF ApiCrash
<1>8. QED
  BY <1>1, <1>2, <1>3, <1>4, <1>5, <1>6, <1>7, PageCases, Zenon

\* As long as the api process lives, mounted and closed pages, broken sockets and slow
\* readers are what the push feed reckons with (ws/hub.go, useRoomEvents.ts), so that what WsHub
\* does for its connections is what the pages here are given.
THEOREM PagesAreServedByTheFeed ==
    ASSUME "api" \notin Faults PROVE PageSpec => FeedSpec
<1>1. PageInit => FeedInit /\ PeerInv
  BY DEF PageInit, FeedInit, PeerInv
<1>2. PeerInv /\ [PageNext]_pageVars => PeerInv' /\ [FeedNext]_feedVars
  BY PageStepIsFeedStep
<1>3. QED
  BY <1>1, <1>2, PTL DEF PageSpec, FeedSpec
=============================================================================
