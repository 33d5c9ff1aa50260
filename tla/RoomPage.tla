------------------------------ MODULE RoomPage -------------------------------
(***************************************************************************)
(* The room's page in the browsers, composed with the push feed and the    *)
(* list of waiting files they show.  A page joins, asks for the list, and  *)
(* asks again on every push and some time after every click on a download. *)
(* Requests run side by side: they are served in any order, each with the  *)
(* list of that moment, answers arrive in any order, and each that arrives *)
(* replaces the list shown.  The websocket is opened once, beside all this.*)
(*                                                                         *)
(* One room; every page is a page load, a connection and a participant.    *)
(* Files become ready, and by repeated completions or events once more, as *)
(* FilePipeline has it; what is published reaches the pages as PushFeed    *)
(* says (WsHub).                                                           *)
(***************************************************************************)
EXTENDS PushFeed, FiniteSets

CONSTANTS
    Files,
    MaxClicks,  \* bound of the model: downloads a participant starts
    MaxRepeats, \* bound of the model: completions and events that come again
    Faults      \* what may go wrong: "publish", "requests", "api"

ASSUME PageAssumption ==
    /\ \A p \in Clients : Rooms = {RoomOf[p]}
    /\ MaxClicks \in Nat /\ MaxRepeats \in Nat
    /\ Faults \subseteq {"publish", "requests", "api"}

VARIABLES
    row,        \* the status of each file
    delivered,  \* file_deliveries: who has been recorded as having which file
    repeats,    \* how many completions and events may still come again
    unsaid,     \* files a worker has updated and not published the FileReadyEvent of
    topic,      \* FileReadyEvents the api has not read yet
    about,      \* the file of every event broadcast
    join,       \* the page: where it is with joining the room
    asked,      \* list requests on their way to the api
    made,       \* list answers the api has made for the page
    answers,    \* those on their way back, numbered as they were made
    shown,      \* the page's `files`
    newest,     \* history: the number of the newest answer the page has got
    overtaken,  \* history: pages that got an answer after a newer one
    failed,     \* history: pages one of whose list requests failed
    skipped,    \* history: <<page, file>> of the lists made while a file was set back
    unmended,   \* history: those of them after which no push about the file came
    clicks,     \* downloads started
    timers,     \* refreshes waiting for their 1500 ms
    downloads   \* <<page, file>> of the downloads that run

backend == <<row, delivered, repeats, unsaid, topic, about>>
list == <<asked, made, answers, shown, newest, overtaken, failed, skipped, unmended>>
clicking == <<clicks, timers, downloads>>
pageVars == <<feedVars, backend, join, list, clicking>>

Answers == [nth : Nat, files : SUBSET Files]

PageTypeOK ==
    /\ row \in [Files -> {"pending", "ready", "stored", "gone"}]
    /\ delivered \subseteq Clients \X Files
    /\ repeats \in 0 .. MaxRepeats
    /\ unsaid \subseteq Files
    /\ topic \in Seq(Files)
    /\ about \in Seq(Files) /\ Len(about) = published
    /\ join \in [Clients -> {"none", "joining", "joined", "failed", "closed"}]
    /\ asked \in [Clients -> Nat]
    /\ made \in [Clients -> Nat]
    /\ answers \in [Clients -> SUBSET Answers]
    /\ shown \in [Clients -> SUBSET Files]
    /\ newest \in [Clients -> Nat]
    /\ overtaken \subseteq Clients
    /\ failed \subseteq Clients
    /\ skipped \subseteq Clients \X Files
    /\ unmended \subseteq skipped
    /\ clicks \in [Clients -> 0 .. MaxClicks]
    /\ timers \in [Clients -> 0 .. MaxClicks]
    /\ downloads \subseteq Clients \X Files
    \* A page asks once for joining, once for every push and once for every click.
    /\ \A p \in Clients : asked[p] + made[p] + timers[p] <= 1 + Len(got[p]) + clicks[p]

PageInit ==
    /\ FeedInit
    /\ row = [f \in Files |-> "pending"]
    /\ delivered = {}
    /\ repeats = MaxRepeats
    /\ unsaid = {}
    /\ topic = <<>>
    /\ about = <<>>
    /\ join = [p \in Clients |-> "none"]
    /\ asked = [p \in Clients |-> 0]
    /\ made = [p \in Clients |-> 0]
    /\ answers = [p \in Clients |-> {}]
    /\ shown = [p \in Clients |-> {}]
    /\ newest = [p \in Clients |-> 0]
    /\ overtaken = {}
    /\ failed = {}
    /\ skipped = {}
    /\ unmended = {}
    /\ clicks = [p \in Clients |-> 0]
    /\ timers = [p \in Clients |-> 0]
    /\ downloads = {}

------------------------------------------------------------------------------
(* The files and what is said of them.                                     *)

\* Listed by GET /api/rooms/:id/files?participant_id=p.
Waiting(p) == {f \in Files : row[f] = "ready" /\ <<p, f>> \notin delivered}

\* A worker has an event of the file: the row first, if it is there, then the event.
\* The first event finds the file pending, one that comes again whatever there is.
MarkReady(f) ==
    /\ f \notin unsaid
    /\ \/ row[f] \in {"pending", "stored"} /\ UNCHANGED repeats
       \/ row[f] \in {"ready", "gone"} /\ repeats > 0 /\ repeats' = repeats - 1
    /\ row' = IF row[f] = "gone" THEN row ELSE [row EXCEPT ![f] = "ready"]
    /\ unsaid' = unsaid \cup {f}
    /\ UNCHANGED <<delivered, topic, about, feedVars, join, list, clicking>>

\* A completion that comes again writes stored over ready.
SetBack(f) ==
    /\ row[f] = "ready" /\ repeats > 0
    /\ row' = [row EXCEPT ![f] = "stored"]
    /\ repeats' = repeats - 1
    /\ UNCHANGED <<delivered, unsaid, topic, about, feedVars, join, list, clicking>>

\* The producer may fail, or write an event twice whose acknowledgement was lost.
Announce(f) ==
    /\ f \in unsaid
    /\ unsaid' = unsaid \ {f}
    /\ \/ topic' = Append(topic, f)
       \/ "publish" \in Faults /\ topic' \in {topic, Append(Append(topic, f), f)}
    /\ UNCHANGED <<row, delivered, repeats, about, feedVars, join, list, clicking>>

\* DELETE /uploads/:fileId, whatever the status; the rows of the deliveries go too.
Remove(f) ==
    /\ row[f] # "gone"
    /\ row' = [row EXCEPT ![f] = "gone"]
    /\ delivered' = {d \in delivered : d[2] # f}
    /\ UNCHANGED <<repeats, unsaid, topic, about, feedVars, join, list, clicking>>

\* The api reads the next FileReadyEvent and broadcasts it.
Broadcast ==
    /\ topic # <<>>
    /\ \E room \in Rooms : Publish(room)
    /\ topic' = Tail(topic)
    /\ about' = Append(about, Head(topic))
    /\ UNCHANGED <<row, delivered, repeats, unsaid, join, list, clicking>>

------------------------------------------------------------------------------
(* Joining and listening.                                                  *)

Open(p) == join[p] \in {"joining", "joined", "failed"}

\* The page is mounted: it posts the join and constructs the WebSocket.
Mount(p) ==
    /\ join[p] = "none"
    /\ join' = [join EXCEPT ![p] = "joining"]
    /\ UNCHANGED <<feedVars, backend, list, clicking>>

Ask(p) == asked' = [asked EXCEPT ![p] = @ + 1]

\* Joined: only now the first list is asked for.
Joined(p) ==
    /\ join[p] = "joining"
    /\ join' = [join EXCEPT ![p] = "joined"]
    /\ Ask(p)
    /\ UNCHANGED <<made, answers, shown, newest, overtaken, failed, skipped, unmended>>
    /\ UNCHANGED <<feedVars, backend, clicking>>

\* An error page, for good; the websocket is left to itself.
JoinFails(p) ==
    /\ "requests" \in Faults
    /\ join[p] = "joining"
    /\ join' = [join EXCEPT ![p] = "failed"]
    /\ UNCHANGED <<feedVars, backend, list, clicking>>

\* The websocket, step by step as in PushFeed; nothing opens it again.
SocketOpens(p) == Open(p) /\ Connect(p) /\ UNCHANGED <<backend, join, list, clicking>>
SocketSeated(p) == TakeSeat(p) /\ UNCHANGED <<backend, join, list, clicking>>
SocketFails(p) == Hangup(p) /\ UNCHANGED <<backend, join, list, clicking>>
SocketForgotten(p) ==
    (LeaveSeat(p) \/ Lose(p)) /\ UNCHANGED <<backend, join, list, clicking>>
SocketDrops(p) == Drop(p) /\ UNCHANGED <<backend, join, list, clicking>>

\* The push is about the file that the page may have missed.
Mend(p) == unmended' = unmended \ {<<p, about[Head(feed[p])]>>}

\* Mutant: the list is left as it is while a request for it is on its way.
ReceivePushOnce(p) ==
    /\ Open(p)
    /\ Deliver(p)
    /\ IF asked[p] > 0 \/ answers[p] # {} THEN UNCHANGED asked ELSE Ask(p)
    /\ Mend(p)
    /\ UNCHANGED <<made, answers, shown, newest, overtaken, failed, skipped>>
    /\ UNCHANGED <<backend, join, clicking>>

\* Mutant: the file of the event is put on the list at once.
ReceivePushShowing(p) ==
    /\ Open(p)
    /\ Deliver(p)
    /\ Ask(p)
    /\ shown' = [shown EXCEPT ![p] = @ \cup {about[Head(feed[p])]}]
    /\ Mend(p)
    /\ UNCHANGED <<made, answers, newest, overtaken, failed, skipped>>
    /\ UNCHANGED <<backend, join, clicking>>

\* onmessage: whatever the event says, ask for the list.
ReceivePush(p) ==
    /\ Open(p)
    /\ Deliver(p)
    /\ Ask(p)
    /\ Mend(p)
    /\ UNCHANGED <<made, answers, shown, newest, overtaken, failed, skipped>>
    /\ UNCHANGED <<backend, join, clicking>>

\* The page is closed; its requests and timers go with it.
Close(p) ==
    /\ Open(p)
    /\ join' = [join EXCEPT ![p] = "closed"]
    /\ peer' = [peer EXCEPT ![p] = IF @ = "up" THEN "gone" ELSE @]
    /\ asked' = [asked EXCEPT ![p] = 0]
    /\ answers' = [answers EXCEPT ![p] = {}]
    /\ timers' = [timers EXCEPT ![p] = 0]
    /\ UNCHANGED <<published, seat, feed, got, backend, clicks, downloads>>
    /\ UNCHANGED <<made, shown, newest, overtaken, failed, skipped, unmended>>

------------------------------------------------------------------------------
(* The list.                                                               *)

\* What a list made now leaves out although it is there.
SetBackNow(p) == {<<p, f>> : f \in {g \in Files : row[g] = "stored"}}

\* The api looks at the database for one of the requests.
Serve(p) ==
    /\ asked[p] > 0
    /\ asked' = [asked EXCEPT ![p] = @ - 1]
    /\ made' = [made EXCEPT ![p] = @ + 1]
    /\ answers' = [answers EXCEPT ![p] = @ \cup {[nth |-> made'[p], files |-> Waiting(p)]}]
    /\ skipped' = skipped \cup SetBackNow(p)
    /\ unmended' = unmended \cup SetBackNow(p)
    /\ UNCHANGED <<shown, newest, overtaken, failed>>
    /\ UNCHANGED <<feedVars, backend, join, clicking>>

\* Mutant: what is shown already stays.
NextShownMerging(p, a) == shown[p] \cup a.files

\* setFiles(list), also when the list is older than the one shown.
NextShown(p, a) == a.files

Receive(p) ==
    \E a \in answers[p] :
        /\ answers' = [answers EXCEPT ![p] = @ \ {a}]
        /\ shown' = [shown EXCEPT ![p] = NextShown(p, a)]
        /\ newest' = [newest EXCEPT ![p] = IF a.nth > @ THEN a.nth ELSE @]
        /\ overtaken' = overtaken \cup (IF a.nth < newest[p] THEN {p} ELSE {})
        /\ UNCHANGED <<asked, made, failed, skipped, unmended>>
        /\ UNCHANGED <<feedVars, backend, join, clicking>>

\* Mutant: a request whose answer is lost is sent again at once.
ListFailsRetrying(p) ==
    /\ "requests" \in Faults
    /\ \E a \in answers[p] : answers' = [answers EXCEPT ![p] = @ \ {a}]
    /\ Ask(p)
    /\ failed' = failed \cup {p}
    /\ UNCHANGED <<made, shown, newest, overtaken, skipped, unmended>>
    /\ UNCHANGED <<feedVars, backend, join, clicking>>

\* The request or its answer is lost, or the query fails: logged, and no retry.
ListFails(p) ==
    /\ "requests" \in Faults
    /\ \/ asked[p] > 0 /\ asked' = [asked EXCEPT ![p] = @ - 1] /\ UNCHANGED answers
       \/ \E a \in answers[p] :
            answers' = [answers EXCEPT ![p] = @ \ {a}] /\ UNCHANGED asked
    /\ failed' = failed \cup {p}
    /\ UNCHANGED <<made, shown, newest, overtaken, skipped, unmended>>
    /\ UNCHANGED <<feedVars, backend, join, clicking>>

------------------------------------------------------------------------------
(* Downloading.                                                            *)

\* A click on a file of the list starts its download, and a timer.
Click(p, f) ==
    /\ join[p] \in {"joining", "joined"} /\ f \in shown[p]
    /\ clicks[p] < MaxClicks
    /\ clicks' = [clicks EXCEPT ![p] = @ + 1]
    /\ timers' = [timers EXCEPT ![p] = @ + 1]
    /\ downloads' = downloads \cup {<<p, f>>}
    /\ UNCHANGED <<feedVars, backend, join, list>>

\* 1500 ms after the click, however far the download is.
TimerFires(p) ==
    /\ timers[p] > 0
    /\ timers' = [timers EXCEPT ![p] = @ - 1]
    /\ Ask(p)
    /\ UNCHANGED <<made, answers, shown, newest, overtaken, failed, skipped, unmended>>
    /\ UNCHANGED <<feedVars, backend, join, clicks, downloads>>

\* The download is over: recorded, if it was complete and the file is still there
\* and the participant joined, or not (Delivery).
DownloadEnds(p, f) ==
    /\ <<p, f>> \in downloads
    /\ downloads' = downloads \ {<<p, f>>}
    /\ \/ row[f] # "gone" /\ delivered' = delivered \cup {<<p, f>>}
       \/ UNCHANGED delivered
    /\ UNCHANGED <<row, repeats, unsaid, topic, about, feedVars, join, list, clicks, timers>>

------------------------------------------------------------------------------
\* The api process dies: its connections, the requests it was serving, and perhaps
\* the event it had read and not broadcast.  It is back at once.
ApiCrash ==
    /\ "api" \in Faults
    /\ peer' = [p \in Clients |-> IF peer[p] = "up" THEN "gone" ELSE peer[p]]
    /\ seat' = [p \in Clients |-> IF peer[p] = "none" THEN "none" ELSE "left"]
    /\ feed' = [p \in Clients |-> <<>>]
    /\ topic' \in {topic} \cup (IF topic = <<>> THEN {} ELSE {Tail(topic)})
    /\ asked' = [p \in Clients |-> 0]
    /\ failed' = failed \cup {p \in Clients : asked[p] > 0}
    /\ join' = [p \in Clients |-> IF join[p] = "joining" THEN "failed" ELSE join[p]]
    /\ downloads' = {}
    /\ UNCHANGED <<published, got, row, delivered, repeats, unsaid, about, clicks, timers>>
    /\ UNCHANGED <<made, answers, shown, newest, overtaken, skipped, unmended>>

------------------------------------------------------------------------------
PageStep(p) ==
    \/ Joined(p)
    \/ SocketOpens(p)
    \/ SocketSeated(p)
    \/ ReceivePush(p)
    \/ Serve(p)
    \/ Receive(p)
    \/ TimerFires(p)

PageNext ==
    \/ \E f \in Files : MarkReady(f) \/ SetBack(f) \/ Announce(f) \/ Remove(f)
    \/ Broadcast
    \/ \E p \in Clients :
        \/ PageStep(p)
        \/ Mount(p)
        \/ JoinFails(p)
        \/ SocketFails(p)
        \/ SocketForgotten(p)
        \/ SocketDrops(p)
        \/ Close(p)
        \/ ListFails(p)
        \/ \E f \in Files : Click(p, f) \/ DownloadEnds(p, f)
    \/ ApiCrash

PageSpec == PageInit /\ [][PageNext]_pageVars

(* Requests are answered or fail, what is in the feed of a connection that *)
(* lasts is delivered (BufferDrains of WsHub), timers fire, the workers and *)
(* the consumer go on.  Participants owe nothing: no page has to be opened, *)
(* nothing has to be clicked, no download has to end.                      *)
PageFairness ==
    /\ \A f \in Files : WF_pageVars(Announce(f))
    /\ WF_pageVars(Broadcast)
    /\ \A p \in Clients :
        /\ WF_pageVars(Joined(p))
        /\ WF_pageVars(SocketOpens(p))
        /\ WF_pageVars(SocketSeated(p))
        /\ WF_pageVars(ReceivePush(p))
        /\ WF_pageVars(Serve(p))
        /\ WF_pageVars(Receive(p))
        /\ WF_pageVars(TimerFires(p))

FairPageSpec == PageSpec /\ PageFairness

------------------------------------------------------------------------------
(* Properties.                                                             *)

FilesOf(events) == {about[events[i]] : i \in 1 .. Len(events)}

\* A page that has nothing on its way any more.
Settled(p) ==
    /\ join[p] = "joined"
    /\ asked[p] = 0 /\ answers[p] = {} /\ timers[p] = 0 /\ feed[p] = <<>>

\* A page at rest misses a waiting file for one of four reasons only: an answer
\* overtook a newer one, a list request failed, no push about the file ever reached the
\* page, or the list was made while a repeated completion had set the file back and
\* no push about it has come since (Room.tsx:30-63: one list per join, push and click,
\* and the last answer wins; file_service.go:310).
MissingIsExplained ==
    \A p \in Clients : Settled(p) /\ p \notin overtaken /\ p \notin failed =>
        \A f \in (Waiting(p) \ shown[p]) \cap FilesOf(got[p]) : <<p, f>> \in unmended

\* A file the participant has been served, once it is off the list, does not come back
\* to it unless an answer arrives after a newer one, or it was off the list because
\* a repeated completion had set it back.
DeliveredStaysHidden ==
    [][\A p \in Clients : \A f \in shown'[p] \ shown[p] :
        <<p, f>> \in delivered => p \in overtaken' \/ <<p, f>> \in skipped]_pageVars

\* A file in the feed of a connection that lasts is shown, unless it is dropped at a
\* full buffer or the lists fail or overtake each other (useRoomEvents.ts:40-46).
PushedIsShown ==
    \A p \in Clients, f \in Files :
        f \in FilesOf(feed[p]) /\ Open(p) ~>
            \/ f \in shown[p] \/ f \notin Waiting(p)
            \/ p \in overtaken \cup failed
            \/ f \notin FilesOf(feed[p] \o got[p])
            \/ peer[p] # "up" \/ ~Open(p)

\* A download that is recorded before its timer fires takes the file off the list
\* (FileList.tsx:37; one that takes longer leaves it there).
DownloadedIsHidden ==
    \A p \in Clients, f \in Files :
        <<p, f>> \in delivered /\ timers[p] > 0 ~>
            f \notin shown[p] \/ p \in overtaken \cup failed \/ ~Open(p)
==============================================================================
