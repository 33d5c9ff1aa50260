------------------------------ MODULE Recording ------------------------------
(***************************************************************************)
(* Recording one room and turning the recordings into notes.               *)
(*                                                                         *)
(* Four parties who share no transaction take part: the handlers of the    *)
(* api service (start, stop, LiveKit's webhook), LiveKit's egress, which   *)
(* records and uploads on its own, the `recordings` table, and the         *)
(* ai-worker, which reads RecordingReadyEvents and leaves a Markdown file  *)
(* in the room.                                                            *)
(*                                                                         *)
(* Audio is the egress that recorded it; a storage key is the Unix second  *)
(* it was made from, since the room is the same for all.                   *)
(***************************************************************************)
EXTENDS Naturals, Sequences, FiniteSets

CONSTANTS
    Egresses,   \* the recordings that can be started
    LastSecond, \* bound of the model: seconds of the clock
    MaxPosts,   \* bound of the model: POSTs LiveKit makes of one egress_ended
    MaxUnacked, \* bound of the model: writes of a recording's event whose acknowledgement is lost
    Faults      \* what may go wrong: "calls", "api", "worker"

ASSUME RecordingAssumption ==
    /\ IsFiniteSet(Egresses)
    /\ LastSecond \in Nat \ {0}
    /\ MaxPosts \in Nat \ {0}
    /\ MaxUnacked \in Nat
    /\ Faults \subseteq {"calls", "api", "worker"}

VARIABLES
    clock,     \* time.Now().Unix()
    start,     \* per egress, where the POST .../recording/start behind it is
    key,       \* per egress, its storage key (0: not decided)
    egress,    \* per egress, its status at LiveKit
    audio,     \* the recordings bucket: whose audio lies under a key
    rec,       \* per egress, recordings.status ("absent": no row)
    hook,      \* per egress and POST of its egress_ended, where the handler is
    stop,      \* the POST .../recording/stop: pc, egresses ahead, and (history) those
               \* it found running; once answered, those that still are
    topic,     \* RecordingReadyEvents not read yet
    published, \* history: how many RecordingReadyEvents an egress has had
    unacked,   \* history: how many of them were written but not acknowledged to the producer
    work,      \* the ai-worker: pc, the event it read, the audio it heard
    files,     \* the notes written, oldest first
    announced  \* the notes whose FileReadyEvent went out

apiVars == <<start, key, rec, hook, stop>>
workerVars == <<work, files, announced>>
vars == <<clock, start, key, egress, audio, rec, hook, stop, topic, published, unacked,
          work, files, announced>>

Seconds == 1 .. LastSecond
Posts == 1 .. MaxPosts
NoAudio == "silence"
ASSUME NoAudioIsNoEgress == NoAudio \notin Egresses

Running == {e \in Egresses : egress[e] = "active"}
Ended(e) == egress[e] \in {"complete", "failed"}

WorkSteps == {"hear", "put", "register", "ready", "announce"}
Resting == [pc |-> "idle"]
Note == [of : Egresses, heard : Egresses, status : {"absent", "stored", "ready"}]

TypeOK ==
    /\ clock \in Seconds
    /\ start \in [Egresses -> {"idle", "ask", "save", "over"}]
    /\ key \in [Egresses -> {0} \cup Seconds]
    /\ egress \in [Egresses -> {"none", "active", "ending", "complete", "failed"}]
    /\ audio \in [Seconds -> Egresses \cup {NoAudio}]
    /\ rec \in [Egresses -> {"absent", "starting", "complete", "failed"}]
    /\ hook \in [Egresses -> [Posts ->
                    {"unsent", "mark", "reload", "publish", "answered", "cut off"}]]
    /\ stop \in [pc : {"idle", "stopping"}, todo : SUBSET Egresses, found : SUBSET Egresses]
    /\ topic \in Seq([of : Egresses, key : Seconds])
    /\ published \in [Egresses -> 0 .. MaxPosts + MaxUnacked]
    /\ unacked \in [Egresses -> 0 .. MaxUnacked]
    /\ \/ work = Resting
       \/ work \in [pc : WorkSteps, of : Egresses, key : Seconds, heard : Egresses \cup {NoAudio}]
    /\ files \in Seq(Note)
    /\ announced \subseteq DOMAIN files

Init ==
    /\ clock = 1
    /\ start = [e \in Egresses |-> "idle"]
    /\ key = [e \in Egresses |-> 0]
    /\ egress = [e \in Egresses |-> "none"]
    /\ audio = [s \in Seconds |-> NoAudio]
    /\ rec = [e \in Egresses |-> "absent"]
    /\ hook = [e \in Egresses |-> [k \in Posts |-> "unsent"]]
    /\ stop = [pc |-> "idle", todo |-> {}, found |-> {}]
    /\ topic = <<>>
    /\ published = [e \in Egresses |-> 0]
    /\ unacked = [e \in Egresses |-> 0]
    /\ work = Resting
    /\ files = <<>>
    /\ announced = {}

------------------------------------------------------------------------------
(* Starting a recording: the key is decided, LiveKit is asked, the row is  *)
(* saved.                                                                  *)

StorageKeyUnset == 0

StorageKey == clock

StartBegin(e) ==
    /\ start[e] = "idle"
    /\ start' = [start EXCEPT ![e] = "ask"]
    /\ key' = [key EXCEPT ![e] = StorageKey]
    /\ UNCHANGED <<clock, egress, audio, rec, hook, stop, topic, published, unacked, workerVars>>

StartEgress(e) ==
    /\ start[e] = "ask"
    /\ start' = [start EXCEPT ![e] = "save"]
    /\ egress' = [egress EXCEPT ![e] = "active"]
    /\ UNCHANGED <<clock, key, audio, rec, hook, stop, topic, published, unacked, workerVars>>

StartSave(e) ==
    /\ start[e] = "save"
    /\ start' = [start EXCEPT ![e] = "over"]
    /\ rec' = IF rec[e] = "absent" THEN [rec EXCEPT ![e] = "starting"] ELSE rec
    /\ UNCHANGED <<clock, key, egress, audio, hook, stop, topic, published, unacked, workerVars>>

\* Neither call is undone or tried again; LiveKit may have acted on a call
\* whose answer was lost.
StartFails(e) ==
    /\ "calls" \in Faults
    /\ start[e] \in {"ask", "save"}
    /\ start' = [start EXCEPT ![e] = "over"]
    /\ \/ UNCHANGED egress
       \/ start[e] = "ask" /\ egress' = [egress EXCEPT ![e] = "active"]
    /\ UNCHANGED <<clock, key, audio, rec, hook, stop, topic, published, unacked, workerVars>>

------------------------------------------------------------------------------
(* LiveKit.  An egress is stopped or ends by itself; if it is complete its *)
(* audio is in the bucket.  Its end is posted to the webhook, and posted   *)
(* again when no answer comes back.                                        *)

Tick ==
    /\ clock < LastSecond
    /\ clock' = clock + 1
    /\ UNCHANGED <<apiVars, egress, audio, topic, published, unacked, workerVars>>

EgressEnds(e) ==
    /\ egress[e] \in {"active", "ending"}
    /\ \/ /\ egress' = [egress EXCEPT ![e] = "complete"]
          /\ audio' = [audio EXCEPT ![key[e]] = e]
       \/ /\ egress' = [egress EXCEPT ![e] = "failed"]
          /\ UNCHANGED audio
    /\ UNCHANGED <<clock, apiVars, topic, published, unacked, workerVars>>

\* A timeout, a lost answer, or a crash before the answer or just as it leaves.
Unanswered(e, k) == Faults \cap {"calls", "api"} # {} /\ hook[e][k] # "unsent"

PostEnded(e, k) ==
    /\ Ended(e)
    /\ hook[e][k] = "unsent"
    /\ k > 1 => Unanswered(e, k - 1)
    /\ hook' = [hook EXCEPT ![e][k] = "mark"]
    /\ UNCHANGED <<clock, start, key, egress, audio, rec, stop, topic, published, unacked, workerVars>>

------------------------------------------------------------------------------
(* The webhook.  Whatever fails in it, the answer is 200.                  *)

MarkWholeRoom(e, s) ==
    rec' = [x \in Egresses |-> IF rec[x] = "absent" THEN "absent" ELSE s]

\* UPDATE recordings SET status: it says nothing of a row that is not there.
Mark(e, s) == rec' = IF rec[e] = "absent" THEN rec ELSE [rec EXCEPT ![e] = s]

MarkEndedUnchecked(e, k) ==
    /\ hook[e][k] = "mark"
    /\ Mark(e, "complete")
    /\ hook' = [hook EXCEPT ![e][k] = "reload"]
    /\ UNCHANGED <<clock, start, key, egress, audio, stop, topic, published, unacked, workerVars>>

MarkEnded(e, k) ==
    /\ hook[e][k] = "mark"
    /\ \/ /\ egress[e] = "failed"
          /\ Mark(e, "failed")
          /\ hook' = [hook EXCEPT ![e][k] = "answered"]
       \/ /\ egress[e] = "complete"
          /\ Mark(e, "complete")
          /\ hook' = [hook EXCEPT ![e][k] = "reload"]
    /\ UNCHANGED <<clock, start, key, egress, audio, stop, topic, published, unacked, workerVars>>

Reload(e, k) ==
    /\ hook[e][k] = "reload"
    /\ hook' = [hook EXCEPT ![e][k] = IF rec[e] = "absent" THEN "answered" ELSE "publish"]
    /\ UNCHANGED <<clock, start, key, egress, audio, rec, stop, topic, published, unacked, workerVars>>

PublishRecomputingKey(e, k) ==
    /\ hook[e][k] = "publish"
    /\ topic' = Append(topic, [of |-> e, key |-> clock])
    /\ published' = [published EXCEPT ![e] = @ + 1]
    /\ hook' = [hook EXCEPT ![e][k] = "answered"]
    /\ UNCHANGED <<clock, start, key, egress, audio, rec, stop, unacked, workerVars>>

PublishOncePerRoom(e, k) ==
    /\ hook[e][k] = "publish"
    /\ IF \E x \in Egresses : published[x] > 0 THEN UNCHANGED <<topic, published>>
       ELSE /\ topic' = Append(topic, [of |-> e, key |-> key[e]])
            /\ published' = [published EXCEPT ![e] = @ + 1]
    /\ hook' = [hook EXCEPT ![e][k] = "answered"]
    /\ UNCHANGED <<clock, start, key, egress, audio, rec, stop, unacked, workerVars>>

\* The producer writes the event to Kafka, and writes it again when the
\* acknowledgement is lost; meanwhile it may give up (HookFails) or crash.
PublishReady(e, k) ==
    /\ hook[e][k] = "publish"
    /\ topic' = Append(topic, [of |-> e, key |-> key[e]])
    /\ published' = [published EXCEPT ![e] = @ + 1]
    /\ \/ /\ hook' = [hook EXCEPT ![e][k] = "answered"]
          /\ UNCHANGED unacked
       \/ /\ "calls" \in Faults
          /\ unacked[e] < MaxUnacked
          /\ unacked' = [unacked EXCEPT ![e] = @ + 1]
          /\ UNCHANGED hook
    /\ UNCHANGED <<clock, start, key, egress, audio, rec, stop, workerVars>>

HookFails(e, k) ==
    /\ "calls" \in Faults
    /\ hook[e][k] \in {"mark", "reload", "publish"}
    /\ hook' = [hook EXCEPT ![e][k] = "answered"]
    /\ UNCHANGED <<clock, start, key, egress, audio, rec, stop, topic, published, unacked, workerVars>>

------------------------------------------------------------------------------
(* Stopping: whatever LiveKit lists as running is stopped, one by one.     *)

StopBeginByRow ==
    /\ stop.pc = "idle"
    /\ LET rows == {e \in Running : rec[e] = "starting"}
       IN  \E some \in SUBSET rows :
              /\ rows # {} => Cardinality(some) = 1
              /\ stop' = [pc |-> "stopping", todo |-> some, found |-> Running]
    /\ UNCHANGED <<clock, start, key, egress, audio, rec, hook, topic, published, unacked, workerVars>>

StopBegin ==
    /\ stop.pc = "idle"
    /\ stop' = [pc |-> "stopping", todo |-> Running, found |-> Running]
    /\ UNCHANGED <<clock, start, key, egress, audio, rec, hook, topic, published, unacked, workerVars>>

\* An egress that has ended meanwhile is an error, and errors are logged.
StopOne(e) ==
    /\ stop.pc = "stopping"
    /\ e \in stop.todo
    /\ stop' = [stop EXCEPT !.todo = @ \ {e}]
    /\ \/ egress' = IF e \in Running THEN [egress EXCEPT ![e] = "ending"] ELSE egress
       \/ "calls" \in Faults /\ UNCHANGED egress
    /\ UNCHANGED <<clock, start, key, audio, rec, hook, topic, published, unacked, workerVars>>

StopEnds ==
    /\ stop.pc = "stopping"
    /\ stop.todo = {}
    /\ stop' = [stop EXCEPT !.pc = "idle", !.found = @ \cap Running]
    /\ UNCHANGED <<clock, start, key, egress, audio, rec, hook, topic, published, unacked, workerVars>>

\* The api service dies and comes back; LiveKit's open POSTs get no answer.
ApiCrash ==
    /\ "api" \in Faults
    /\ start' = [e \in Egresses |-> IF start[e] = "idle" THEN "idle" ELSE "over"]
    /\ hook' = [e \in Egresses |-> [k \in Posts |->
            IF hook[e][k] \in {"mark", "reload", "publish"} THEN "cut off" ELSE hook[e][k]]]
    /\ stop' = [pc |-> "idle", todo |-> {}, found |-> {}]
    /\ UNCHANGED <<clock, key, egress, audio, rec, topic, published, unacked, workerVars>>

------------------------------------------------------------------------------
(* The ai-worker: one event at a time, committed before it is handled.     *)

WorkerMoves(pc) ==
    work.pc = pc /\ UNCHANGED <<clock, apiVars, egress, audio, published, unacked>>

FetchUncommitted ==
    /\ WorkerMoves("idle")
    /\ topic # <<>>
    /\ UNCHANGED topic
    /\ work' = [pc |-> "hear", of |-> Head(topic).of, key |-> Head(topic).key, heard |-> NoAudio]
    /\ UNCHANGED <<files, announced>>

FetchEvent ==
    /\ WorkerMoves("idle")
    /\ topic # <<>>
    /\ topic' = Tail(topic)
    /\ work' = [pc |-> "hear", of |-> Head(topic).of, key |-> Head(topic).key, heard |-> NoAudio]
    /\ UNCHANGED <<files, announced>>

\* transcribeAudio, generateNotes and formatMarkdown: the notes are of the bytes
\* downloaded and of nothing else.
NotesOf(bytes) == bytes

\* An object that is not there fails the download.
HearAudio ==
    /\ WorkerMoves("hear")
    /\ work' = IF audio[work.key] = NoAudio THEN Resting
               ELSE [work EXCEPT !.pc = "put", !.heard = NotesOf(audio[work.key])]
    /\ UNCHANGED <<topic, files, announced>>

PutNotes ==
    /\ WorkerMoves("put")
    /\ files' = Append(files, [of |-> work.of, heard |-> work.heard, status |-> "absent"])
    /\ work' = [work EXCEPT !.pc = "register"]
    /\ UNCHANGED <<topic, announced>>

Newest == Len(files)

RegisterNotes ==
    /\ WorkerMoves("register")
    /\ files' = [files EXCEPT ![Newest].status = "stored"]
    /\ work' = [work EXCEPT !.pc = "ready"]
    /\ UNCHANGED <<topic, announced>>

MarkNotesReady ==
    /\ WorkerMoves("ready")
    /\ files' = [files EXCEPT ![Newest].status = "ready"]
    /\ work' = [work EXCEPT !.pc = "announce"]
    /\ UNCHANGED <<topic, announced>>

AnnounceNotes ==
    /\ WorkerMoves("announce")
    /\ announced' = announced \cup {Newest}
    /\ work' = Resting
    /\ UNCHANGED <<topic, files>>

WorkerFailsLogging ==
    /\ "calls" \in Faults
    /\ \E pc \in WorkSteps : WorkerMoves(pc)
    /\ work' = IF work.pc = "ready" THEN [work EXCEPT !.pc = "announce"] ELSE Resting
    /\ UNCHANGED <<topic, files, announced>>

\* A call fails: the event is given up, whatever was done for it stays.
WorkerFails ==
    /\ "calls" \in Faults
    /\ \E pc \in WorkSteps : WorkerMoves(pc)
    /\ work' = Resting
    /\ UNCHANGED <<topic, files, announced>>

\* The ai-worker dies and comes back after the event it had committed.
WorkerCrash ==
    /\ "worker" \in Faults
    /\ \E pc \in WorkSteps : WorkerMoves(pc)
    /\ work' = Resting
    /\ UNCHANGED <<topic, files, announced>>

------------------------------------------------------------------------------
StartStep(e) == StartEgress(e) \/ StartSave(e)
HookStep(e, k) == MarkEnded(e, k) \/ Reload(e, k) \/ PublishReady(e, k)
StopStep == StopEnds \/ \E e \in Egresses : StopOne(e)
WorkerStep ==
    FetchEvent \/ HearAudio \/ PutNotes \/ RegisterNotes \/ MarkNotesReady \/ AnnounceNotes

Next ==
    \/ Tick
    \/ \E e \in Egresses : StartBegin(e) \/ StartStep(e) \/ StartFails(e) \/ EgressEnds(e)
    \/ \E e \in Egresses, k \in Posts : PostEnded(e, k) \/ HookStep(e, k) \/ HookFails(e, k)
    \/ StopBegin \/ StopStep \/ ApiCrash
    \/ WorkerStep \/ WorkerFails \/ WorkerCrash

Spec == Init /\ [][Next]_vars

\* Handlers, the worker loop and LiveKit's first POST of an end go on; nobody
\* has to start or stop a recording, and an egress may run for ever.
Fairness ==
    /\ \A e \in Egresses : WF_vars(StartStep(e)) /\ WF_vars(PostEnded(e, 1))
    /\ \A e \in Egresses, k \in Posts : WF_vars(HookStep(e, k))
    /\ WF_vars(StopStep)
    /\ WF_vars(WorkerStep)

FairSpec == Spec /\ Fairness

------------------------------------------------------------------------------
(* Properties.                                                             *)

\* A RecordingReadyEvent is only ever sent of an egress LiveKit completed,
\* and audio lies under its key, however the webhook's POSTs are repeated.
ReadyEventIsBacked ==
    \A e \in Egresses : published[e] > 0 => egress[e] = "complete" /\ audio[key[e]] # NoAudio

\* A row that says complete or failed says what became of that egress, also
\* when several egresses of the room end in any order and are posted twice.
RowsAgreeWithLiveKit ==
    \A e \in Egresses : rec[e] \in {"complete", "failed"} => egress[e] = rec[e]

\* Notes come from the audio under the key chosen at the start; when no other
\* recording of the room was started in that second, from that recording.
NotesAreOfTheirRecording ==
    \A i \in DOMAIN files :
        LET e == files[i].of IN
        /\ key[files[i].heard] = key[e]
        /\ (\A x \in Egresses \ {e} : key[x] # key[e]) => files[i].heard = e

\* A recording gets no more notes than events were written of it, and an event
\* beyond the first takes a POST of LiveKit's handled again or a write whose
\* acknowledgement was lost; the ai-worker, fail or crash as it may, adds none.
NoMoreNotesThanWrites ==
    \A e \in Egresses :
        /\ Cardinality({i \in DOMAIN files : files[i].of = e}) <= published[e]
        /\ published[e] <= Cardinality({k \in Posts : hook[e][k] = "answered"}) + unacked[e]

\* Notes that were announced to the room are listed there: their row is ready,
\* whichever call failed on the way.
AnnouncedNotesAreReady == \A i \in announced : files[i].status = "ready"

\* Once a stop is answered, nothing it found running still is.
StopMeansStopped == stop.pc = "idle" => stop.found \cap Running = {}

\* A completed recording whose row was there before LiveKit's first POST
\* leads, when nothing fails, to notes that are ready and announced.
CompletedGetsNotes ==
    \A e \in Egresses :
        (rec[e] = "starting" /\ egress[e] = "complete" /\ hook[e][1] = "unsent")
            ~> (\E i \in announced : files[i].of = e)

\* internal/domain/recording_event.go:3-4: the event is published once the
\* egress_ended webhook confirms that the recording completed.
CompletionIsPublished ==
    \A e \in Egresses, k \in Posts :
        hook[e][k] = "answered" /\ egress[e] = "complete" => published[e] > 0
==============================================================================
