# A TLA+ model of OmniStream

OmniStream lets the members of a room exchange files, asynchronously or while
they are on a call, and turns recorded calls into notes.  This directory holds
its specification: TLA+ modules translated from the Go sources, TLC
configurations that check them on small instances, and proofs of the main
theorems for instances of any size.  `PROJECT.json` lists the runs, the mutated
definitions that show each property can fail, the lines behind every definition,
the hazards the properties are aimed at, and the theorems.

## 1. The system

Four Go binaries share PostgreSQL, MinIO and Kafka; no transaction spans any two
of those, and no call between services is synchronous.

| Part | State it keeps | Operations | Talks to |
|---|---|---|---|
| **ingestion** (`cmd/ingestion`, `usecase/file_service.go`) | `files`, `upload_parts`; chunk objects and final objects in MinIO | small upload, initiate, put part, status, complete, abort | publishes `FileUploadedEvent` |
| **worker** (`cmd/worker`, `infra/kafka`) | the offset of its consumer group | consume, MarkReady, publish | publishes `FileReadyEvent` |
| **api: push** (`adapter/ws`) | `Hub.rooms`, a buffered channel and two goroutines per connection | register, unregister, broadcast, the pumps | consumes `FileReadyEvent` |
| **api: delivery** (`cmd/api`, `file_repository.go`) | `participants`, `file_deliveries` | join, list waiting, download with ranges, claim delivered | reads MinIO |
| **api: recording** (`video_service.go`, `recording_repository.go`) | `recordings`, `video_events` | start, stop, LiveKit's webhook | calls LiveKit, publishes `RecordingReadyEvent` |
| **ai-worker** (`cmd/ai-worker`) | its offset | consume, transcribe, write notes, ready, announce | Whisper, Ollama, MinIO, publishes `FileReadyEvent` |
| **rooms** (`room_service.go`) | `rooms` | create, verify | |
| **browser** (`frontend/src`) | the list shown, one websocket | join, list, refresh on push and after a click, upload (one request), toggle recording | ingestion, api |
| **resumable client** (none in the repository) | the parts still to send | initiate, put, status, complete, again | ingestion |

What is hard here, and what correctness means for each part:

* *ingestion*: handlers about one file overlap between their calls; a call fails
  half-way; the process dies; clients repeat requests.  No file may be called
  stored without all its bytes, no recorded part may be lost, no row or status may
  come back after an abort.
* *worker*: events are lost (commit before handling), repeated (producer retries)
  and late (after another completion or an abort).  Nobody may be told of a
  file that is not whole; without failures every file must become ready.
* *push*: clients leave in the middle of a broadcast, are slow, or fall
  silent.  No send on a closed channel, no blocked hub, no leaked goroutine, and an
  account of every event.
* *delivery*: bytes written are not bytes received; resumed downloads arrive in
  pieces; the file changes under a download.  Nobody may lose a file they have not
  been sent, and nobody's download may hide it from others.
* *recording and ai-worker*: LiveKit calls back when it likes, more than once; the
  row, the event and the notes are written by different parties.  Notes must belong
  to their recording and be listed when announced.
* *browser*: list requests run side by side and the last answer to arrive wins,
  however old; the websocket is opened once, beside the first listing; nothing
  polls.  What a page misses must have a cause one can name.
* *resumable client*: it gives up answers whose handlers go on, and meets them in
  its next requests.  It must finish once failures cease.

## 2. The modules

| Module | Models | Checked by | Proved in |
|---|---|---|---|
| `Ingestion` | the ingestion service about one file id | `pipeline_*`, `ingestion_*`, `upload_*` | `IngestionProofs` |
| `FilePipeline` | `Ingestion` composed with the worker and the topic between them | `pipeline_*` | `FilePipelineProofs` |
| `FileLifecycle` | the promise: what a file may go through | refinement in `pipeline_faults` | same |
| `WsHub` | hub, connections and pumps | `hub` | `WsHubProofs` |
| `PushFeed` | the promise: what a connected browser is sent | refinement in `hub` | same |
| `Delivery` | participants and downloads of one file; `parseRangeHeader` | `delivery_*` | `DeliveryProofs` |
| `Recording` | start, stop, webhook, LiveKit, ai-worker for one room | `recording_*` | `RecordingProofs` |
| `RoomPage` | the room's page in the browser, over `PushFeed` | `room_page` | `RoomPageProofs` |
| `ResumableUpload` | a client of the resumable protocol, over `Ingestion` | `upload_*` | `ResumableUploadProofs` |

`MCxxx` modules hold what TLC needs (symmetry sets, model constants).
Definitions named after a bug (`PartPutIgnoringErrors`, `UpdateStatusUpsert`, ...)
stand before the definition they distort; no specification uses them.

### Ingestion

One file id.  `status`, `partRows`, `partObjs` and `object` are the row, the chunk
rows, the chunk objects and the final object; `backlog` counts unread events;
`fileID` says who knows the id.  `pc`, `todo` and `done` are the locals of each
handler in flight.  Every call to a store is one action, in the order of the code:

| Code | Actions |
|---|---|
| POST /upload | `UploadPut`, `RegisterUpload`, `Publish` |
| POST /uploads/initiate | `InitUpload`, `InitReply` |
| PUT part (`RecordPart`) | `PartBegin`, `PartPut`, `PartSave` |
| complete (`CompleteUpload` and its route) | `CompleteBegin`, `CompleteList`, `CompleteRead`\*, `CompletePut`, `CompleteStore`, `DeletePart`\*, `ForgetParts`, `Publish` |
| DELETE (`AbortUpload`) | `AbortBegin`, `AbortList`, `DeletePart`\*, `ForgetParts`, `AbortDelete` |
| status | `StatusReport` (a state function) |

The lookup of a route is the guard `Found`; a lookup that finds nothing answers an
error (404, 409 or 500, by route) and changes nothing.  `CompleteRead` opens the next chunk as
`partSequenceReader` does, so a chunk deleted in the meantime fails the
reassembly.  Foreign key and cascade of the schema are `SavePartRow` and
`DeleteRow`.  A chunk is its number, the final object the set of chunks it was
made of: bodies are assumed to have the length their number calls for, since
`PutObject` is given the total length and refuses another.  MinIO shows an
object only when it is complete.

`Faults` says what may go wrong.  `"calls"`: any call may fail and end the
handler (`RequestFails`), the ignored errors of the clean-up leave things behind,
a publish is lost or doubled.  `"ingestion"`: every handler dies (`Crash`).

### FilePipeline and FileLifecycle

Adds the consume loop.  `kafka-go` commits before `ReadMessage` returns in a
consumer group, so `ReadMessage` takes the event off the backlog and the handler
follows; `SkipMessage` is a commit that fails, `HandlerFails` a failed handler,
`WorkerCrash`/`WorkerRestart` a new session.  `docker-compose.yml` creates one
partition per topic, and the model has one worker.

`FileLifecycle` knows a phase and whether the bytes are there.  The refinement maps
an absent row to "fresh" or "deleted", by the history variable `aborting`, and
`bytes` to `object = WholeFile`.

### WsHub and PushFeed

`Register` and `Unregister` hold the mutex from start to end and are one step;
`Broadcast` is `BroadcastBegin`, a `BroadcastSend` per client in any order, and
`BroadcastEnd`, since writers receive in between.  A peer may close or fall silent
(`PeerLeaves`); a silent one is noticed through the read and write deadlines.
Pings are not separate actions: what they do is let `WriteFails` happen to a writer
that waits.

`PushFeed` knows, per connection, only the events it is owed, oldest first, and
those it got.  The refinement takes for the former what the writer has in hand,
then the buffer, then the event of a `Broadcast` that has yet to come to the client.
An owed event is given up in two ways: the newest, when more than `SendCap` are
outstanding, and the oldest, once the peer is gone.

### Delivery

One file of `FileSize` bytes; each download has a range, a count of bytes the
handler has written and a count of those that arrived.  `StatusChanges`, `Expire`
and `DeleteRow` are the rest of the system.  `Headers` is what is left of a Range
header once it is split; `RangesAreExact` compares `Served` with the positions RFC
9110 gives for every header at once.

### Recording

`start[e]` is the start handler of an egress, `hook[e][k]` the handler of
LiveKit's k-th POST of its end, `stop` the stop handler, `work` the ai-worker.
`egress`, `audio`, `Tick` and the repeated POSTs are LiveKit and the clock, as the
code relies on them.  Other webhook events only write the event log and are left
out; a failing log is one of the ways `HookFails` happens.  `HearAudio` is download,
Whisper, Ollama and the Markdown.

The producer writes an event again when Kafka's acknowledgement is lost.  One write is one
`PublishReady`: acknowledged, it ends the handler; unacknowledged, the handler stays
where it is and writes again, unless it gives up (`HookFails`) or dies (`ApiCrash`).
`unacked` counts these writes (history).

### RoomPage

A page load, its connection and its participant are one and the same `p`; a reload is
another page.  `PushFeed` stands for the hub, and the status of a file for
everything that leads to it being ready.

| Code | Actions |
|---|---|
| `Room.tsx` | `Mount`, `Joined` (which asks for the first list), `JoinFails`, `Close` |
| `useRoomEvents.ts` | `SocketOpens`, `SocketSeated`, `SocketFails`, `SocketForgotten`, `SocketDrops`; `ReceivePush` |
| `refreshFiles` and GET /files | `Serve`, `Receive`, `ListFails` |
| `FileList.tsx` | `Click`, `TimerFires`; `DownloadEnds` |
| the services | `MarkReady`, `SetBack`, `Announce`, `Remove`, `Broadcast`, `ApiCrash` |

As in `Ingestion` and `FilePipeline`, `MarkReady` does not look at the status, an event
may come again, and a repeated completion sets a ready file back to stored
(`SetBack`), which takes it off the lists until its second event has been handled.

`asked` counts requests on their way, `answers` holds lists on their way back.  History
are `newest`, `overtaken` and `failed` (which pages got an answer after a newer one, or
lost one), and `skipped` and `unmended` (which lists were made while which file was set
back, and those after which no push about that file has come).  The properties name
them as causes: a page that misses a file and has none of the causes behind it would be
a defect no reload explains.

### ResumableUpload

The repository has no such client; this one does what the routes and
`upload_part.go:10-12` call for: `Initiate`, `SendPart` by part, `Complete`, and
`AskStatus` after any failure.  `HandlerGoesOn` is a step of `Ingestion`, for the
request the client waits for or for one it gave up (`GiveUp`).  `Stubborn` clients
send all parts again when a completion is refused.  `MaxFailures` bounds failures of
the client's requests: that they cease is the premise of the liveness property.
Calls of handlers that were given up may fail without limit, their context being
cancelled.

## 3. What the runs check

| Run | Instance | Shows |
|---|---|---|
| `pipeline_faults` | 2 requests, 2 parts, 2 events, every fault | no bytes, parts or rows lost; only whole files announced; no way back; `LifecycleSpec` |
| `pipeline_live` | 2 requests, 1 part, no fault | nothing is forgotten; stored leads to ready, ready to announced |
| `hub` | 2 clients of a room, 2 events, buffer 1 | no send on a closed channel, exact rooms, account of losses, `PushFeed`; no leak, no blocked hub, buffers drain |
| `delivery_safety` | 2 participants, 2 downloads, 2 bytes | what counts as delivered was sent; deliveries touch nobody else; ranges |
| `recording_faults` | 1 recording, 3 POSTs, 2 lost acknowledgements, every fault | events are backed; notes are duplicated by repeated POSTs and repeated writes only; announced notes are listed |
| `recording_live` | 2 recordings, 2 seconds, no fault | rows agree with LiveKit; stops stop; completed recordings get notes, of their own audio |
| `room_page` | 1 page, 1 file, 2 repetitions, 1 download, buffer 1, every fault | what a page misses or keeps has a named cause; what is pushed is shown; downloads leave the list |
| `upload_stubborn` | 3 requests, 2 parts, 3 failures | an upload finishes once failures cease |

Two requests let a completion meet a repeated completion, an abort or a part, with
handlers starting again and again; that more of them change nothing is what the
proofs show.  Two parts are the smallest number at which a part can be missing
from or deleted under a reassembly.  Two events suffice for one event overtaken by
another.  Two clients, one of which may leave while the other is being sent to, with
a buffer smaller than the number of events, reach every branch of the hub.  A
file of two bytes has a proper prefix, a proper suffix and both boundaries.
Two recordings in two seconds can share a second or not, and end in either order; that
faults add nothing to what `recording_live` shows of rows and keys is what theorems
`RowsAgree` and `NotesAreTheirs` say.  Events and notes are counted per recording, so
one is enough for the faults; three POSTs and two lost acknowledgements make up to five
events of it.  Pages share only the files, whose status no page changes, so one page is
enough.  Two repetitions let a file be set back and made ready again, or be spoken of
twice, between any two of the up to four requests of the page, and let its events
compete for a buffer of one.  Three requests are the one the client waits for and two
it has given up, which is what it takes for a completion to delete a part while another
request records it.  Bounds that exist only for TLC are `MaxBacklog`, `MaxEvents`,
`MaxClicks`, `MaxRepeats`, `LastSecond`, `MaxPosts` and `MaxUnacked`.

All these systems may come to rest (requests about a deleted file are refused for ever, all
connections end, every recording is over), so most runs do not ask for deadlock
freedom; the configuration says why.

### What comments say and the code does not do

Each is a run of its own whose counterexample is short; `PROJECT.json` quotes the
lines under `findings`.

| Run | What happens |
|---|---|
| `ingestion_verified` | parts 1 and 3 of a two-part file count as complete |
| `pipeline_commit` | an event in hand is lost with the worker |
| `recording_publish` | a webhook that overtakes the INSERT is given up |
| `upload_missing` | two answers are lost; status claims a chunk that a given-up completion deleted, and completing is refused for ever |

More behaviours are at odds with what the repository says, and have no run of their
own (all but the recording button and the balancer are part of the models):

* DELETE never looks at the status, so `AbortDelete` removes a stored or ready file
  too; `file_repository.go:182-184` speaks of uploads aborted "before ever
  completing".
* A DELETE that fails half-way leaves rows for chunks that are gone, so the status
  does not tell which parts exist (`upload_part.go:10-12`).
* A second completion sets a ready file back to stored, which takes it out of the
  listing until its second event is handled (`cmd/worker/main.go:86`).  A page that
  lists in between loses the file, for good if the second push is lost; a file already
  delivered may come back to a list by an answer made earlier (`skipped` and `unmended`
  of `RoomPage`).
* After a lost answer to complete, status lists every part as missing, though the
  file is stored (`src/README.md:14`: uploads resume from the missing parts).
* `SendOrDrop` drops an event at a full buffer and nothing sends it again;
  `src/README.md:16` says connected clients are notified.  `Accounted` says exactly
  which events are missed.
* Nothing polls: `cmd/worker/main.go:86-89` counts on a client's next listing where a
  publish fails, but a page lists only when it joins, when it is pushed to and
  after a click on a download (`RoomPage`).  A file that becomes ready between the first
  list and the registration of the websocket is missed likewise.
* `EarnsDelivery` accepts `bytes=-1`, so who fetches the last byte has the file
  (`cmd/api/main.go:408-409`).
* `CopyEnds` counts bytes written into the connection: if it drops with the last of
  them on the way, the delivery is recorded; `cmd/api/main.go:412-415` says the file
  stays waiting when the connection drops mid-download.
* `StopOne` may fail and is only logged; the answer is still "Recording stopped"
  (`cmd/api/main.go:266`).  `StopMeansStopped` holds when calls do not fail.
* The catch block of `toggleRecording` flips whatever the button says by then: click
  start, click stop before the answer, and a start that fails leaves the button on
  (`Room.tsx:115`: "Revert the button state if the API call actually failed").
* `producer.go:26-28` says keys keep the events of a room in one partition; the
  balancer is `LeastBytes`, which does not look at keys.  It makes no difference with
  the one partition per topic of `docker-compose.yml:105-107`.

### Fairness

`pipeline_live`: a handler that has started is a goroutine of net/http and goes on;
the consume loop polls for ever.  Clients owe nothing: no request has to arrive.
`hub`: runnable goroutines run; `Hub.mu` is a `sync.Mutex`, which hands itself
to a starved waiter, hence strong fairness for `Register` and `Unregister`, which
others can disable again and again; socket deadlines expire.  Browsers owe
nothing.  `recording_live`: handlers and the ai-worker go on and LiveKit posts the end
of an egress once; nobody has to start or stop one, and an egress need not end.
`room_page`: requests are served or fail and their answers arrive or are lost, timers
fire, the feed of a lasting connection is drained (`BufferDrains` of `WsHub`) and the
consumer goes on; nobody has to open a page, click or finish a download.
`upload_stubborn`: handlers run to their end and the client wants its file
uploaded, so it takes its next step whenever it has one.

## 4. What is proved

`IngestionProofs` proves every safety property of the ingestion service that
`pipeline_faults` checks, for any set of requests, any number of parts and any
faults, from the assumptions on the constants alone.  None of the properties is inductive.
`StoredIsWhole`, for instance, holds at `CompleteStore` only because the handler put
the whole file two steps earlier and no other handler replaced it since.  `IndInv`
collects what is needed:

* `IdIsPrivate`: until a client is told the id, only the handler that drew it touches
  the file; so an initiate or a small upload overlaps with nothing.
* `CleanersAreEntitled`: chunks are deleted only by a completion whose file is past
  uploading or by an abort; unread events and publishing handlers imply past
  uploading.
* `ChunkBeforeRow`: a handler about to save a part row has its chunk in MinIO.
* `BytesInv`, for clients that number their parts as told: an object is whole or not
  there; a reassembly's chunks read and ahead are together the whole file (by
  `FullListing`: as many rows as parts, all numbered 1..TotalParts, are all of
  them; this is where counting is enough and where it is not).

`FilePipelineProofs` adds what the worker has in hand (`WorkerInv`) and derives that
only whole files are announced, that the pipeline implements `FileLifecycle`
(`PipelineImplementsLifecycle`, step by step over `LifePhase` and `LifeBytes`), and
that without faults a stored file always has a step ahead (`StoredFilesArePending`,
with `NoSkips`: nothing has been skipped).

`WsHubProofs` proves, for any number of clients, rooms and events and any buffer
capacity, that the hub is exact about its clients, never sends on a closed channel
and implements `PushFeed`.  `HubInv` strengthens these by `MutexInv` (clients a
`Broadcast` has yet to come to exist only under the mutex, and are registered, since
`Unregister` needs the mutex too), `ClosedInv` (a channel is closed when its reader is
done) and `PumpInv` (what pumps and connection know of each other; a writer holds one
event exactly while it writes).  The refinement then goes action by action
(`FeedStep`), from a few facts about sequences: moving the head of the buffer into
the writer's hand, or the event of a `Broadcast` into the buffer, leaves what is owed
as it is.

`EveryEventIsAccountedFor` adds `AccountInv`: while a connection lasts, what was due
to a client is what it got, what its pumps and buffer hold, what was dropped, and the
event of a `Broadcast` that has yet to come to it.

`DeliveryProofs` treats any file size, any number of participants and of downloads
side by side.  `ServedRangesAreExact` needs no induction: `parseRangeHeader` is compared with
RFC 9110 form by form (`EveryHeaderIsServedExactly`).  `DeliveredWasAllSent` rests on
`SentInv`: what a request has written lies right after what had been written to its
participant before it, so a copy that reaches the end completes the file.  That holds
of clients that only resume (`ResumeOnly`; `bytes=-1` breaks it, see section 3).

`RecordingProofs` treats any number of recordings, seconds and POSTs.  `IndInv` says what
the parties may rely on of each other: audio lies under a key exactly when a recording
of that second is complete (`AudioOfCompleted`, the reason why two recordings of one
second share their notes), a webhook handler knows an end that is final (`HooksKnowTheEnd`),
events and notes name complete recordings (`EventsNameCompleted`,
`HeardUnderTheKey`), and each event makes at most one set of notes, while events are no
more than POSTs answered and acknowledgements lost (`EventsAreCounted`, by counting
places of a sequence).  `StopsAreComplete` has
a hypothesis, that calls do not fail: a failed `StopEgress` is logged and forgotten.

`RoomPageProofs` treats any number of pages, files, pushes and clicks, under every
fault.  The argument is about the numbers of answers.  A deleted or delivered file is never
offered again, so among answers taken in order it leaves the list once (`OnceInv`,
`ClickedInv`), unless one of them was made while the file was set back (`skipped`).  The
newest answer, or a request on its way, knows every file that was pushed (`PushedInv`), unless
it was made while the file was set back and no push about it has come since
(`unmended`).  `PagesAreServedByTheFeed` joins the two sides of a connection: while the
api process lives, all that pages and workers do is a behaviour of `PushFeed`, the
module that `WsHub` is proved to implement.  (`ApiCrash` ends all connections in one step,
which `PushFeed` does not reckon with.)

`ResumableUploadProofs` proves that the client is one `Ingestion` reckons with
(`TheClientIsLegal`), so that `IngestionProofs` applies to it unchanged, and that
what it is told is true (`CompleteMeansComplete`): the handler it waits for, and no
other, answers it (`ClientInv`), that handler published, hence had stored, and
handlers it gave up can only store the whole file again.  Like all that is said
of bytes it assumes that parts are numbered as told (`ConformingClients`).

Every invariant and every action property of the passing runs is stated by a
theorem, and so are both refinements.  Only model-checked is liveness, for which
TLAPS has no support here: `StoredBecomesReady`, `ReadyIsAnnounced`, `NoLeak`, `HubComesFree`,
`BufferDrains`, `CompletedGetsNotes`, `PushedIsShown`, `DownloadedIsHidden` and
`StubbornUploadFinishes`; `StoredFilesArePending` proves of the first that without
faults no stored file is ever without a step ahead.

## 5. What is not modelled

* Rooms and passwords: one statement per operation on rows that do not change; only
  verify looks at their expiry, and no page calls it.
* Of the browser: uploading from the page, one request after the other; the video
  call; the recording button, which is turned before its request is answered.
* Contents and lengths of files, names, content types, tokens, CORS, health routes.
* `video_events` (written, never read back), `VideoService.StopRecording` and
  `GetActiveByRoom` (never called), `MarkFailed` of files (never called).
* Chunk size zero: the worker and ai-worker construct `FileService` with it and never
  call an operation that divides by it.
* More than one partition or worker.

## 6. Plan

1. Proofs of what liveness rests on besides fairness: of `HubComesFree`, that a held
   mutex always has a step of its holder ahead; of `StubbornUploadFinishes`, that a client
   that is neither done nor lost has one, and that it is not refused twice for the same reason.
2. `ConsumerGroup`, should the topics ever get more than one partition: `LeastBytes`
   against `producer.go:26-28`, rebalances between workers.
3. The recording button over `Recording`: a wrong button has a cause (overlapping
   clicks, another page, a lost answer).
4. `Rooms`, should verification or expiry ever be asked of those who join.
