---------------------------- MODULE FilePipeline -----------------------------
(***************************************************************************)
(* Ingestion composed with the worker that consumes its FileUploadedEvents *)
(* (topic file-events, one partition): it marks the file ready and then    *)
(* publishes the FileReadyEvent that the API pushes to connected clients.  *)
(*                                                                         *)
(* `backlog` counts the events the group has not committed.  kafka-go's    *)
(* ReadMessage commits the offset BEFORE it returns the message; when that *)
(* commit fails, Consume logs and reads the next message, and only a new   *)
(* session sees the skipped one again, unless a later commit covers it.    *)
(***************************************************************************)
EXTENDS Ingestion

VARIABLES
    worker,    \* where the worker's consume loop is
    fetched,   \* uncommitted events this session has already gone past
    announced  \* history: a FileReadyEvent has been published

workerVars == <<worker, fetched, announced>>
pipelineVars == <<vars, workerVars>>

PipelineTypeOK ==
    /\ TypeOK
    /\ worker \in {"polling", "handling", "notify", "down"}
    /\ fetched \in 0 .. backlog
    /\ announced \in BOOLEAN

PipelineInit ==
    /\ Init
    /\ worker = "polling"
    /\ fetched = 0
    /\ announced = FALSE

\* Mutant: the count of skipped events is not reset.
ReadMessageNoReset ==
    /\ worker = "polling" /\ fetched < backlog
    /\ backlog' = backlog - (fetched + 1)
    /\ worker' = "handling"
    /\ UNCHANGED <<fileID, status, partRows, partObjs, object, aborting, pc, todo, done>>
    /\ UNCHANGED <<fetched, announced>>

\* The consume loop reads the next event and commits everything up to it.
ReadMessage ==
    /\ worker = "polling" /\ fetched < backlog
    /\ backlog' = backlog - (fetched + 1)
    /\ fetched' = 0
    /\ worker' = "handling"
    /\ UNCHANGED <<fileID, status, partRows, partObjs, object, aborting, pc, todo, done>>
    /\ UNCHANGED announced

\* The commit fails: the event is neither handled nor fetched again.
SkipMessage ==
    /\ "calls" \in Faults
    /\ worker = "polling" /\ fetched < backlog
    /\ fetched' = fetched + 1
    /\ UNCHANGED <<vars, worker, announced>>

\* Mutant: an event about a file it has seen before is taken for a duplicate.
MarkReadyOnce ==
    /\ worker = "handling"
    /\ IF announced THEN UNCHANGED status ELSE UpdateStatus("ready")
    /\ worker' = "notify"
    /\ UNCHANGED <<fileID, partRows, partObjs, object, backlog, aborting, pc, todo, done>>
    /\ UNCHANGED <<fetched, announced>>

\* MarkReady: an UPDATE without a look at the row, which may be gone.
MarkReady ==
    /\ worker = "handling"
    /\ UpdateStatus("ready")
    /\ worker' = "notify"
    /\ UNCHANGED <<fileID, partRows, partObjs, object, backlog, aborting, pc, todo, done>>
    /\ UNCHANGED <<fetched, announced>>

\* Mutant: the publish is forgotten.
NotifyNobody ==
    /\ worker = "notify"
    /\ worker' = "polling"
    /\ UNCHANGED <<vars, fetched, announced>>

\* The FileReadyEvent goes out whether or not MarkReady found a row.
Notify ==
    /\ worker = "notify"
    /\ announced' = TRUE
    /\ worker' = "polling"
    /\ UNCHANGED <<vars, fetched>>

\* MarkReady or the publish fails: logged, and on to the next event.
HandlerFails ==
    /\ "calls" \in Faults
    /\ worker \in {"handling", "notify"}
    /\ worker' = "polling"
    /\ UNCHANGED <<vars, fetched, announced>>

WorkerCrash ==
    /\ "worker" \in Faults
    /\ worker # "down"
    /\ worker' = "down"
    /\ UNCHANGED <<vars, fetched, announced>>

\* A new session starts at the committed offset.
WorkerRestart ==
    /\ worker = "down"
    /\ worker' = "polling"
    /\ fetched' = 0
    /\ UNCHANGED <<vars, announced>>

IngestionStep == Next /\ UNCHANGED workerVars

WorkerStep == ReadMessage \/ MarkReady \/ Notify

WorkerFault == SkipMessage \/ HandlerFails \/ WorkerCrash \/ WorkerRestart

PipelineNext == IngestionStep \/ WorkerStep \/ WorkerFault

PipelineSpec == PipelineInit /\ [][PipelineNext]_pipelineVars

(* A handler that has started runs to its end (net/http gives each its own *)
(* goroutine) and the consume loop keeps polling; clients owe nothing.     *)
PipelineFairness ==
    /\ \A r \in Reqs : WF_pipelineVars(HandlerStep(r) /\ UNCHANGED workerVars)
    /\ WF_pipelineVars(WorkerStep)

FairPipelineSpec == PipelineSpec /\ PipelineFairness

------------------------------------------------------------------------------
(* What the pipeline implements: FileLifecycle, with the row and the       *)
(* history of aborts giving the phase, and the object giving the bytes.    *)

LifePhase == IF status # "absent" THEN status
             ELSE IF aborting THEN "deleted" ELSE "fresh"

LifeBytes == object = WholeFile

Life == INSTANCE FileLifecycle WITH phase <- LifePhase, bytes <- LifeBytes

LifecycleSpec == Life!Spec

------------------------------------------------------------------------------
(* Properties.                                                             *)

\* Somebody still has to make the file ready: an unread event, the worker with
\* the event in hand, or the handler that is about to publish one.
WorkPending ==
    \/ backlog > fetched
    \/ worker = "handling"
    \/ \E r \in Reqs : pc[r] \in {"complete_clean", "publish"}

\* As long as nothing fails, a stored file is never forgotten between the three
\* services: there is always a step left that leads to MarkReady.
StoredIsPending == status = "stored" => WorkPending

\* What a connected client is told of is a file whose bytes are complete, even
\* when the row was deleted or stored anew between MarkReady and the publish.
AnnouncedIsWhole == ConformingClients => (announced => object = WholeFile)

\* With no failures every stored file is eventually ready, or deleted.
StoredBecomesReady == status = "stored" ~> status \in {"ready", "absent"}

\* With no failures a connected client is eventually told of a ready file.
ReadyIsAnnounced == status = "ready" ~> announced

------------------------------------------------------------------------------
(* What comments in the code say and it does not do.                       *)

\* consumer.go:31-34: an event is committed "only ... after the handler returns
\* successfully ... so a crash mid-handling means the message gets redelivered
\* rather than silently lost".
CrashRedelivers ==
    status = "stored" => WorkPending \/ backlog > 0
==============================================================================
