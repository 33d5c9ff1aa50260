-------------------------- MODULE FilePipelineProofs -------------------------
(***************************************************************************)
(* The pipeline keeps the invariant of Ingestion, since the worker touches *)
(* only the status and the backlog, and it implements FileLifecycle: for   *)
(* every number of requests and parts, and under every fault.              *)
(***************************************************************************)
EXTENDS FilePipeline, IngestionProofs

\* What the worker has in hand is an event about a complete object.
WorkerInv ==
    /\ worker \in {"polling", "handling", "notify", "down"}
    /\ fetched \in 0 .. backlog
    /\ announced \in BOOLEAN
    /\ worker = "handling" => status # "uploading" /\ fileID # "unissued"
    /\ ConformingClients =>
        (worker \in {"handling", "notify"} \/ announced => object = WholeFile)

PipelineInv == IndInv /\ WorkerInv

\* The backlog of Ingestion's own steps only grows, and the object stays whole.
LEMMA IngestionKeeps ==
    ASSUME IndInv, [Next]_vars
    PROVE  /\ backlog' >= backlog
           /\ backlog' \in Nat
           /\ ConformingClients /\ object = WholeFile => object' = WholeFile
<1> USE BacklogAssumption DEF IndInv, ControlInv, TypeOK
<1>1. backlog' >= backlog /\ backlog' \in Nat
  <2>1. ASSUME NEW r \in Reqs, Publish(r) PROVE backlog' >= backlog /\ backlog' \in Nat
    BY <2>1 DEF Publish
  <2>2. CASE UNCHANGED backlog
    BY <2>2
  <2>3. QED
    BY <2>1, <2>2 DEF Next, HandlerStep, Arrival, InitUpload, UploadPut, PartBegin,
       CompleteBegin, AbortBegin, InitReply, RegisterUpload, PartPut, PartSave, CompleteList,
       CompleteRead, CompletePut, CompleteStore, DeletePart, ForgetParts, AbortList,
       AbortDelete, RequestFails, Crash, vars
<1>2. ASSUME ConformingClients, object = WholeFile PROVE object' = WholeFile
  <2>1. ASSUME NEW r \in Reqs, CompletePut(r) PROVE object' = WholeFile
    BY <1>2, <2>1 DEF CompletePut, BytesInv, HandlersHoldTheFile
  <2>2. ASSUME NEW r \in Reqs, UploadPut(r) PROVE object' = WholeFile
    BY <2>2 DEF UploadPut
  <2>3. CASE UNCHANGED object
    BY <1>2, <2>3
  <2>4. QED
    BY <2>1, <2>2, <2>3 DEF Next, HandlerStep, Arrival, InitUpload, PartBegin, CompleteBegin,
       AbortBegin, InitReply, RegisterUpload, PartPut, PartSave, CompleteList, CompleteRead,
       CompleteStore, DeletePart, ForgetParts, Publish, AbortList, AbortDelete, RequestFails,
       Crash, vars
<1>3. QED
  BY <1>1, <1>2

\* Nothing that ingestion does takes a file back to uploading once its id is out.
LEMMA StatusStaysPast ==
    ASSUME IndInv, [Next]_vars, status # "uploading", fileID # "unissued"
    PROVE  status' # "uploading" /\ fileID' # "unissued"
<1> USE DEF IndInv, ControlInv, IdIsPrivate
<1>1. ASSUME NEW r \in Reqs, HandlerStep(r) PROVE status' # "uploading" /\ fileID' # "unissued"
  BY <1>1 DEF HandlerStep, InitReply, RegisterUpload, PartPut, PartSave, CompleteList,
     CompleteRead, CompletePut, CompleteStore, UpdateStatus, DeletePart, ForgetParts, Publish,
     AbortList, AbortDelete
<1>2. ASSUME NEW r \in Reqs, Arrival(r) PROVE status' # "uploading" /\ fileID' # "unissued"
  BY <1>2 DEF Arrival, InitUpload, UploadPut, PartBegin, CompleteBegin, AbortBegin
<1>3. CASE UNCHANGED <<status, fileID>>
  BY <1>3
<1>4. QED
  BY <1>1, <1>2, <1>3 DEF Next, RequestFails, Crash, vars

\* Before any request the invariant of the two services holds.
LEMMA PipelineInit_Inv == PipelineInit => PipelineInv
<1> SUFFICES ASSUME PipelineInit PROVE IndInv /\ WorkerInv
  BY DEF PipelineInv
<1>1. IndInv
  BY InitIndInv DEF PipelineInit
<1>2. backlog = 0 /\ fetched \in 0 .. backlog
  BY DEF PipelineInit, Init
<1>3. QED
  BY <1>1, <1>2 DEF PipelineInit, WorkerInv

\* A step of the worker that changes the state it shares with ingestion.
LEMMA WorkerKeepsIndInv ==
    ASSUME PipelineInv, WorkerStep
    PROVE  IndInv'
<1> USE BacklogAssumption DEF PipelineInv, WorkerInv, IndInv, ControlInv, BytesInv, TypeOK,
        IdIsPrivate, CleanersAreEntitled, ChunkBeforeRow, ReceivedPartsExist, StatusReport,
        NoOrphanRows, HandlersHoldTheFile, ConformingClients
<1>1. CASE ReadMessage
  BY <1>1 DEF ReadMessage
<1>2. CASE MarkReady
  BY <1>2 DEF MarkReady, UpdateStatus
<1>3. CASE Notify
  BY <1>3 DEF Notify, vars
<1>4. QED
  BY <1>1, <1>2, <1>3 DEF WorkerStep

\* Every step of either service preserves it.
LEMMA PipelineInvStep == PipelineInv /\ [PipelineNext]_pipelineVars => PipelineInv'
<1> SUFFICES ASSUME PipelineInv, [PipelineNext]_pipelineVars PROVE IndInv' /\ WorkerInv'
  BY DEF PipelineInv
<1> USE BacklogAssumption DEF PipelineInv
<1>1. CASE IngestionStep
  <2>1. IndInv'
    BY <1>1, IndInvStep DEF IngestionStep
  <2>2. WorkerInv'
    <3>1. fetched' \in 0 .. backlog'
      BY <1>1, IngestionKeeps DEF IngestionStep, WorkerInv, workerVars, IndInv, ControlInv, TypeOK
    <3>2. worker' = "handling" => status' # "uploading" /\ fileID' # "unissued"
      BY <1>1, StatusStaysPast DEF IngestionStep, WorkerInv, workerVars
    <3>3. QED
      BY <1>1, <3>1, <3>2, IngestionKeeps
      DEF IngestionStep, WorkerInv, workerVars, ConformingClients, WholeFile
  <2>3. QED
    BY <2>1, <2>2
<1>2. CASE WorkerStep
  <2>1. IndInv'
    BY <1>2, WorkerKeepsIndInv
  <2>2. backlog \in Nat /\ (backlog > 0 => status # "uploading" /\ fileID # "unissued")
    BY DEF IndInv, ControlInv, IdIsPrivate, CleanersAreEntitled, TypeOK
  <2>3. fetched' \in 0 .. backlog'
    BY <1>2, <2>2 DEF WorkerStep, ReadMessage, MarkReady, Notify, WorkerInv, vars
  <2>4. worker' = "handling" => status' # "uploading" /\ fileID' # "unissued"
    BY <1>2, <2>2 DEF WorkerStep, ReadMessage, MarkReady, Notify, WorkerInv, vars
  <2>5. ConformingClients /\ (worker' \in {"handling", "notify"} \/ announced') =>
            object' = WholeFile
    BY <1>2, <2>2 DEF WorkerStep, ReadMessage, MarkReady, Notify, WorkerInv, vars, IndInv,
       BytesInv
  <2>6. QED
    BY <1>2, <2>1, <2>3, <2>4, <2>5 DEF WorkerStep, ReadMessage, MarkReady, Notify, WorkerInv,
       ConformingClients, WholeFile
<1>3. CASE WorkerFault
  <2>1. UNCHANGED vars
    BY <1>3 DEF WorkerFault, SkipMessage, HandlerFails, WorkerCrash, WorkerRestart
  <2>2. IndInv'
    BY <2>1, IndInvStep
  <2>3. backlog \in Nat
    BY DEF IndInv, ControlInv, TypeOK
  <2>4. WorkerInv'
    BY <1>3, <2>1, <2>3 DEF WorkerFault, SkipMessage, HandlerFails, WorkerCrash, WorkerRestart,
       WorkerInv, vars, ConformingClients
  <2>5. QED
    BY <2>2, <2>4
<1>4. CASE UNCHANGED pipelineVars
  <2>1. IndInv'
    BY <1>4, IndInvStep DEF pipelineVars
  <2>2. WorkerInv'
    BY <1>4 DEF pipelineVars, workerVars, vars, WorkerInv, ConformingClients
  <2>3. QED
    BY <2>1, <2>2
<1>5. QED
  BY <1>1, <1>2, <1>3, <1>4 DEF PipelineNext

\* PipelineInv is an invariant of the pipeline.
LEMMA PipelineInductive == PipelineSpec => []PipelineInv
BY PipelineInit_Inv, PipelineInvStep, PTL DEF PipelineSpec

------------------------------------------------------------------------------
\* The state of service and worker stays well-typed.
THEOREM PipelineTypeCorrect == PipelineSpec => []PipelineTypeOK
<1>1. PipelineInv => PipelineTypeOK
  BY DEF PipelineInv, WorkerInv, IndInv, ControlInv, PipelineTypeOK
<1>2. QED
  BY <1>1, PipelineInductive, PTL

\* With the worker in the picture a file is stored, ready, or announced only
\* when all its bytes are in object storage, and so is one with an unread event.
THEOREM ReadyFilesAreWhole ==
    PipelineSpec => [](StoredIsWhole /\ EventIsBacked /\ AnnouncedIsWhole)
<1>1. PipelineInv => StoredIsWhole /\ EventIsBacked /\ AnnouncedIsWhole
  BY DEF PipelineInv, WorkerInv, IndInv, ControlInv, CleanersAreEntitled, BytesInv,
     StoredIsWhole, EventIsBacked, AnnouncedIsWhole
<1>2. QED
  BY <1>1, PipelineInductive, PTL

------------------------------------------------------------------------------
(* The refinement.                                                         *)

\* The initial state of the pipeline is the initial state of a file's life.
LEMMA InitRefines == ASSUME ConformingClients, PipelineInit PROVE Life!Init
BY PartsAssumption DEF PipelineInit, Init, Life!Init, LifePhase, LifeBytes, NoObject, WholeFile

\* A step of ingestion is a step of the file's life, or changes nothing of it.
LEMMA IngestionRefines ==
    ASSUME ConformingClients, IndInv, [Next]_vars
    PROVE  Life!Next \/ UNCHANGED Life!lifeVars
<1> DEFINE Goal == Life!Next \/ UNCHANGED Life!lifeVars
<1> USE DEF IndInv, ControlInv, TypeOK, IdIsPrivate, CleanersAreEntitled, BytesInv,
        HandlersHoldTheFile, LifePhase, LifeBytes, Life!lifeVars, WholeFile
<1>1. ASSUME NEW r \in Reqs, InitUpload(r) PROVE Goal
  BY <1>1 DEF InitUpload, Life!Next, Life!Open
<1>2. ASSUME NEW r \in Reqs, UploadPut(r) \/ CompletePut(r) PROVE Goal
  <2>1. object' = 1 .. TotalParts
    BY <1>2 DEF UploadPut, CompletePut
  <2>2. QED
    BY <1>2, <2>1 DEF UploadPut, CompletePut, Life!Next, Life!Land
<1>3. ASSUME NEW r \in Reqs, RegisterUpload(r) \/ CompleteStore(r) PROVE Goal
  BY <1>3 DEF RegisterUpload, CompleteStore, UpdateStatus, Life!Next, Life!Store
<1>4. ASSUME NEW r \in Reqs, AbortBegin(r) PROVE Goal
  BY <1>4 DEF AbortBegin, Found
<1>5. ASSUME NEW r \in Reqs, AbortDelete(r) PROVE Goal
  BY <1>5 DEF AbortDelete, Life!Next, Life!Delete
<1>6. CASE UNCHANGED <<status, object, aborting>>
  BY <1>6
<1>7. QED
  BY <1>1, <1>2, <1>3, <1>4, <1>5, <1>6 DEF Next, HandlerStep, Arrival, PartBegin,
     CompleteBegin, InitReply, PartPut, PartSave, CompleteList, CompleteRead, DeletePart,
     ForgetParts, Publish, AbortList, RequestFails, Crash, vars

\* So is every step of the pipeline.
LEMMA StepRefines ==
    ASSUME ConformingClients, PipelineInv, [PipelineNext]_pipelineVars
    PROVE  [Life!Next]_(Life!lifeVars)
<1>1. CASE IngestionStep
  BY <1>1, IngestionRefines DEF IngestionStep, PipelineInv
<1>2. CASE MarkReady
  <2>1. object = WholeFile /\ status \in {"absent", "stored", "ready"}
    BY <1>2 DEF MarkReady, PipelineInv, WorkerInv, IndInv, ControlInv, TypeOK
  <2>2. CASE status = "absent"
    BY <1>2, <2>2 DEF MarkReady, UpdateStatus, Life!lifeVars, LifePhase, LifeBytes, WholeFile
  <2>3. CASE status # "absent"
    BY <1>2, <2>1, <2>3 DEF MarkReady, UpdateStatus, Life!Next, Life!MakeReady, LifePhase,
       LifeBytes, WholeFile
  <2>4. QED
    BY <2>2, <2>3
<1>3. CASE UNCHANGED <<status, object, aborting>>
  BY <1>3 DEF Life!lifeVars, LifePhase, LifeBytes, WholeFile
<1>4. QED
  BY <1>1, <1>2, <1>3 DEF PipelineNext, WorkerStep, WorkerFault, ReadMessage, Notify,
     SkipMessage, HandlerFails, WorkerCrash, WorkerRestart, pipelineVars, vars

\* As long as clients number their parts 1..TotalParts, the two services
\* implement FileLifecycle, whatever fails.
THEOREM PipelineImplementsLifecycle ==
    ASSUME ConformingClients
    PROVE  PipelineSpec => LifecycleSpec
<1>1. PipelineInit => Life!Init
  BY InitRefines
<1>2. PipelineInv /\ [PipelineNext]_pipelineVars => [Life!Next]_(Life!lifeVars)
  BY StepRefines
<1>3. QED
  BY <1>1, <1>2, PipelineInductive, PTL DEF PipelineSpec, LifecycleSpec, Life!Spec

------------------------------------------------------------------------------
(* Without failures nothing is forgotten.                                  *)

NoSkips == fetched = 0 /\ StoredIsPending

\* Without faults no step of ingestion leaves a stored file with nobody to ready it.
LEMMA PendingIngestion ==
    ASSUME Faults = {}, PipelineInv, NoSkips, IngestionStep
    PROVE  NoSkips'
<1> USE DEF NoSkips, StoredIsPending, WorkPending, IngestionStep, workerVars, PipelineInv,
        IndInv, ControlInv, TypeOK, Steps, GoTo, SetParts, Return
<1>1. ASSUME NEW r \in Reqs, Publish(r) PROVE NoSkips'
  BY <1>1 DEF Publish
<1>2. ASSUME NEW r \in Reqs, RegisterUpload(r) \/ CompleteStore(r) \/ ForgetParts(r)
      PROVE  NoSkips'
  <2>1. CASE pc'[r] = "publish" \/ pc'[r] = "complete_clean"
    BY <2>1
  <2>2. CASE pc[r] = "abort_clean"
    <3>1. ForgetParts(r) /\ \A q \in Reqs : q # r => pc'[q] = pc[q]
      BY <1>2, <2>2 DEF RegisterUpload, CompleteStore, ForgetParts
    <3>2. UNCHANGED <<status, backlog>>
      BY <3>1 DEF ForgetParts
    <3>3. QED
      BY <2>2, <3>1, <3>2
  <2>3. QED
    BY <1>2, <2>1, <2>2 DEF RegisterUpload, CompleteStore, ForgetParts
<1>3. ASSUME NEW r \in Reqs, UNCHANGED backlog, status' = "stored" => status = "stored",
             pc[r] \notin {"complete_clean", "publish"},
             \A q \in Reqs \ {r} : pc'[q] = pc[q]
      PROVE  NoSkips'
  BY <1>3
<1>4. ASSUME NEW r \in Reqs, DeletePart(r) PROVE NoSkips'
  BY <1>4 DEF DeletePart
<1>5. ASSUME NEW r \in Reqs, HandlerStep(r) PROVE NoSkips'
  BY <1>1, <1>2, <1>3, <1>4, <1>5 DEF HandlerStep, InitReply, PartPut, PartSave, CompleteList,
     CompleteRead, CompletePut, AbortList, AbortDelete
<1>6. ASSUME NEW r \in Reqs, Arrival(r) PROVE NoSkips'
  BY <1>3, <1>6 DEF Arrival, InitUpload, UploadPut, PartBegin, CompleteBegin, AbortBegin, Found
<1>7. QED
  BY <1>5, <1>6 DEF Next, RequestFails, Crash

\* Nor does any step of the pipeline.
LEMMA PendingStep ==
    ASSUME Faults = {}, PipelineInv, NoSkips, [PipelineNext]_pipelineVars
    PROVE  NoSkips'
<1> USE DEF NoSkips, StoredIsPending, WorkPending
<1>1. CASE IngestionStep
  BY <1>1, PendingIngestion
<1>2. CASE WorkerStep
  BY <1>2 DEF WorkerStep, ReadMessage, MarkReady, Notify, UpdateStatus, vars
<1>3. CASE WorkerRestart
  BY <1>3 DEF WorkerRestart, vars
<1>4. CASE UNCHANGED pipelineVars
  BY <1>4 DEF pipelineVars, workerVars, vars
<1>5. QED
  BY <1>1, <1>2, <1>3, <1>4 DEF PipelineNext, WorkerFault, SkipMessage, HandlerFails, WorkerCrash

\* As long as nothing fails, between any two steps of the two services somebody
\* is still going to make a stored file ready.
THEOREM StoredFilesArePending ==
    ASSUME Faults = {}
    PROVE  PipelineSpec => []StoredIsPending
<1>1. PipelineInit => NoSkips
  BY DEF PipelineInit, Init, NoSkips, StoredIsPending
<1>2. PipelineInv /\ NoSkips /\ [PipelineNext]_pipelineVars => NoSkips'
  BY PendingStep
<1>3. NoSkips => StoredIsPending
  BY DEF NoSkips
<1>4. QED
  BY <1>1, <1>2, <1>3, PipelineInductive, PTL DEF PipelineSpec
=============================================================================
