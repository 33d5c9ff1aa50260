------------------------ MODULE ResumableUploadProofs ------------------------
(***************************************************************************)
(* The resumable client is one of the clients Ingestion reckons with, so   *)
(* that all that is proved of the service holds under it, for any number   *)
(* of requests at once, of parts and of failures.  Of the client itself:   *)
(* it waits for one handler that is at work, or for none, and what it is   *)
(* told at the end is true.                                                *)
(***************************************************************************)
EXTENDS ResumableUpload, IngestionProofs

\* The client waits for a handler of the kind it asked for, and that one is at work.
Serving(r) ==
    \/ client = "initiating" /\ pc[r] = "init_reply"
    \/ client = "putting" /\ pc[r] \in {"part_put", "part_save"}
    \/ client = "completing" /\
        pc[r] \in {"complete_list", "complete_read", "complete_store", "complete_clean", "publish"}

ClientInv ==
    /\ client \in Waiting \cup {"new", "sending", "asking", "done", "lost"}
    /\ IF client \in Waiting THEN \E r \in Reqs : mine = {r} /\ Serving(r) ELSE mine = {}
    /\ want \subseteq WholeFile
    /\ failures \in 0 .. MaxFailures

\* Nobody aborts, nobody uploads in one request, and no worker is there.
OnlyThisClient ==
    /\ ~aborting
    /\ \A r \in Reqs : pc[r] \notin {"upload_register", "abort_list", "abort_clean", "abort_delete"}
    /\ fileID = "unissued" <=> status = "absent"
    /\ status # "ready"

DoneIsDone == client = "done" => status = "stored"

UploadInv == IndInv /\ ClientInv /\ OnlyThisClient /\ DoneIsDone

\* A client that was told that its upload is complete finds all of its bytes stored,
\* also while handlers it gave up are still completing the file again.
ToldIsTrue == client = "done" => status = "stored" /\ object = WholeFile

------------------------------------------------------------------------------
(* The client is legal.                                                    *)

\* Whatever the client does, the service sees requests, answers and failures of its own.
LEMMA LegalStep == [UploadNext]_uploadVars => [Next]_vars
<1> SUFFICES ASSUME [UploadNext]_uploadVars PROVE [Next]_vars
  OBVIOUS
<1>1. ASSUME NEW r \in Reqs, Initiate(r) \/ SendPart(r) \/ Complete(r) PROVE Next
  <2>1. Arrival(r)
    BY <1>1 DEF Initiate, SendPart, Complete, Arrival
  <2>2. QED
    BY <2>1 DEF Next
<1>2. ASSUME NEW r \in Reqs, HandlerGoesOn(r) \/ HandlerFails(r) PROVE Next
  BY <1>2 DEF HandlerGoesOn, HandlerFails, Next
<1>3. CASE AskStatus \/ GiveUp
  BY <1>3 DEF AskStatus, GiveUp
<1>4. CASE ServiceDies
  BY <1>4 DEF ServiceDies, Next
<1>5. CASE UNCHANGED uploadVars
  BY <1>5 DEF uploadVars
<1>6. QED
  BY <1>1, <1>2, <1>3, <1>4, <1>5 DEF UploadNext, ClientStep

\* Every run of the client and the service is a run of the service as Ingestion
\* specifies it: initiate before parts, parts before complete, one at a time, is one of the
\* ways its requests may come.
THEOREM TheClientIsLegal == UploadSpec => Spec
<1>1. UploadInit => Init
  BY DEF UploadInit
<1>2. QED
  BY <1>1, LegalStep, PTL DEF UploadSpec, Spec

------------------------------------------------------------------------------
(* What the client waits for.                                              *)

\* A handler stays at what it was asked to do until it has answered, and
\* leaves the other handlers where they are.
LEMMA HandlerKeepsAtIt ==
    ASSUME TypeOK, NEW r \in Reqs, HandlerStep(r)
    PROVE  /\ \A q \in Reqs : q # r => pc'[q] = pc[q]
           /\ pc'[r] # "idle" =>
                /\ pc[r] \in {"part_put", "part_save"} <=> pc'[r] \in {"part_put", "part_save"}
                /\ pc[r] # "init_reply"
                /\ pc[r] \in {"complete_list", "complete_read", "complete_store",
                              "complete_clean", "publish"} =>
                   pc'[r] \in {"complete_list", "complete_read", "complete_store",
                               "complete_clean", "publish"}
<1> USE DEF TypeOK, Steps, GoTo, Return
<1>1. pc \in [Reqs -> Steps]
  OBVIOUS
<1>2. CASE InitReply(r) \/ PartPut(r) \/ PartSave(r)
  BY <1>1, <1>2 DEF InitReply, PartPut, PartSave
<1>3. CASE CompleteList(r) \/ CompleteRead(r) \/ CompletePut(r) \/ CompleteStore(r)
  BY <1>1, <1>3 DEF CompleteList, CompleteRead, CompletePut, CompleteStore
<1>4. CASE DeletePart(r)
  BY <1>1, <1>4 DEF DeletePart
<1>5. CASE ForgetParts(r)
  BY <1>1, <1>5 DEF ForgetParts
<1>6. CASE Publish(r) \/ RegisterUpload(r) \/ AbortList(r) \/ AbortDelete(r)
  BY <1>1, <1>6 DEF Publish, RegisterUpload, AbortList, AbortDelete
<1>7. QED
  BY <1>2, <1>3, <1>4, <1>5, <1>6 DEF HandlerStep

\* Taking an answer: the client waits for nobody and has an idea of what to do.
LEMMA AnswerTaken ==
    ASSUME ClientInv, NEW r \in Reqs, UNCHANGED failures \/ OneFailure,
           (Accepted(r) /\ UNCHANGED failures) \/ NotAccepted \/ CompletionRefused
    PROVE  ClientInv'
<1>1. mine' = {} /\ client' \in {"done", "sending", "lost", "asking"}
  BY DEF Accepted, NotAccepted, CompletionRefused
<1>2. want' \subseteq WholeFile
  BY DEF Accepted, NotAccepted, CompletionRefused, ClientInv
<1>3. failures' \in 0 .. MaxFailures
  BY UploadAssumption DEF OneFailure, ClientInv
<1>4. QED
  BY <1>1, <1>2, <1>3 DEF ClientInv, Waiting, WholeFile

\* A handler that the client waits for is moved by nobody but itself, and not even the
\* client can lose track of it.
LEMMA ClientInvStep ==
    ASSUME TypeOK, ClientInv, [UploadNext]_uploadVars
    PROVE  ClientInv'
<1>1. ASSUME NEW r \in Reqs, UNCHANGED <<client, mine, want, failures>>,
             \A q \in Reqs : q # r => pc'[q] = pc[q],
             r \in mine => (Serving(r) => Serving(r)')
      PROVE  ClientInv'
  BY <1>1 DEF ClientInv, Serving, WholeFile
<1>2. ASSUME NEW r \in Reqs, Initiate(r) PROVE ClientInv'
  <2>1. pc'[r] = "init_reply"
    BY <1>2 DEF Initiate, InitUpload, GoTo, TypeOK
  <2>2. client' = "initiating" /\ mine' = {r} /\ UNCHANGED <<want, failures>>
    BY <1>2 DEF Initiate, WaitFor
  <2>3. QED
    BY <2>1, <2>2 DEF ClientInv, Serving, Waiting, WholeFile
<1>3. ASSUME NEW r \in Reqs, SendPart(r) PROVE ClientInv'
  <2>1. pc'[r] = "part_put"
    BY <1>3 DEF SendPart, PartBegin, GoTo, TypeOK
  <2>2. client' = "putting" /\ mine' = {r} /\ UNCHANGED <<want, failures>>
    BY <1>3 DEF SendPart, WaitFor
  <2>3. QED
    BY <2>1, <2>2 DEF ClientInv, Serving, Waiting, WholeFile
<1>4. ASSUME NEW r \in Reqs, Complete(r) PROVE ClientInv'
  <2>1. pc'[r] = "complete_list"
    BY <1>4 DEF Complete, CompleteBegin, GoTo, TypeOK
  <2>2. client' = "completing" /\ mine' = {r} /\ UNCHANGED <<want, failures>>
    BY <1>4 DEF Complete, WaitFor
  <2>3. QED
    BY <2>1, <2>2 DEF ClientInv, Serving, Waiting, WholeFile
<1>5. CASE AskStatus
  BY <1>5 DEF AskStatus, StatusReport, ClientInv, Waiting, WholeFile
<1>6. ASSUME NEW r \in Reqs, HandlerGoesOn(r) PROVE ClientInv'
  <2>1. HandlerStep(r)
    BY <1>6 DEF HandlerGoesOn
  <2>2. CASE r \in mine /\ pc'[r] = "idle"
    <3>1. UNCHANGED failures /\ (Accepted(r) \/ CompletionRefused)
      BY <1>6, <2>2 DEF HandlerGoesOn, Accepted
    <3>2. QED
      BY <3>1, AnswerTaken
  <2>3. CASE ~(r \in mine /\ pc'[r] = "idle")
    <3>1. UNCHANGED <<client, mine, want, failures>>
      BY <1>6, <2>3 DEF HandlerGoesOn, clientVars
    <3>2. r \in mine => (Serving(r) => Serving(r)')
      BY <2>1, <2>3, <3>1, HandlerKeepsAtIt DEF Serving
    <3>3. QED
      BY <1>1, <2>1, <3>1, <3>2, HandlerKeepsAtIt
  <2>4. QED
    BY <2>2, <2>3
<1>7. ASSUME NEW r \in Reqs, HandlerFails(r) PROVE ClientInv'
  <2>1. CASE r \in mine
    BY <1>7, <2>1, AnswerTaken DEF HandlerFails
  <2>2. CASE r \notin mine
    <3>1. UNCHANGED <<client, mine, want, failures>>
      BY <1>7, <2>2 DEF HandlerFails, clientVars
    <3>2. \A q \in Reqs : q # r => pc'[q] = pc[q]
      BY <1>7 DEF HandlerFails, RequestFails, Return, GoTo, TypeOK
    <3>3. QED
      BY <1>1, <2>2, <3>1, <3>2
  <2>3. QED
    BY <2>1, <2>2
<1>8. CASE GiveUp
  BY <1>8, AnswerTaken, ReqsAssumption DEF GiveUp
<1>9. CASE ServiceDies
  <2>1. CASE mine # {}
    BY <1>9, <2>1, AnswerTaken, ReqsAssumption DEF ServiceDies
  <2>2. CASE mine = {}
    <3>1. UNCHANGED <<client, mine, want>> /\ OneFailure
      BY <1>9, <2>2 DEF ServiceDies
    <3>2. failures' \in 0 .. MaxFailures
      BY <3>1, UploadAssumption DEF OneFailure, ClientInv
    <3>3. client \notin Waiting
      BY <2>2 DEF ClientInv
    <3>4. QED
      BY <2>2, <3>1, <3>2, <3>3 DEF ClientInv, Waiting, WholeFile
  <2>3. QED
    BY <2>1, <2>2
<1>10. CASE UNCHANGED uploadVars
  BY <1>10 DEF uploadVars, clientVars, vars, ClientInv, Serving, WholeFile
<1>11. QED
  BY <1>2, <1>3, <1>4, <1>5, <1>6, <1>7, <1>8, <1>9, <1>10 DEF UploadNext, ClientStep

------------------------------------------------------------------------------
(* What the client is told.                                                *)

\* Without DELETE, one-shot uploads and workers a row, once there, is there for good.
LEMMA OnlyThisClientStep ==
    ASSUME ControlInv, OnlyThisClient, [UploadNext]_uploadVars
    PROVE  OnlyThisClient'
<1> USE DEF ControlInv, TypeOK, IdIsPrivate, OnlyThisClient, GoTo, Return
<1>1. ASSUME NEW r \in Reqs, HandlerStep(r) PROVE OnlyThisClient'
  <2>1. CASE InitReply(r) \/ PartPut(r) \/ PartSave(r)
    BY <2>1 DEF InitReply, PartPut, PartSave
  <2>2. CASE CompleteList(r) \/ CompleteRead(r) \/ CompletePut(r)
    <3>1. UNCHANGED <<fileID, status, aborting>>
      BY <2>2 DEF CompleteList, CompleteRead, CompletePut
    <3>2. \A q \in Reqs : pc'[q] \in {pc[q], "idle", "complete_read", "complete_store"}
      <4>1. pc \in [Reqs -> Steps]
        OBVIOUS
      <4>2. QED
        BY <2>2, <4>1 DEF CompleteList, CompleteRead, CompletePut
    <3>3. QED
      BY <3>1, <3>2
  <2>3. CASE CompleteStore(r)
    BY <2>3 DEF CompleteStore, UpdateStatus
  <2>4. CASE DeletePart(r) \/ ForgetParts(r) \/ Publish(r)
    BY <2>4 DEF DeletePart, ForgetParts, Publish
  <2>5. CASE RegisterUpload(r) \/ AbortList(r) \/ AbortDelete(r)
    BY <2>5 DEF RegisterUpload, AbortList, AbortDelete
  <2>6. QED
    BY <1>1, <2>1, <2>2, <2>3, <2>4, <2>5 DEF HandlerStep
<1>2. ASSUME NEW r \in Reqs, RequestFails(r) PROVE OnlyThisClient'
  BY <1>2 DEF RequestFails
<1>3. ASSUME NEW r \in Reqs, InitUpload(r) \/ PartBegin(r) \/ CompleteBegin(r)
      PROVE  OnlyThisClient'
  BY <1>3 DEF InitUpload, PartBegin, CompleteBegin, Found
<1>4. CASE Crash
  BY <1>4 DEF Crash
<1>5. CASE UNCHANGED vars
  BY <1>5 DEF vars
<1>6. QED
  BY <1>1, <1>2, <1>3, <1>4, <1>5 DEF UploadNext, ClientStep, Initiate, SendPart, Complete,
     AskStatus, HandlerGoesOn, HandlerFails, GiveUp, ServiceDies, uploadVars

\* The client learns of a completion from the handler that published it, and a
\* handler publishes what it has stored.
LEMMA DoneStep ==
    ASSUME ControlInv, ClientInv, OnlyThisClient, DoneIsDone, [UploadNext]_uploadVars
    PROVE  DoneIsDone'
<1>1. OnlyThisClient'
  BY OnlyThisClientStep
<1>2. StatusMoves
  BY LegalStep, StatusStep DEF StatusMoves, vars
<1>3. fileID # "unissued" => fileID' # "unissued"
  <2>1. [Next]_vars
    BY LegalStep
  <2>2. QED
    BY <2>1 DEF Next, HandlerStep, Arrival, RequestFails, Crash, vars, InitReply,
       RegisterUpload, PartPut, PartSave, CompleteList, CompleteRead, CompletePut, CompleteStore,
       DeletePart, ForgetParts, Publish, AbortList, AbortDelete, InitUpload, UploadPut,
       PartBegin, CompleteBegin, AbortBegin
<1>4. CASE client = "done" /\ status = "stored"
  <2>1. status' \in {"absent", "uploading", "stored", "ready"}
    BY TypeStep, LegalStep DEF ControlInv, TypeOK
  <2>2. status' # "uploading"
    BY <1>2, <1>4 DEF StatusMoves
  <2>3. status' # "absent" /\ status' # "ready"
    BY <1>1, <1>3, <1>4 DEF OnlyThisClient
  <2>4. QED
    BY <2>1, <2>2, <2>3 DEF DoneIsDone
<1>5. ASSUME NEW r \in Reqs, HandlerGoesOn(r), client # "done", client' = "done"
      PROVE  status' = "stored"
  <2>1. r \in mine /\ Succeeds(r) /\ client = "completing"
    BY <1>5 DEF HandlerGoesOn, Accepted, CompletionRefused, NotAccepted, clientVars
  <2>2. Serving(r)
    BY <2>1 DEF ClientInv, Waiting
  <2>3. pc[r] = "publish"
    BY <2>1, <2>2 DEF Serving, Succeeds
  <2>4. status = "stored"
    <3>1. status # "uploading"
      BY <2>3 DEF ControlInv, CleanersAreEntitled
    <3>2. status # "absent" /\ status # "ready"
      BY <2>3 DEF ControlInv, IdIsPrivate, OnlyThisClient
    <3>3. QED
      BY <3>1, <3>2 DEF ControlInv, TypeOK
  <2>5. UNCHANGED status
    BY <1>5, <2>3 DEF HandlerGoesOn, HandlerStep, InitReply, RegisterUpload, PartPut, PartSave,
       CompleteList, CompleteRead, CompletePut, CompleteStore, DeletePart, ForgetParts, Publish,
       AbortList, AbortDelete
  <2>6. QED
    BY <2>4, <2>5
<1>6. ASSUME client # "done", client' = "done"
      PROVE  \E r \in Reqs : HandlerGoesOn(r)
  BY <1>6 DEF UploadNext, ClientStep, Initiate, SendPart, Complete, WaitFor, AskStatus,
     HandlerFails, GiveUp, ServiceDies, CompletionRefused, NotAccepted, uploadVars, clientVars
<1>7. QED
  BY <1>4, <1>5, <1>6 DEF DoneIsDone

\* Before the first request.
LEMMA InitUploadInv == UploadInit => UploadInv
<1> SUFFICES ASSUME UploadInit PROVE UploadInv
  OBVIOUS
<1>1. IndInv
  BY InitIndInv DEF UploadInit
<1>2. ClientInv
  BY UploadAssumption DEF UploadInit, ClientInv, Waiting
<1>3. OnlyThisClient /\ DoneIsDone
  BY DEF UploadInit, Init, OnlyThisClient, DoneIsDone
<1>4. QED
  BY <1>1, <1>2, <1>3 DEF UploadInv

\* UploadInv is an invariant of the client with the service.
LEMMA UploadInductive == UploadSpec => []UploadInv
<1>1. UploadInv /\ [UploadNext]_uploadVars => UploadInv'
  <2> SUFFICES ASSUME UploadInv, [UploadNext]_uploadVars PROVE UploadInv'
    OBVIOUS
  <2>1. IndInv'
    BY LegalStep, IndInvStep DEF UploadInv
  <2>2. ControlInv /\ TypeOK
    BY DEF UploadInv, IndInv, ControlInv
  <2>3. ClientInv' /\ OnlyThisClient' /\ DoneIsDone'
    BY <2>2, ClientInvStep, OnlyThisClientStep, DoneStep DEF UploadInv
  <2>4. QED
    BY <2>1, <2>3 DEF UploadInv
<1>2. QED
  BY <1>1, InitUploadInv, PTL DEF UploadSpec

------------------------------------------------------------------------------
\* The client waits for one handler that is at work, or for none.
THEOREM UploadTypeCorrect == UploadSpec => []UploadTypeOK
<1>1. UploadInv => UploadTypeOK
  <2> SUFFICES ASSUME UploadInv PROVE UploadTypeOK
    OBVIOUS
  <2>1. TypeOK /\ ClientInv
    BY DEF UploadInv, IndInv, ControlInv
  <2>2. \A r \in Reqs : Serving(r) => pc[r] # "idle"
    BY DEF Serving
  <2>3. mine \subseteq Reqs
    BY <2>1 DEF ClientInv
  <2>4. QED
    BY <2>1, <2>2, <2>3 DEF UploadTypeOK, ClientInv
<1>2. QED
  BY <1>1, UploadInductive, PTL

\* A client that was told that its upload is complete finds the file stored with all
\* of its bytes, whatever failed on the way and whatever the handlers that it gave up do later.
THEOREM CompleteMeansComplete ==
    ASSUME ConformingClients PROVE UploadSpec => []ToldIsTrue
<1>1. UploadInv => ToldIsTrue
  BY DEF UploadInv, IndInv, BytesInv, DoneIsDone, ToldIsTrue
<1>2. QED
  BY <1>1, UploadInductive, PTL
=============================================================================
