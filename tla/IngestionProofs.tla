--------------------------- MODULE IngestionProofs ---------------------------
(***************************************************************************)
(* The safety properties of Ingestion, for every set of requests, every    *)
(* number of parts and every combination of faults.                        *)
(*                                                                         *)
(* None of them is inductive: each rests on what a handler that is still   *)
(* running has already done.  IndInv collects those facts, first the ones  *)
(* that hold of any client, then the ones about bytes, which assume that   *)
(* clients number their parts 1..TotalParts.                               *)
(***************************************************************************)
EXTENDS Ingestion, FiniteSetTheorems, TLAPS

\* Nobody but the handler that drew the id knows it before it is told.
IdIsPrivate ==
    /\ fileID = "unissued" =>
        /\ status = "absent"
        /\ backlog = 0
        /\ \A r \in Reqs : pc[r] = "idle"
    /\ fileID # "told" => ~aborting
    /\ \A r \in Reqs : pc[r] \in {"init_reply", "upload_register"} =>
        /\ fileID = "issued"
        /\ \A q \in Reqs \ {r} : pc[q] = "idle"
    /\ \A r \in Reqs : pc[r] = "upload_register" => status = "absent"

\* Who deletes chunks: a completion whose file is stored, or an abort.  And who
\* publishes: a handler whose file is stored.
CleanersAreEntitled ==
    /\ \A r \in Reqs : pc[r] \in {"complete_clean", "publish"} => status # "uploading"
    /\ backlog > 0 => status # "uploading"
    /\ \A r \in Reqs :
        pc[r] \in {"abort_list", "abort_clean", "abort_delete"} => aborting

\* A chunk is in MinIO when its handler goes on to record it.
ChunkBeforeRow ==
    \A r \in Reqs :
        pc[r] = "part_save" /\ status = "uploading" /\ ~aborting =>
            todo[r] \subseteq partObjs

ControlInv ==
    /\ TypeOK
    /\ IdIsPrivate
    /\ CleanersAreEntitled
    /\ ChunkBeforeRow
    /\ ReceivedPartsExist
    /\ NoOrphanRows

\* What a handler has read and put so far.
HandlersHoldTheFile ==
    \A r \in Reqs :
        /\ pc[r] = "complete_read" => todo[r] \cup done[r] = WholeFile
        /\ pc[r] \in {"upload_register", "complete_store", "complete_clean", "publish"} =>
              object = WholeFile
        /\ pc[r] = "part_save" /\ ~aborting =>
              todo[r] \subseteq partObjs \/ object = WholeFile

BytesInv ==
    /\ object \in {NoObject, WholeFile}
    /\ HandlersHoldTheFile
    /\ status \in {"stored", "ready"} => object = WholeFile
    /\ backlog > 0 => object = WholeFile
    /\ ~aborting => \A n \in partRows : n \in partObjs \/ object = WholeFile

IndInv == ControlInv /\ (ConformingClients => BytesInv)

------------------------------------------------------------------------------
\* A listing with as many rows as the file has parts, all of them numbered as
\* they should be, is the whole file.
LEMMA FullListing ==
    ASSUME ConformingClients, NEW rows, rows \subseteq PartNumbers, AllPartsReceived(rows)
    PROVE  rows = WholeFile
<1>1. IsFiniteSet(WholeFile) /\ Cardinality(WholeFile) = TotalParts
  BY FS_Interval, PartsAssumption DEF WholeFile
<1>2. rows \subseteq WholeFile
  BY DEF ConformingClients
<1>3. QED
  BY <1>1, <1>2, FS_Subset DEF AllPartsReceived

\* Before any request the invariant holds.
LEMMA InitIndInv == Init => IndInv
<1> SUFFICES ASSUME Init PROVE IndInv
  OBVIOUS
<1> USE DEF Init
<1>1. TypeOK
  <2>1. pc \in [Reqs -> Steps]
    BY DEF Steps
  <2>2. todo \in [Reqs -> SUBSET PartNumbers] /\ done \in [Reqs -> SUBSET PartNumbers]
    OBVIOUS
  <2>3. backlog \in 0 .. MaxBacklog
    BY BacklogAssumption
  <2>4. QED
    BY <2>1, <2>2, <2>3 DEF TypeOK
<1>2. IdIsPrivate /\ CleanersAreEntitled /\ ChunkBeforeRow
  BY DEF IdIsPrivate, CleanersAreEntitled, ChunkBeforeRow
<1>3. ReceivedPartsExist /\ NoOrphanRows
  BY DEF ReceivedPartsExist, NoOrphanRows
<1>4. BytesInv
  BY DEF BytesInv, HandlersHoldTheFile
<1>5. QED
  BY <1>1, <1>2, <1>3, <1>4 DEF IndInv, ControlInv

\* Every step of the service keeps its state well-typed.
LEMMA TypeStep == TypeOK /\ [Next]_vars => TypeOK'
<1> SUFFICES ASSUME TypeOK, [Next]_vars PROVE TypeOK'
  OBVIOUS
<1> USE PartsAssumption, BacklogAssumption DEF TypeOK, Steps, GoTo, SetParts, Return
<1>1. ASSUME NEW r \in Reqs, HandlerStep(r) PROVE TypeOK'
  <2>1. CASE InitReply(r)
    BY <2>1 DEF InitReply
  <2>2. CASE RegisterUpload(r)
    BY <2>2 DEF RegisterUpload
  <2>3. CASE PartPut(r)
    BY <2>3 DEF PartPut
  <2>4. CASE PartSave(r)
    BY <2>4 DEF PartSave, SavePartRow
  <2>5. CASE CompleteList(r)
    BY <2>5 DEF CompleteList
  <2>6. CASE CompleteRead(r)
    BY <2>6 DEF CompleteRead
  <2>7. CASE CompletePut(r)
    BY <2>7 DEF CompletePut
  <2>8. CASE CompleteStore(r)
    BY <2>8 DEF CompleteStore, UpdateStatus
  <2>9. CASE DeletePart(r)
    BY <2>9 DEF DeletePart
  <2>10. CASE ForgetParts(r)
    BY <2>10 DEF ForgetParts
  <2>11. CASE Publish(r)
    BY <2>11 DEF Publish
  <2>12. CASE AbortList(r)
    BY <2>12 DEF AbortList
  <2>13. CASE AbortDelete(r)
    BY <2>13 DEF AbortDelete, DeleteRow
  <2>14. QED
    BY <1>1, <2>1, <2>2, <2>3, <2>4, <2>5, <2>6, <2>7, <2>8, <2>9, <2>10, <2>11, <2>12,
       <2>13 DEF HandlerStep
<1>2. ASSUME NEW r \in Reqs, Arrival(r) PROVE TypeOK'
  <2>1. CASE InitUpload(r)
    BY <2>1 DEF InitUpload
  <2>2. CASE UploadPut(r)
    BY <2>2 DEF UploadPut
  <2>3. CASE PartBegin(r)
    BY <2>3 DEF PartBegin, Found
  <2>4. CASE CompleteBegin(r)
    BY <2>4 DEF CompleteBegin, Found
  <2>5. CASE AbortBegin(r)
    BY <2>5 DEF AbortBegin, Found
  <2>6. QED
    BY <1>2, <2>1, <2>2, <2>3, <2>4, <2>5 DEF Arrival
<1>3. ASSUME NEW r \in Reqs, RequestFails(r) PROVE TypeOK'
  BY <1>3 DEF RequestFails
<1>4. CASE Crash
  BY <1>4 DEF Crash
<1>5. CASE UNCHANGED vars
  BY <1>5 DEF vars
<1>6. QED
  BY <1>1, <1>2, <1>3, <1>4, <1>5 DEF Next

\* Who knows the id, and who may still write the row, step by step.
LEMMA IdStep == TypeOK /\ IdIsPrivate /\ [Next]_vars => IdIsPrivate'
<1> SUFFICES ASSUME TypeOK, IdIsPrivate, [Next]_vars PROVE IdIsPrivate'
  OBVIOUS
<1> USE DEF TypeOK, IdIsPrivate, GoTo, SetParts, Return
<1>1. ASSUME NEW r \in Reqs, HandlerStep(r) PROVE IdIsPrivate'
  <2>1. CASE InitReply(r)
    BY <2>1 DEF InitReply
  <2>2. CASE RegisterUpload(r)
    BY <2>2 DEF RegisterUpload
  <2>3. CASE PartPut(r)
    BY <2>3 DEF PartPut
  <2>4. CASE PartSave(r)
    BY <2>4 DEF PartSave, SavePartRow
  <2>5. CASE CompleteList(r)
    BY <2>5 DEF CompleteList
  <2>6. CASE CompleteRead(r)
    BY <2>6 DEF CompleteRead
  <2>7. CASE CompletePut(r)
    BY <2>7 DEF CompletePut
  <2>8. CASE CompleteStore(r)
    BY <2>8 DEF CompleteStore, UpdateStatus
  <2>9. CASE DeletePart(r)
    BY <2>9 DEF DeletePart
  <2>10. CASE ForgetParts(r)
    BY <2>10 DEF ForgetParts
  <2>11. CASE Publish(r)
    BY <2>11 DEF Publish
  <2>12. CASE AbortList(r)
    BY <2>12 DEF AbortList
  <2>13. CASE AbortDelete(r)
    BY <2>13 DEF AbortDelete, DeleteRow
  <2>14. QED
    BY <1>1, <2>1, <2>2, <2>3, <2>4, <2>5, <2>6, <2>7, <2>8, <2>9, <2>10, <2>11, <2>12,
       <2>13 DEF HandlerStep
<1>2. ASSUME NEW r \in Reqs, Arrival(r) PROVE IdIsPrivate'
  <2>1. CASE InitUpload(r)
    BY <2>1 DEF InitUpload
  <2>2. CASE UploadPut(r)
    BY <2>2 DEF UploadPut
  <2>3. CASE PartBegin(r)
    BY <2>3 DEF PartBegin, Found
  <2>4. CASE CompleteBegin(r)
    BY <2>4 DEF CompleteBegin, Found
  <2>5. CASE AbortBegin(r)
    BY <2>5 DEF AbortBegin, Found
  <2>6. QED
    BY <1>2, <2>1, <2>2, <2>3, <2>4, <2>5 DEF Arrival
<1>3. ASSUME NEW r \in Reqs, RequestFails(r) PROVE IdIsPrivate'
  BY <1>3 DEF RequestFails
<1>4. CASE Crash
  BY <1>4 DEF Crash
<1>5. CASE UNCHANGED vars
  BY <1>5 DEF vars
<1>6. QED
  BY <1>1, <1>2, <1>3, <1>4, <1>5 DEF Next

\* Only a completed or an aborted file loses chunks.
LEMMA CleanerStep ==
    TypeOK /\ IdIsPrivate /\ CleanersAreEntitled /\ [Next]_vars => CleanersAreEntitled'
<1> SUFFICES ASSUME TypeOK, IdIsPrivate, CleanersAreEntitled, [Next]_vars
             PROVE  CleanersAreEntitled'
  OBVIOUS
<1> USE DEF TypeOK, IdIsPrivate, CleanersAreEntitled, GoTo, SetParts, Return
<1>1. ASSUME NEW r \in Reqs, HandlerStep(r) PROVE CleanersAreEntitled'
  <2>1. CASE InitReply(r)
    BY <2>1 DEF InitReply
  <2>2. CASE RegisterUpload(r)
    BY <2>2 DEF RegisterUpload
  <2>3. CASE PartPut(r)
    BY <2>3 DEF PartPut
  <2>4. CASE PartSave(r)
    BY <2>4 DEF PartSave, SavePartRow
  <2>5. CASE CompleteList(r)
    BY <2>5 DEF CompleteList
  <2>6. CASE CompleteRead(r)
    BY <2>6 DEF CompleteRead
  <2>7. CASE CompletePut(r)
    BY <2>7 DEF CompletePut
  <2>8. CASE CompleteStore(r)
    BY <2>8 DEF CompleteStore, UpdateStatus
  <2>9. CASE DeletePart(r)
    BY <2>9 DEF DeletePart
  <2>10. CASE ForgetParts(r)
    BY <2>10 DEF ForgetParts
  <2>11. CASE Publish(r)
    BY <2>11 DEF Publish
  <2>12. CASE AbortList(r)
    BY <2>12 DEF AbortList
  <2>13. CASE AbortDelete(r)
    BY <2>13 DEF AbortDelete, DeleteRow
  <2>14. QED
    BY <1>1, <2>1, <2>2, <2>3, <2>4, <2>5, <2>6, <2>7, <2>8, <2>9, <2>10, <2>11, <2>12,
       <2>13 DEF HandlerStep
<1>2. ASSUME NEW r \in Reqs, Arrival(r) PROVE CleanersAreEntitled'
  <2>1. CASE InitUpload(r)
    BY <2>1 DEF InitUpload
  <2>2. CASE UploadPut(r)
    BY <2>2 DEF UploadPut
  <2>3. CASE PartBegin(r)
    BY <2>3 DEF PartBegin, Found
  <2>4. CASE CompleteBegin(r)
    BY <2>4 DEF CompleteBegin, Found
  <2>5. CASE AbortBegin(r)
    BY <2>5 DEF AbortBegin, Found
  <2>6. QED
    BY <1>2, <2>1, <2>2, <2>3, <2>4, <2>5 DEF Arrival
<1>3. ASSUME NEW r \in Reqs, RequestFails(r) PROVE CleanersAreEntitled'
  BY <1>3 DEF RequestFails
<1>4. CASE Crash
  BY <1>4 DEF Crash
<1>5. CASE UNCHANGED vars
  BY <1>5 DEF vars
<1>6. QED
  BY <1>1, <1>2, <1>3, <1>4, <1>5 DEF Next

\* A chunk precedes its row, and neither outlives the other wrongly.
LEMMA PartStep ==
    ControlInv /\ [Next]_vars => ChunkBeforeRow' /\ ReceivedPartsExist' /\ NoOrphanRows'
<1> DEFINE Goal == ChunkBeforeRow' /\ ReceivedPartsExist' /\ NoOrphanRows'
<1> SUFFICES ASSUME ControlInv, [Next]_vars PROVE Goal
  OBVIOUS
<1> USE DEF ControlInv, TypeOK, IdIsPrivate, CleanersAreEntitled, ChunkBeforeRow,
            ReceivedPartsExist, StatusReport, NoOrphanRows, GoTo, SetParts, Return
<1>1. ASSUME NEW r \in Reqs, HandlerStep(r) PROVE Goal
  <2>1. CASE InitReply(r)
    BY <2>1 DEF InitReply
  <2>2. CASE RegisterUpload(r)
    BY <2>2 DEF RegisterUpload
  <2>3. CASE PartPut(r)
    BY <2>3 DEF PartPut
  <2>4. CASE PartSave(r)
    BY <2>4 DEF PartSave, SavePartRow
  <2>5. CASE CompleteList(r)
    BY <2>5 DEF CompleteList
  <2>6. CASE CompleteRead(r)
    BY <2>6 DEF CompleteRead
  <2>7. CASE CompletePut(r)
    BY <2>7 DEF CompletePut
  <2>8. CASE CompleteStore(r)
    BY <2>8 DEF CompleteStore, UpdateStatus
  <2>9. CASE DeletePart(r)
    BY <2>9 DEF DeletePart
  <2>10. CASE ForgetParts(r)
    BY <2>10 DEF ForgetParts
  <2>11. CASE Publish(r)
    BY <2>11 DEF Publish
  <2>12. CASE AbortList(r)
    BY <2>12 DEF AbortList
  <2>13. CASE AbortDelete(r)
    BY <2>13 DEF AbortDelete, DeleteRow
  <2>14. QED
    BY <1>1, <2>1, <2>2, <2>3, <2>4, <2>5, <2>6, <2>7, <2>8, <2>9, <2>10, <2>11, <2>12,
       <2>13 DEF HandlerStep
<1>2. ASSUME NEW r \in Reqs, Arrival(r) PROVE Goal
  <2>1. CASE InitUpload(r)
    BY <2>1 DEF InitUpload
  <2>2. CASE UploadPut(r)
    BY <2>2 DEF UploadPut
  <2>3. CASE PartBegin(r)
    BY <2>3 DEF PartBegin, Found
  <2>4. CASE CompleteBegin(r)
    BY <2>4 DEF CompleteBegin, Found
  <2>5. CASE AbortBegin(r)
    BY <2>5 DEF AbortBegin, Found
  <2>6. QED
    BY <1>2, <2>1, <2>2, <2>3, <2>4, <2>5 DEF Arrival
<1>3. ASSUME NEW r \in Reqs, RequestFails(r) PROVE Goal
  BY <1>3 DEF RequestFails
<1>4. CASE Crash
  BY <1>4 DEF Crash
<1>5. CASE UNCHANGED vars
  BY <1>5 DEF vars
<1>6. QED
  BY <1>1, <1>2, <1>3, <1>4, <1>5 DEF Next

\* The part of the invariant that does not depend on how clients number parts.
LEMMA ControlStep == ControlInv /\ [Next]_vars => ControlInv'
BY TypeStep, IdStep, CleanerStep, PartStep DEF ControlInv

\* With conforming clients nothing but the whole file is ever put, and it stays.
LEMMA BytesStep ==
    ASSUME ConformingClients, ControlInv, BytesInv, [Next]_vars
    PROVE  BytesInv'
<1> USE DEF ControlInv, TypeOK, IdIsPrivate, CleanersAreEntitled, NoOrphanRows, BytesInv,
            HandlersHoldTheFile, GoTo, SetParts, Return
<1>1. ASSUME NEW r \in Reqs, HandlerStep(r) PROVE BytesInv'
  <2>1. CASE InitReply(r)
    BY <2>1 DEF InitReply
  <2>2. CASE RegisterUpload(r)
    BY <2>2 DEF RegisterUpload
  <2>3. CASE PartPut(r)
    BY <2>3 DEF PartPut
  <2>4. CASE PartSave(r)
    BY <2>4 DEF PartSave, SavePartRow
  <2>5. CASE CompleteList(r)
    BY <2>5, FullListing DEF CompleteList
  <2>6. CASE CompleteRead(r)
    BY <2>6 DEF CompleteRead
  <2>7. CASE CompletePut(r)
    BY <2>7 DEF CompletePut
  <2>8. CASE CompleteStore(r)
    BY <2>8 DEF CompleteStore, UpdateStatus
  <2>9. CASE DeletePart(r)
    BY <2>9 DEF DeletePart
  <2>10. CASE ForgetParts(r)
    BY <2>10 DEF ForgetParts
  <2>11. CASE Publish(r)
    BY <2>11 DEF Publish
  <2>12. CASE AbortList(r)
    BY <2>12 DEF AbortList
  <2>13. CASE AbortDelete(r)
    BY <2>13 DEF AbortDelete, DeleteRow
  <2>14. QED
    BY <1>1, <2>1, <2>2, <2>3, <2>4, <2>5, <2>6, <2>7, <2>8, <2>9, <2>10, <2>11, <2>12,
       <2>13 DEF HandlerStep
<1>2. ASSUME NEW r \in Reqs, Arrival(r) PROVE BytesInv'
  <2>1. CASE InitUpload(r)
    BY <2>1 DEF InitUpload
  <2>2. CASE UploadPut(r)
    BY <2>2 DEF UploadPut
  <2>3. CASE PartBegin(r)
    BY <2>3 DEF PartBegin, Found
  <2>4. CASE CompleteBegin(r)
    BY <2>4 DEF CompleteBegin, Found
  <2>5. CASE AbortBegin(r)
    BY <2>5 DEF AbortBegin, Found
  <2>6. QED
    BY <1>2, <2>1, <2>2, <2>3, <2>4, <2>5 DEF Arrival
<1>3. ASSUME NEW r \in Reqs, RequestFails(r) PROVE BytesInv'
  BY <1>3 DEF RequestFails
<1>4. CASE Crash
  BY <1>4 DEF Crash
<1>5. CASE UNCHANGED vars
  BY <1>5 DEF vars
<1>6. QED
  BY <1>1, <1>2, <1>3, <1>4, <1>5 DEF Next

\* Every step of the service preserves the whole invariant.
LEMMA IndInvStep == IndInv /\ [Next]_vars => IndInv'
<1> SUFFICES ASSUME IndInv, [Next]_vars PROVE IndInv'
  OBVIOUS
<1>1. ControlInv'
  BY ControlStep DEF IndInv
<1>2. ASSUME ConformingClients PROVE BytesInv'
  BY <1>2, BytesStep DEF IndInv
<1>3. QED
  BY <1>1, <1>2 DEF IndInv, ConformingClients

\* IndInv is an invariant of the service.
LEMMA Inductive == Spec => []IndInv
BY InitIndInv, IndInvStep, PTL DEF Spec

------------------------------------------------------------------------------
\* The state of the service stays well-typed.
THEOREM TypeCorrect == Spec => []TypeOK
<1>1. IndInv => TypeOK
  BY DEF IndInv, ControlInv
<1>2. QED
  BY <1>1, Inductive, PTL

\* A file whose row says stored or ready has all its bytes in object storage.
THEOREM StoredFilesAreWhole == Spec => []StoredIsWhole
<1>1. IndInv => StoredIsWhole
  BY DEF IndInv, BytesInv, StoredIsWhole
<1>2. QED
  BY <1>1, Inductive, PTL

\* An unread FileUploadedEvent points at a complete object.
THEOREM EventsAreBacked == Spec => []EventIsBacked
<1>1. IndInv => EventIsBacked
  BY DEF IndInv, ControlInv, CleanersAreEntitled, BytesInv, EventIsBacked
<1>2. QED
  BY <1>1, Inductive, PTL

\* Parts reported as received need not be sent again, until an abort.
THEOREM ReceivedPartsAreThere == Spec => []ReceivedPartsExist
<1>1. IndInv => ReceivedPartsExist
  BY DEF IndInv, ControlInv
<1>2. QED
  BY <1>1, Inductive, PTL

\* A recorded part is never lost, until an abort.
THEOREM RecordedPartsAreKept == Spec => []RecordedPartsSurvive
<1>1. IndInv => RecordedPartsSurvive
  BY DEF IndInv, BytesInv, RecordedPartsSurvive
<1>2. QED
  BY <1>1, Inductive, PTL

\* No part row without its file row.
THEOREM RowsHaveTheirFile == Spec => []NoOrphanRows
<1>1. IndInv => NoOrphanRows
  BY DEF IndInv, ControlInv
<1>2. QED
  BY <1>1, Inductive, PTL

\* A stored file does not go back to uploading, a deleted one does not come back.
LEMMA StatusStep == ControlInv /\ [Next]_vars => StatusMoves
<1> SUFFICES ASSUME ControlInv, [Next]_vars PROVE StatusMoves
  OBVIOUS
<1> USE DEF ControlInv, IdIsPrivate, StatusMoves
<1>1. ASSUME NEW r \in Reqs, HandlerStep(r) PROVE StatusMoves
  BY <1>1 DEF HandlerStep, InitReply, RegisterUpload, PartPut, PartSave, CompleteList,
     CompleteRead, CompletePut, CompleteStore, UpdateStatus, DeletePart, ForgetParts, Publish,
     AbortList, AbortDelete
<1>2. ASSUME NEW r \in Reqs, Arrival(r) PROVE StatusMoves
  BY <1>2 DEF Arrival, InitUpload, UploadPut, PartBegin, CompleteBegin, AbortBegin
<1>3. CASE UNCHANGED status
  BY <1>3
<1>4. QED
  BY <1>1, <1>2, <1>3 DEF Next, RequestFails, Crash, vars

\* A row never returns to uploading, nor from an abort (StatusStep, in every step).
THEOREM StatusNeverGoesBack == Spec => NoResurrection
<1>1. IndInv /\ [Next]_vars => [StatusMoves]_vars
  BY StatusStep DEF IndInv
<1>2. QED
  BY <1>1, Inductive, PTL DEF Spec, NoResurrection
==============================================================================
