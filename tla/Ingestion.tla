------------------------------ MODULE Ingestion ------------------------------
(***************************************************************************)
(* The ingestion service: what happens to ONE file id while any number of  *)
(* HTTP requests about it run at once.                                     *)
(*                                                                         *)
(* A file lives in three places that no transaction spans: its row in      *)
(* `files` and the rows of its chunks in `upload_parts` (Postgres), its    *)
(* bytes and the bytes of its chunks (MinIO), and the FileUploadedEvents   *)
(* about it (Kafka).  A handler updates them one call at a time, so every  *)
(* call is a step of its own here and requests interleave between calls.   *)
(*                                                                         *)
(* Chunks are their numbers: a chunk's bytes depend only on its number,    *)
(* and the assembled object is the set of chunks it was assembled from.    *)
(***************************************************************************)
EXTENDS Naturals, FiniteSets

CONSTANTS
    Reqs,         \* the HTTP requests that can be in flight together
    TotalParts,   \* ceil(file_size / chunk size), fixed when the upload starts
    PartNumbers,  \* the part numbers clients use in PUT .../parts/:partNumber
    Faults,       \* what may go wrong: "calls", "ingestion", "worker"
    MaxBacklog    \* bound of the model: unread FileUploadedEvents

ASSUME ReqsAssumption == Reqs # {}
ASSUME PartsAssumption ==
    /\ TotalParts \in Nat
    /\ PartNumbers \subseteq Nat \ {0}
    /\ IsFiniteSet(PartNumbers)
ASSUME FaultsAssumption == Faults \subseteq {"calls", "ingestion", "worker"}
ASSUME BacklogAssumption == MaxBacklog \in Nat \ {0}

VARIABLES
    fileID,    \* the uuid: not drawn, drawn by a handler, told to a client
    status,    \* files.status, or "absent" while there is no row
    partRows,  \* part numbers with a row in upload_parts
    partObjs,  \* part numbers whose chunk is an object of its own in MinIO
    object,    \* the object at storage_key: the chunks it holds, or NoObject
    backlog,   \* FileUploadedEvents published and not yet read
    aborting,  \* history: some DELETE found the row and went ahead
    pc, todo, done  \* per request: where it is, parts ahead of it, parts read

vars == <<fileID, status, partRows, partObjs, object, backlog, aborting, pc, todo, done>>

WholeFile == 1 .. TotalParts

\* Parts are numbered from 1, so no assembled object is {0}.
NoObject == {0}

Steps == {"idle", "init_reply", "upload_register", "part_put", "part_save",
          "complete_list", "complete_read", "complete_store", "complete_clean",
          "abort_list", "abort_clean", "abort_delete", "publish"}

TypeOK ==
    /\ fileID \in {"unissued", "issued", "told"}
    /\ status \in {"absent", "uploading", "stored", "ready"}
    /\ partRows \subseteq PartNumbers
    /\ partObjs \subseteq PartNumbers
    /\ object = NoObject \/ object \subseteq PartNumbers \cup WholeFile
    /\ backlog \in 0 .. MaxBacklog
    /\ aborting \in BOOLEAN
    /\ pc \in [Reqs -> Steps]
    /\ todo \in [Reqs -> SUBSET PartNumbers]
    /\ done \in [Reqs -> SUBSET PartNumbers]

Init ==
    /\ fileID = "unissued"
    /\ status = "absent"
    /\ partRows = {}
    /\ partObjs = {}
    /\ object = NoObject
    /\ backlog = 0
    /\ aborting = FALSE
    /\ pc = [r \in Reqs |-> "idle"]
    /\ todo = [r \in Reqs |-> {}]
    /\ done = [r \in Reqs |-> {}]

------------------------------------------------------------------------------
(* How a request moves.                                                    *)

GoTo(r, step) == pc' = [pc EXCEPT ![r] = step]

SetParts(r, ahead, read) ==
    /\ todo' = [todo EXCEPT ![r] = ahead]
    /\ done' = [done EXCEPT ![r] = read]

\* The handler answers and forgets its locals.
Return(r) == GoTo(r, "idle") /\ SetParts(r, {}, {})

\* A handler starts and its repo.Get finds the row (otherwise: an error, no effect).
Found(r) == pc[r] = "idle" /\ fileID = "told" /\ status # "absent"

\* Mutant: an upsert in place of an update.
\* `UPDATE files SET status`: unconditional, and no error when there is no row.
UpdateStatusUpsert(new) == status' = new
UpdateStatus(new) == status' = IF status = "absent" THEN "absent" ELSE new

\* Mutant: off by one.
\* len(parts) == totalParts, on the rows the handler listed.
AllPartsReceivedOrOneShort(rows) == Cardinality(rows) + 1 >= TotalParts
AllPartsReceived(rows) == Cardinality(rows) = TotalParts

\* ORDER BY part_number: parts are visited from the lowest up.
IsNext(n, parts) == n \in parts /\ \A m \in parts : n <= m

------------------------------------------------------------------------------
(* POST /uploads/initiate                                                  *)

InitUpload(r) ==
    /\ pc[r] = "idle" /\ fileID = "unissued"
    /\ fileID' = "issued"
    /\ status' = "uploading"
    /\ GoTo(r, "init_reply")
    /\ UNCHANGED <<partRows, partObjs, object, backlog, aborting, todo, done>>

InitReply(r) ==
    /\ pc[r] = "init_reply"
    /\ fileID' = "told"
    /\ Return(r)
    /\ UNCHANGED <<status, partRows, partObjs, object, backlog, aborting>>

------------------------------------------------------------------------------
(* POST /upload: the whole body in one request, row only once it is stored *)

UploadPut(r) ==
    /\ pc[r] = "idle" /\ fileID = "unissued"
    /\ fileID' = "issued"
    /\ object' = WholeFile
    /\ GoTo(r, "upload_register")
    /\ UNCHANGED <<status, partRows, partObjs, backlog, aborting, todo, done>>

RegisterUpload(r) ==
    /\ pc[r] = "upload_register"
    /\ status' = "stored"
    /\ GoTo(r, "publish")
    /\ UNCHANGED <<fileID, partRows, partObjs, object, backlog, aborting, todo, done>>

------------------------------------------------------------------------------
(* PUT /uploads/:fileId/parts/:partNumber                                  *)

PartBegin(r) ==
    /\ Found(r)
    /\ \E n \in PartNumbers : SetParts(r, {n}, {})
    /\ GoTo(r, "part_put")
    /\ UNCHANGED <<fileID, status, partRows, partObjs, object, backlog, aborting>>

\* Mutant: the error of PutObjectStream is ignored.
PartPutIgnoringErrors(r) ==
    /\ pc[r] = "part_put"
    /\ partObjs' = IF "calls" \in Faults THEN partObjs ELSE partObjs \cup todo[r]
    /\ GoTo(r, "part_save")
    /\ UNCHANGED <<fileID, status, partRows, object, backlog, aborting, todo, done>>

PartPut(r) ==
    /\ pc[r] = "part_put"
    /\ partObjs' = partObjs \cup todo[r]
    /\ GoTo(r, "part_save")
    /\ UNCHANGED <<fileID, status, partRows, object, backlog, aborting, todo, done>>

\* Mutant: no foreign key.
SavePartRowUnchecked(rows, n) == rows \cup n

\* upload_parts.file_id REFERENCES files: no row, no part.
SavePartRow(rows, n) == IF status = "absent" THEN rows ELSE rows \cup n

PartSave(r) ==
    /\ pc[r] = "part_save"
    /\ partRows' = SavePartRow(partRows, todo[r])
    /\ Return(r)
    /\ UNCHANGED <<fileID, status, partObjs, object, backlog, aborting>>

------------------------------------------------------------------------------
(* POST /uploads/:fileId/complete                                          *)

CompleteBegin(r) ==
    /\ Found(r)
    /\ GoTo(r, "complete_list")
    /\ UNCHANGED <<fileID, status, partRows, partObjs, object, backlog, aborting, todo, done>>

\* Mutant: a file that is stored already is not completed again.
CompleteListOnce(r) ==
    /\ pc[r] = "complete_list"
    /\ IF AllPartsReceived(partRows) /\ status = "uploading"
       THEN GoTo(r, "complete_read") /\ SetParts(r, partRows, {})
       ELSE Return(r)
    /\ UNCHANGED <<fileID, status, partRows, partObjs, object, backlog, aborting>>

CompleteList(r) ==
    /\ pc[r] = "complete_list"
    /\ IF AllPartsReceived(partRows)
       THEN GoTo(r, "complete_read") /\ SetParts(r, partRows, {})
       ELSE Return(r)
    /\ UNCHANGED <<fileID, status, partRows, partObjs, object, backlog, aborting>>

\* partSequenceReader opens the next chunk only when PutObject gets to it, and
\* a chunk that is gone by then fails the whole reassembly.
CompleteRead(r) ==
    /\ pc[r] = "complete_read"
    /\ \E n \in todo[r] :
        /\ IsNext(n, todo[r])
        /\ IF n \in partObjs
           THEN SetParts(r, todo[r] \ {n}, done[r] \cup {n}) /\ UNCHANGED pc
           ELSE Return(r)
    /\ UNCHANGED <<fileID, status, partRows, partObjs, object, backlog, aborting>>

\* Mutant: the error of PutObjectStream is ignored.
CompletePutIgnoringErrors(r) ==
    /\ pc[r] = "complete_read" /\ todo[r] = {}
    /\ GoTo(r, "complete_store")
    /\ UNCHANGED <<fileID, status, partRows, partObjs, object, backlog, aborting, todo, done>>

\* MinIO makes the object visible when its last byte has arrived.
CompletePut(r) ==
    /\ pc[r] = "complete_read" /\ todo[r] = {}
    /\ object' = done[r]
    /\ GoTo(r, "complete_store")
    /\ UNCHANGED <<fileID, status, partRows, partObjs, backlog, aborting, todo, done>>

CompleteStore(r) ==
    /\ pc[r] = "complete_store"
    /\ UpdateStatus("stored")
    /\ SetParts(r, done[r], {})
    /\ GoTo(r, "complete_clean")
    /\ UNCHANGED <<fileID, partRows, partObjs, object, backlog, aborting>>

------------------------------------------------------------------------------
(* The clean-up at the end of a completion and in the middle of an abort.  *)

\* `_ = DeleteObject`: an error is ignored and leaves the object where it was.
DeletePart(r) ==
    /\ pc[r] \in {"complete_clean", "abort_clean"}
    /\ \E n \in todo[r] :
        /\ IsNext(n, todo[r])
        /\ SetParts(r, todo[r] \ {n}, {})
        /\ \/ partObjs' = partObjs \ {n}
           \/ "calls" \in Faults /\ UNCHANGED partObjs
    /\ UNCHANGED <<fileID, status, partRows, object, backlog, aborting, pc>>

\* DeleteUploadParts; only a completion carries on when it fails.
ForgetParts(r) ==
    /\ pc[r] \in {"complete_clean", "abort_clean"} /\ todo[r] = {}
    /\ \/ partRows' = {}
       \/ "calls" \in Faults /\ pc[r] = "complete_clean" /\ UNCHANGED partRows
    /\ GoTo(r, IF pc[r] = "complete_clean" THEN "publish" ELSE "abort_delete")
    /\ UNCHANGED <<fileID, status, partObjs, object, backlog, aborting, todo, done>>

------------------------------------------------------------------------------
(* The last step of both uploads: publish FileUploadedEvent, then answer.  *)
(* A failed publish is logged and the answer is the same; the producer's   *)
(* retry of a write whose acknowledgement was lost makes a second copy.    *)
(* The answer names the id; so does the room's listing if the answer is    *)
(* lost but the event is not.                                              *)

\* Mutant: fire and forget.
PublishUnacknowledged(r) ==
    /\ pc[r] = "publish"
    /\ fileID' = "told"
    /\ Return(r)
    /\ UNCHANGED <<status, partRows, partObjs, object, backlog, aborting>>

Publish(r) ==
    /\ pc[r] = "publish"
    /\ \E copies \in {1} \cup (IF "calls" \in Faults THEN {0, 2} ELSE {}) :
        /\ backlog + copies <= MaxBacklog
        /\ backlog' = backlog + copies
    /\ fileID' = "told"
    /\ Return(r)
    /\ UNCHANGED <<status, partRows, partObjs, object, aborting>>

------------------------------------------------------------------------------
(* DELETE /uploads/:fileId                                                 *)

AbortBegin(r) ==
    /\ Found(r)
    /\ aborting' = TRUE
    /\ GoTo(r, "abort_list")
    /\ UNCHANGED <<fileID, status, partRows, partObjs, object, backlog, todo, done>>

AbortList(r) ==
    /\ pc[r] = "abort_list"
    /\ SetParts(r, partRows, {})
    /\ GoTo(r, "abort_clean")
    /\ UNCHANGED <<fileID, status, partRows, partObjs, object, backlog, aborting>>

\* Mutant: the final object goes with the row.
AbortDeletePurging(r) ==
    /\ pc[r] = "abort_delete"
    /\ status' = "absent"
    /\ partRows' = {}
    /\ object' = NoObject
    /\ Return(r)
    /\ UNCHANGED <<fileID, partObjs, backlog, aborting>>

\* ON DELETE CASCADE takes the rows of parts that arrived in the meantime.
DeleteRow(rows) == {}

AbortDelete(r) ==
    /\ pc[r] = "abort_delete"
    /\ status' = "absent"
    /\ partRows' = DeleteRow(partRows)
    /\ Return(r)
    /\ UNCHANGED <<fileID, partObjs, object, backlog, aborting>>

------------------------------------------------------------------------------
(* What goes wrong.                                                        *)

\* A call fails (a lost connection, the client's cancelled context) and the
\* handler answers with an error.  A write that took effect before its reply
\* was lost is the write's own step followed by this one.  Deleting chunk
\* objects, the clean-up of a completion and the publish never get here: their
\* errors are ignored or logged.
RequestFails(r) ==
    /\ "calls" \in Faults
    /\ pc[r] \notin {"idle", "complete_clean", "publish"}
    /\ pc[r] = "abort_clean" => todo[r] = {}
    /\ Return(r)
    /\ UNCHANGED <<fileID, status, partRows, partObjs, object, backlog, aborting>>

\* The service dies and every handler with it; nothing resumes on restart.
Crash ==
    /\ "ingestion" \in Faults
    /\ pc' = [r \in Reqs |-> "idle"]
    /\ todo' = [r \in Reqs |-> {}]
    /\ done' = [r \in Reqs |-> {}]
    /\ UNCHANGED <<fileID, status, partRows, partObjs, object, backlog, aborting>>

------------------------------------------------------------------------------
\* The steps a handler takes by itself once a request has arrived.
HandlerStep(r) ==
    \/ InitReply(r)
    \/ RegisterUpload(r)
    \/ PartPut(r)
    \/ PartSave(r)
    \/ CompleteList(r)
    \/ CompleteRead(r)
    \/ CompletePut(r)
    \/ CompleteStore(r)
    \/ DeletePart(r)
    \/ ForgetParts(r)
    \/ Publish(r)
    \/ AbortList(r)
    \/ AbortDelete(r)

\* A request arrives.
Arrival(r) ==
    \/ InitUpload(r)
    \/ UploadPut(r)
    \/ PartBegin(r)
    \/ CompleteBegin(r)
    \/ AbortBegin(r)

Next ==
    \/ \E r \in Reqs : HandlerStep(r) \/ Arrival(r) \/ RequestFails(r)
    \/ Crash

Spec == Init /\ [][Next]_vars

------------------------------------------------------------------------------
(* GET /uploads/:fileId/status                                             *)

\* Mutant: off by one.
StatusReportFromZero ==
    [received_parts |-> partRows, missing_parts |-> (0 .. TotalParts) \ partRows]
StatusReport ==
    [received_parts |-> partRows, missing_parts |-> WholeFile \ partRows]

------------------------------------------------------------------------------
(* Properties.                                                             *)

\* Clients that number their parts as initiate told them to.
ConformingClients == PartNumbers \subseteq WholeFile

\* Whatever requests overlap, fail or die half-way, a file whose row says that
\* its bytes are in object storage has all of them there (domain/file.go:9,
\* CompleteUpload's order of calls).
StoredIsWhole ==
    ConformingClients =>
        (status \in {"stored", "ready"} => object = WholeFile)

\* An event never runs ahead of what it announces: while one is unread the row is
\* past uploading and the bytes are complete, and they are never taken away under
\* it: a DELETE may remove the row in between but not the object.
EventIsBacked ==
    backlog > 0 =>
        /\ status # "uploading"
        /\ ConformingClients => object = WholeFile

\* What GET .../status reports as received need not be sent again: until the
\* file is stored or somebody aborts it, every part with a row has its chunk
\* in MinIO (RecordPart's order, CompleteUpload's clean-up after the status).
ReceivedPartsExist ==
    status = "uploading" /\ ~aborting =>
        StatusReport.received_parts \subseteq partObjs

\* A part that was recorded survives one way or the other until an abort: as its
\* own chunk or inside the object, also after failed or repeated completions.
RecordedPartsSurvive ==
    ConformingClients /\ ~aborting =>
        \A n \in partRows : n \in partObjs \/ object = WholeFile

\* A PUT that overlaps a DELETE leaves no row behind for a file that is gone.
NoOrphanRows == status = "absent" => partRows = {}

\* A status, once stored, never goes back to uploading; a row that a DELETE took
\* away is not brought back by a completion that was still running.
StatusMoves ==
    /\ status \in {"stored", "ready"} => status' # "uploading"
    /\ (aborting /\ status = "absent") => status' = "absent"

NoResurrection == [][StatusMoves]_vars

------------------------------------------------------------------------------
(* What comments in the code say and it does not do.                       *)

\* file_service.go:275-276: CompleteUpload "verifies every expected part actually
\* exists (never trusts a client's claim that it's done)".
EveryExpectedPartVerified ==
    status \in {"stored", "ready"} => object = WholeFile
==============================================================================
