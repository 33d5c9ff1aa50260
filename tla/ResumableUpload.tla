--------------------------- MODULE ResumableUpload ---------------------------
(***************************************************************************)
(* A client of the resumable protocol over the ingestion service.  The     *)
(* repository has none; this is the one its routes and comments call for:  *)
(* initiate, PUT the parts one by one, complete; after a failure ask GET   *)
(* .../status and send what is missing.  An answer that does not come is   *)
(* given up, while the handler behind it may go on and meet the next       *)
(* request.  Nobody else knows the id.                                     *)
(*                                                                         *)
(* A completion that is refused can be taken in two ways: ask for the      *)
(* missing parts like after any failure, or (Stubborn) send them all.      *)
(***************************************************************************)
EXTENDS Ingestion

CONSTANTS
    Stubborn,     \* whether a refused completion makes the client send every part again
    MaxFailures   \* answers, calls and processes that fail before things calm down

ASSUME UploadAssumption == Stubborn \in BOOLEAN /\ MaxFailures \in Nat

VARIABLES
    client,    \* what the client is doing
    mine,      \* the request it is waiting for, if any
    want,      \* the parts it has yet to send
    failures   \* how many more failures there will be

clientVars == <<client, mine, want, failures>>
uploadVars == <<vars, clientVars>>

Waiting == {"initiating", "putting", "completing"}

UploadTypeOK ==
    /\ TypeOK
    /\ client \in Waiting \cup {"new", "sending", "asking", "done", "lost"}
    /\ mine \subseteq Reqs
    /\ IF client \in Waiting THEN \E r \in Reqs : mine = {r} /\ pc[r] # "idle" ELSE mine = {}
    /\ want \subseteq WholeFile
    /\ failures \in 0 .. MaxFailures

UploadInit ==
    /\ Init
    /\ client = "new"
    /\ mine = {}
    /\ want = {}
    /\ failures = MaxFailures

------------------------------------------------------------------------------
(* Requests.                                                               *)

WaitFor(r, doing) == client' = doing /\ mine' = {r}

Initiate(r) ==
    /\ client = "new"
    /\ InitUpload(r)
    /\ WaitFor(r, "initiating")
    /\ UNCHANGED <<want, failures>>

SendPart(r) ==
    /\ client = "sending"
    /\ PartBegin(r)
    /\ \E n \in want : IsNext(n, want) /\ todo'[r] = {n}
    /\ WaitFor(r, "putting")
    /\ UNCHANGED <<want, failures>>

Complete(r) ==
    /\ client = "sending" /\ want = {}
    /\ CompleteBegin(r)
    /\ WaitFor(r, "completing")
    /\ UNCHANGED <<want, failures>>

\* GET /uploads/:fileId/status
AskStatus ==
    /\ client = "asking"
    /\ status # "absent"
    /\ want' = StatusReport.missing_parts
    /\ client' = "sending"
    /\ UNCHANGED <<vars, mine, failures>>

------------------------------------------------------------------------------
(* Answers.                                                                *)

Accepted(r) ==
    /\ mine' = {}
    /\ client' = IF client = "completing" THEN "done" ELSE "sending"
    /\ want' = IF client = "initiating" THEN WholeFile ELSE want \ todo[r]
    /\ UNCHANGED failures

\* Without the answer to initiate there is no id to resume with.
NotAccepted ==
    /\ mine' = {}
    /\ client' = IF client = "initiating" THEN "lost" ELSE "asking"
    /\ UNCHANGED want

\* 409, whatever went wrong with the completion.
CompletionRefused ==
    IF Stubborn /\ client = "completing"
    THEN mine' = {} /\ client' = "sending" /\ want' = WholeFile
    ELSE NotAccepted

\* The handler's last step when all went well; the others answer with an error.
Succeeds(r) == pc[r] \in {"init_reply", "publish"} \/ (pc[r] = "part_save" /\ status # "absent")

\* A handler goes on, on behalf of the client or of a request it has given up.
HandlerGoesOn(r) ==
    /\ HandlerStep(r)
    /\ IF r \in mine /\ pc'[r] = "idle"
       THEN IF Succeeds(r) THEN Accepted(r) ELSE CompletionRefused /\ UNCHANGED failures
       ELSE UNCHANGED clientVars

------------------------------------------------------------------------------
(* Failures.                                                               *)

OneFailure == failures > 0 /\ failures' = failures - 1

\* A call of the handler fails; the context of a request that was given up is
\* cancelled, and its calls may fail at any time.
HandlerFails(r) ==
    /\ RequestFails(r)
    /\ IF r \in mine THEN OneFailure /\ CompletionRefused ELSE UNCHANGED clientVars

\* The connection drops or the client waits no longer.
GiveUp ==
    /\ mine # {}
    /\ OneFailure
    /\ NotAccepted
    /\ UNCHANGED vars

ServiceDies ==
    /\ Crash
    /\ OneFailure
    /\ IF mine = {} THEN UNCHANGED <<client, mine, want>> ELSE NotAccepted

------------------------------------------------------------------------------
ClientStep == AskStatus \/ \E r \in Reqs : Initiate(r) \/ SendPart(r) \/ Complete(r)

UploadNext ==
    \/ ClientStep
    \/ \E r \in Reqs : HandlerGoesOn(r) \/ HandlerFails(r)
    \/ GiveUp
    \/ ServiceDies

UploadSpec == UploadInit /\ [][UploadNext]_uploadVars

(* Handlers run to their end and the client wants its file uploaded.       *)
FairUploadSpec ==
    /\ UploadSpec
    /\ WF_uploadVars(ClientStep)
    /\ \A r \in Reqs : WF_uploadVars(HandlerGoesOn(r))

------------------------------------------------------------------------------
(* Properties.                                                             *)

\* Once the client has an id, it is told that the upload is complete, and then the file
\* is stored with all its bytes, although handlers it gave up are still
\* at work: failures that cease do not strand an upload.
Finishes ==
    fileID = "told" /\ client # "lost" ~>
        client = "done" /\ status = "stored" /\ object = WholeFile

\* ... provided that the client sends every part again when completing is refused.
StubbornUploadFinishes == Stubborn => Finishes

------------------------------------------------------------------------------
(* What a comment in the code says and it does not do.                     *)

\* upload_part.go:10-12: status tells the client "exactly which part numbers already
\* exist, so a resumed upload only needs to (re-)send whatever's missing".
SendingTheMissingSuffices == Finishes
==============================================================================
