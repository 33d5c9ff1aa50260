------------------------------- MODULE Delivery ------------------------------
(***************************************************************************)
(* The receiving side of the API for ONE file: participants join the room, *)
(* list the files they are still waiting for, and download them, whole or  *)
(* by HTTP ranges, over connections that may drop.  A delivery is recorded *)
(* per participant by the download handler, or at the client's own word.   *)
(*                                                                         *)
(* The file's bytes are the positions 0 .. FileSize-1.  What the handler   *)
(* has written into the connection and what the client has received are    *)
(* told apart: the handler only knows the first.                           *)
(***************************************************************************)
EXTENDS Integers, FiniteSets

CONSTANTS
    Participants,
    Downloads,     \* the download requests that can be in flight together
    FileSize,
    Numbers,       \* the integers that occur in Range headers
    ResumeOnly     \* clients ask only for the whole file or for the rest of it

ASSUME DeliveryAssumption ==
    /\ FileSize \in Nat
    /\ Numbers \subseteq Int
    /\ ResumeOnly \in BOOLEAN

Bytes == 0 .. FileSize - 1

------------------------------------------------------------------------------
(* parseRangeHeader: what is left of a header once it is split.  A header  *)
(* of any other shape, or with a number that does not parse, is "other".   *)

Headers ==
    {[form |-> "other"]}
    \cup [form : {"suffix"}, last : Numbers]
    \cup [form : {"from"}, first : Numbers]
    \cup [form : {"fromto"}, first : Numbers, last : Numbers]

NoRange == [ok |-> FALSE, start |-> 0, end |-> FileSize - 1]

Lesser(a, b) == IF a < b THEN a ELSE b

\* What the handler serves: the parsed range, an open end (-1) closed, or, when
\* the header is refused, the whole file.
\* Mutant: an end beyond the file is not pulled back.
ServedUnclamped(h) ==
    CASE h.form = "suffix" /\ h.last > 0 ->
            [ok |-> TRUE, start |-> FileSize - h.last, end |-> FileSize - 1]
      [] h.form = "from" /\ h.first \in Bytes ->
            [ok |-> TRUE, start |-> h.first, end |-> FileSize - 1]
      [] h.form = "fromto" /\ h.first \in Bytes /\ h.first <= h.last ->
            [ok |-> TRUE, start |-> h.first, end |-> h.last]
      [] OTHER -> NoRange
Served(h) ==
    CASE h.form = "suffix" /\ h.last > 0 ->
            [ok |-> TRUE, start |-> FileSize - Lesser(h.last, FileSize), end |-> FileSize - 1]
      [] h.form = "from" /\ h.first \in Bytes ->
            [ok |-> TRUE, start |-> h.first, end |-> FileSize - 1]
      [] h.form = "fromto" /\ h.first \in Bytes /\ h.first <= h.last ->
            [ok |-> TRUE, start |-> h.first, end |-> Lesser(h.last, FileSize - 1)]
      [] OTHER -> NoRange

------------------------------------------------------------------------------
VARIABLES
    row,         \* files.status of the file, or "absent"
    expired,     \* now is after files.expires_at
    members,     \* participants with a row in `participants`
    deliveries,  \* participants with a row in file_deliveries for the file
    dl,          \* the download requests
    sent,        \* history: bytes written to a connection of the participant
    received,    \* what each participant has got
    claimed      \* history: participants who said they have the file

vars == <<row, expired, members, deliveries, dl, sent, received, claimed>>

\* A request: where it is, for whom, its range, how many bytes are written and
\* how many have arrived, and whether its connection is up.
Idle == [at |-> "idle"]

Running ==
    [at : {"copying", "recording", "answered"}, who : Participants, start : Int, end : Int,
     written : Nat, arrived : Nat, up : BOOLEAN]

TypeOK ==
    /\ row \in {"absent", "stored", "ready"}
    /\ expired \in BOOLEAN
    /\ members \subseteq Participants
    /\ deliveries \subseteq Participants
    /\ dl \in [Downloads -> Running \cup {Idle}]
    /\ sent \in [Participants -> SUBSET Bytes]
    /\ received \in [Participants -> SUBSET Bytes]
    /\ claimed \subseteq Participants

Init ==
    /\ row = "stored"
    /\ expired = FALSE
    /\ members = {}
    /\ deliveries = {}
    /\ dl = [d \in Downloads |-> Idle]
    /\ sent = [p \in Participants |-> {}]
    /\ received = [p \in Participants |-> {}]
    /\ claimed = {}

------------------------------------------------------------------------------
(* The rest of the system, as far as it changes the file's row.            *)

\* The worker's MarkReady, and a repeated completion's UpdateStatus(stored).
StatusChanges ==
    /\ row # "absent"
    /\ row' \in {"stored", "ready"} \ {row}
    /\ UNCHANGED <<expired, members, deliveries, dl, sent, received, claimed>>

Expire ==
    /\ ~expired
    /\ expired' = TRUE
    /\ UNCHANGED <<row, members, deliveries, dl, sent, received, claimed>>

\* DELETE /uploads/:fileId; file_deliveries goes with the row (ON DELETE CASCADE).
DeleteRow ==
    /\ row # "absent"
    /\ row' = "absent"
    /\ deliveries' = {}
    /\ UNCHANGED <<expired, members, dl, sent, received, claimed>>

------------------------------------------------------------------------------
(* Participants.                                                           *)

Join(p) ==
    /\ p \notin members
    /\ members' = members \cup {p}
    /\ UNCHANGED <<row, expired, deliveries, dl, sent, received, claimed>>

\* GET /rooms/:id/files?participant_id=p: ready and not delivered to p.
Waiting(p) == row = "ready" /\ p \notin deliveries

\* INSERT ... ON CONFLICT DO NOTHING, under the foreign keys to both rows.
\* Mutants: no foreign keys; one delivery for everybody.
WithDeliveryUnchecked(p) == deliveries \cup {p}
WithDeliveryForAll(p) == IF row # "absent" /\ p \in members THEN members ELSE deliveries
WithDelivery(p) ==
    IF row # "absent" /\ p \in members THEN deliveries \cup {p} ELSE deliveries

\* POST /rooms/:id/files/:fileId/delivered
ClaimDelivered(p) ==
    /\ claimed' = claimed \cup {p}
    /\ deliveries' = WithDelivery(p)
    /\ UNCHANGED <<row, expired, members, dl, sent, received>>

------------------------------------------------------------------------------
(* GET /rooms/:id/files/:fileId/download                                   *)

\* What a client may ask for.  One that only resumes asks for everything, or for
\* what comes after the part it has from the beginning on.
MayAsk(p, h) ==
    ResumeOnly =>
        \/ h.form = "other"
        \/ h.form = "from" /\ 0 .. h.first - 1 \subseteq received[p]

IsUsable == row = "ready" /\ ~expired

DownloadBegin(d, p, h) ==
    /\ dl[d].at = "idle"
    /\ IsUsable
    /\ MayAsk(p, h)
    /\ dl' = [dl EXCEPT ![d] =
                [at |-> "copying", who |-> p, start |-> Served(h).start, end |-> Served(h).end,
                 written |-> 0, arrived |-> 0, up |-> TRUE]]
    /\ UNCHANGED <<row, expired, members, deliveries, sent, received, claimed>>

\* Mutant: off by one.
ExpectedTooMany(d) == dl[d].end - dl[d].start + 2
Expected(d) == dl[d].end - dl[d].start + 1

\* io.Copy writes on.
Write(d) ==
    /\ dl[d].at = "copying" /\ dl[d].up
    /\ dl[d].written < Expected(d)
    /\ dl' = [dl EXCEPT ![d].written = @ + 1]
    /\ sent' = [sent EXCEPT ![dl[d].who] = @ \cup {dl[d].start + dl[d].written}]
    /\ UNCHANGED <<row, expired, members, deliveries, received, claimed>>

\* The client reads the next byte; it may have got further than the handler knows.
Arrive(d) ==
    /\ dl[d].at # "idle" /\ dl[d].up
    /\ dl[d].arrived < dl[d].written
    /\ dl' = [dl EXCEPT ![d].arrived = @ + 1]
    /\ received' = [received EXCEPT ![dl[d].who] = @ \cup {dl[d].start + dl[d].arrived}]
    /\ UNCHANGED <<row, expired, members, deliveries, sent, claimed>>

\* What is written and has not arrived is lost.
Drop(d) ==
    /\ dl[d].at # "idle" /\ dl[d].up
    /\ dl' = [dl EXCEPT ![d].up = FALSE]
    /\ UNCHANGED <<row, expired, members, deliveries, sent, received, claimed>>

\* io.Copy returns an error: the connection is gone, or MinIO's stream broke.
CopyFails(d) ==
    /\ dl[d].at = "copying"
    /\ dl' = [dl EXCEPT ![d] = Idle]
    /\ UNCHANGED <<row, expired, members, deliveries, sent, received, claimed>>

\* written == expectedBytes; only a range that ends with the file counts.
\* Mutant: a copy that fell short counts.
EarnsDeliveryAnyLength(d) == dl[d].end = FileSize - 1
EarnsDelivery(d) == dl[d].written = Expected(d) /\ dl[d].end = FileSize - 1

\* A short stream from MinIO ends the copy without an error too.
CopyEnds(d) ==
    /\ dl[d].at = "copying"
    /\ dl' = [dl EXCEPT ![d] =
                [@ EXCEPT !.at = IF EarnsDelivery(d) THEN "recording" ELSE "answered"]]
    /\ UNCHANGED <<row, expired, members, deliveries, sent, received, claimed>>

\* MarkDeliveredToParticipant under the request's context, which a client that is
\* gone may or may not have cancelled yet; an error is only logged.
Record(d) ==
    /\ dl[d].at = "recording"
    /\ \/ deliveries' = WithDelivery(dl[d].who)
       \/ ~dl[d].up /\ UNCHANGED deliveries
    /\ dl' = [dl EXCEPT ![d].at = "answered"]
    /\ UNCHANGED <<row, expired, members, sent, received, claimed>>

\* The handler has returned; the last bytes have arrived, or never will.
Finish(d) ==
    /\ dl[d].at = "answered"
    /\ dl[d].arrived = dl[d].written \/ ~dl[d].up
    /\ dl' = [dl EXCEPT ![d] = Idle]
    /\ UNCHANGED <<row, expired, members, deliveries, sent, received, claimed>>

------------------------------------------------------------------------------
Next ==
    \/ StatusChanges
    \/ Expire
    \/ DeleteRow
    \/ \E p \in Participants : Join(p) \/ ClaimDelivered(p)
    \/ \E d \in Downloads :
        \/ \E p \in Participants, h \in Headers : DownloadBegin(d, p, h)
        \/ Write(d)
        \/ Arrive(d)
        \/ Drop(d)
        \/ CopyFails(d)
        \/ CopyEnds(d)
        \/ Record(d)
        \/ Finish(d)

Spec == Init /\ [][Next]_vars

------------------------------------------------------------------------------
(* Properties.                                                             *)

\* The positions a header asks for, after RFC 9110 section 14: the last n, all from
\* a on, or a through b, as far as the file has them; everything for a header
\* that names none.
Requested(h) ==
    LET wanted == {i \in Bytes :
                    \/ h.form = "suffix" /\ i >= FileSize - h.last
                    \/ h.form = "from" /\ h.first >= 0 /\ i >= h.first
                    \/ h.form = "fromto" /\ h.first >= 0 /\ h.first <= i /\ i <= h.last}
    IN  IF wanted = {} THEN Bytes ELSE wanted

ServesTheRequested ==
    \A h \in Headers :
        /\ Served(h).start .. Served(h).end = Requested(h)
        /\ Served(h).end - Served(h).start + 1 = Cardinality(Requested(h))

\* While the file can be downloaded, whatever the header, the range that would be
\* served is exactly the positions it asks for, and the Content-Length that goes with
\* it is their number.
RangesAreExact == IsUsable => ServesTheRequested

\* A client that resumes where it stopped, over any number of connections, is not
\* recorded as served before every byte has been written to it, unless it said so.
DeliveredWasSent ==
    ResumeOnly => \A p \in deliveries \ claimed : sent[p] = Bytes

\* A delivery row refers to a participant who joined and a file that is there,
\* whatever is deleted while a download runs.
DeliveriesAreGrounded ==
    deliveries \subseteq members /\ (row = "absent" => deliveries = {})

\* A participant's file disappears from their list only because the file changed or
\* because that very participant was served or said so: nobody's download
\* takes it from anybody else.
OnlyOwnDeliveryHides ==
    [][\A p \in Participants :
        Waiting(p) /\ ~Waiting(p)' =>
            \/ row' # row
            \/ p \in claimed'
            \/ \E d \in Downloads : dl[d].at = "recording" /\ dl[d].who = p]_vars
==============================================================================
