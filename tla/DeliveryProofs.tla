--------------------------- MODULE DeliveryProofs ----------------------------
(***************************************************************************)
(* The safety properties of Delivery, for every number of participants and *)
(* of downloads at once, every file size and every number in a header.     *)
(*                                                                         *)
(* What a range promises is a fact about the header parser alone.  What a  *)
(* delivery row promises rests on the requests that are under way: how far *)
(* each one's connection has been written, and, for clients that only      *)
(* resume, that what comes before its range was written to them earlier.   *)
(***************************************************************************)
EXTENDS Delivery, FiniteSetTheorems, TLAPS

\* A request that is not over: its range lies in the file, no more of it is written
\* than expected and no more has arrived than was written.
InFile(r) ==
    /\ r.start \in Nat /\ r.end \in Int /\ r.end <= FileSize - 1
    /\ r.written <= r.end - r.start + 1
    /\ r.arrived <= r.written

ControlInv ==
    /\ TypeOK
    /\ \A d \in Downloads : dl[d].at # "idle" => InFile(dl[d])

\* What was written to a participant, as far as their requests know it.
WrittenBy(r) == r.start .. r.start + r.written - 1
Before(r) == 0 .. r.start - 1

SentInv ==
    /\ \A p \in Participants : received[p] \subseteq sent[p]
    /\ \A d \in Downloads : dl[d].at # "idle" =>
        /\ WrittenBy(dl[d]) \subseteq sent[dl[d].who]
        /\ Before(dl[d]) \subseteq sent[dl[d].who]
    /\ \A d \in Downloads : dl[d].at = "recording" => sent[dl[d].who] = Bytes
    /\ \A p \in deliveries \ claimed : sent[p] = Bytes

IndInv == ControlInv /\ DeliveriesAreGrounded /\ (ResumeOnly => SentInv)
------------------------------------------------------------------------------
(* The header parser.                                                      *)

\* The four forms of a header, and what is served of each.
LEMMA ServedByForm ==
    ASSUME NEW h \in Headers
    PROVE  \/ /\ h.form = "suffix" /\ h.last \in Int /\ h.last > 0
              /\ Served(h).start = FileSize - Lesser(h.last, FileSize)
              /\ Served(h).end = FileSize - 1
           \/ /\ h.form = "from" /\ h.first \in Bytes
              /\ Served(h).start = h.first /\ Served(h).end = FileSize - 1
           \/ /\ h.form = "fromto" /\ h.first \in Bytes /\ h.last \in Int /\ h.first <= h.last
              /\ Served(h).start = h.first /\ Served(h).end = Lesser(h.last, FileSize - 1)
           \/ /\ \/ h.form = "other"
                 \/ h.form = "suffix" /\ h.last \in Int /\ ~(h.last > 0)
                 \/ h.form = "from" /\ h.first \in Int /\ h.first \notin Bytes
                 \/ /\ h.form = "fromto" /\ h.first \in Int /\ h.last \in Int
                    /\ h.first \notin Bytes \/ ~(h.first <= h.last)
              /\ Served(h).start = 0 /\ Served(h).end = FileSize - 1
<1> USE DeliveryAssumption
<1>1. CASE h.form = "other"
  <2>1. Served(h) = NoRange
    BY <1>1 DEF Served
  <2>2. QED
    BY <1>1, <2>1 DEF NoRange
<1>2. CASE h.form = "suffix"
  <2>1. h.last \in Int
    <3>1. h \in [form : {"suffix"}, last : Numbers]
      BY <1>2 DEF Headers
    <3>2. QED
      BY <3>1
  <2>2. CASE h.last > 0
    BY <1>2, <2>1, <2>2 DEF Served
  <2>3. CASE ~(h.last > 0)
    <3>1. Served(h) = NoRange
      BY <1>2, <2>3 DEF Served
    <3>2. QED
      BY <1>2, <2>1, <2>3, <3>1 DEF NoRange
  <2>4. QED
    BY <2>2, <2>3
<1>3. CASE h.form = "from"
  <2>1. h.first \in Int
    <3>1. h \in [form : {"from"}, first : Numbers]
      BY <1>3 DEF Headers
    <3>2. QED
      BY <3>1
  <2>2. CASE h.first \in Bytes
    BY <1>3, <2>2 DEF Served
  <2>3. CASE h.first \notin Bytes
    <3>1. Served(h) = NoRange
      BY <1>3, <2>3 DEF Served
    <3>2. QED
      BY <1>3, <2>1, <2>3, <3>1 DEF NoRange
  <2>4. QED
    BY <2>2, <2>3
<1>4. CASE h.form = "fromto"
  <2>1. h.first \in Int /\ h.last \in Int
    <3>1. h \in [form : {"fromto"}, first : Numbers, last : Numbers]
      BY <1>4 DEF Headers
    <3>2. QED
      BY <3>1
  <2>2. CASE h.first \in Bytes /\ h.first <= h.last
    BY <1>4, <2>1, <2>2 DEF Served
  <2>3. CASE ~(h.first \in Bytes /\ h.first <= h.last)
    <3>1. Served(h) = NoRange
      BY <1>4, <2>3 DEF Served
    <3>2. QED
      BY <1>4, <2>1, <2>3, <3>1 DEF NoRange
  <2>4. QED
    BY <2>2, <2>3
<1>5. QED
  BY <1>1, <1>2, <1>3, <1>4 DEF Headers

\* Whatever is served lies in the file, and has no negative length.
LEMMA ServedIsInFile ==
    ASSUME NEW h \in Headers
    PROVE  /\ Served(h).start \in Nat /\ Served(h).end \in Int
           /\ Served(h).end <= FileSize - 1
           /\ Served(h).start <= Served(h).end + 1
BY ServedByForm, DeliveryAssumption DEF Lesser, Bytes

\* The parser serves the positions RFC 9110 means by the header.
LEMMA ServedIsRequested ==
    ASSUME NEW h \in Headers
    PROVE  Served(h).start .. Served(h).end = Requested(h)
<1> DEFINE wanted == {i \in Bytes :
                        \/ h.form = "suffix" /\ i >= FileSize - h.last
                        \/ h.form = "from" /\ h.first >= 0 /\ i >= h.first
                        \/ h.form = "fromto" /\ h.first >= 0 /\ h.first <= i /\ i <= h.last}
           S == Served(h).start
           E == Served(h).end
<1> USE DeliveryAssumption DEF Bytes
<1>1. Requested(h) = IF wanted = {} THEN Bytes ELSE wanted
  BY DEF Requested
<1>2. CASE /\ h.form = "suffix" /\ h.last \in Int /\ h.last > 0
           /\ S = FileSize - Lesser(h.last, FileSize) /\ E = FileSize - 1
  <2>1. wanted = S .. E
    BY <1>2 DEF Lesser
  <2>2. S \in Int /\ S <= FileSize /\ (FileSize # 0 => S <= FileSize - 1)
    BY <1>2 DEF Lesser
  <2>3. CASE FileSize = 0
    <3>1. S .. E = {} /\ Bytes = {}
      BY <1>2, <2>2, <2>3 DEF Lesser
    <3>2. QED
      BY <1>1, <2>1, <3>1
  <2>4. CASE FileSize # 0
    <3>1. FileSize - 1 \in S .. E
      BY <1>2, <2>2, <2>4
    <3>2. QED
      BY <1>1, <2>1, <3>1
  <2>5. QED
    BY <2>3, <2>4
<1>3. CASE h.form = "from" /\ h.first \in Bytes /\ S = h.first /\ E = FileSize - 1
  <2>1. wanted = S .. E /\ h.first \in wanted
    BY <1>3
  <2>2. QED
    BY <1>1, <2>1
<1>4. CASE /\ h.form = "fromto" /\ h.first \in Bytes /\ h.last \in Int /\ h.first <= h.last
           /\ S = h.first /\ E = Lesser(h.last, FileSize - 1)
  <2>1. wanted = S .. E /\ h.first \in wanted
    BY <1>4 DEF Lesser
  <2>2. QED
    BY <1>1, <2>1
<1>5. CASE /\ \/ h.form = "other"
              \/ h.form = "suffix" /\ h.last \in Int /\ ~(h.last > 0)
              \/ h.form = "from" /\ h.first \in Int /\ h.first \notin Bytes
              \/ /\ h.form = "fromto" /\ h.first \in Int /\ h.last \in Int
                 /\ h.first \notin Bytes \/ ~(h.first <= h.last)
           /\ S = 0 /\ E = FileSize - 1
  <2>1. wanted = {} /\ S .. E = Bytes
    BY <1>5
  <2>2. QED
    BY <1>1, <2>1
<1> HIDE DEF S, E, wanted
<1>6. QED
  BY ServedByForm, <1>2, <1>3, <1>4, <1>5 DEF S, E

\* A range that is served is the one that was asked for, and the Content-Length
\* its number of bytes: for every header and every size of the file, also 0.
LEMMA EveryHeaderIsServedExactly == ServesTheRequested
<1> SUFFICES ASSUME NEW h \in Headers
             PROVE  /\ Served(h).start .. Served(h).end = Requested(h)
                    /\ Served(h).end - Served(h).start + 1 = Cardinality(Requested(h))
  BY DEF ServesTheRequested
<1> DEFINE S == Served(h).start
           E == Served(h).end
<1>1. S \in Int /\ E \in Int /\ S <= E + 1 /\ S .. E = Requested(h)
  BY ServedIsInFile, ServedIsRequested
<1> HIDE DEF S, E
<1>2. Cardinality(S .. E) = IF S > E THEN 0 ELSE E - S + 1
  BY <1>1, FS_Interval
<1>3. E - S + 1 = Cardinality(S .. E)
  BY <1>1, <1>2
<1>4. QED
  BY <1>1, <1>3 DEF S, E
------------------------------------------------------------------------------
(* Requests.                                                               *)

\* Each step changes one request at most, and that in one of these ways.
Begun(d, p, r) ==
    /\ r.at = "copying" /\ r.who = p /\ r.written = 0 /\ r.arrived = 0
    /\ \E h \in Headers :
        MayAsk(p, h) /\ r.start = Served(h).start /\ r.end = Served(h).end

SameRange(d, r) == r.who = dl[d].who /\ r.start = dl[d].start /\ r.end = dl[d].end

\* What becomes of the one request a step changes.
LEMMA RequestSteps ==
    ASSUME TypeOK, NEW d \in Downloads
    PROVE  /\ \A p \in Participants, h \in Headers : DownloadBegin(d, p, h) =>
                \E r \in Running : dl' = [dl EXCEPT ![d] = r] /\ Begun(d, p, r)
           /\ Write(d) => \E r \in Running :
                /\ dl' = [dl EXCEPT ![d] = r] /\ SameRange(d, r) /\ dl[d] \in Running
                /\ dl[d].at = "copying" /\ r.at = "copying" /\ dl[d].written < Expected(d)
                /\ r.written = dl[d].written + 1 /\ r.arrived = dl[d].arrived
           /\ Arrive(d) => \E r \in Running :
                /\ dl' = [dl EXCEPT ![d] = r] /\ SameRange(d, r) /\ dl[d] \in Running
                /\ r.at = dl[d].at /\ r.at # "idle" /\ dl[d].arrived < dl[d].written
                /\ r.written = dl[d].written /\ r.arrived = dl[d].arrived + 1
           /\ Drop(d) \/ CopyEnds(d) \/ Record(d) => \E r \in Running :
                /\ dl' = [dl EXCEPT ![d] = r] /\ SameRange(d, r) /\ dl[d] \in Running
                /\ r.at # "idle"
                /\ r.at = "recording" => dl[d].at = "recording" \/ EarnsDelivery(d)
                /\ r.written = dl[d].written /\ r.arrived = dl[d].arrived
           /\ CopyFails(d) \/ Finish(d) => dl' = [dl EXCEPT ![d] = Idle]
<1>1. /\ dl \in [Downloads -> Running \cup {Idle}]
      /\ dl[d].at # "idle" => dl[d] \in Running
  BY DEF TypeOK, Idle
<1>2. ASSUME NEW p \in Participants, NEW h \in Headers, DownloadBegin(d, p, h)
      PROVE  \E r \in Running : dl' = [dl EXCEPT ![d] = r] /\ Begun(d, p, r)
  <2> DEFINE r == [at |-> "copying", who |-> p, start |-> Served(h).start,
                   end |-> Served(h).end, written |-> 0, arrived |-> 0, up |-> TRUE]
  <2>1. r \in Running
    BY ServedIsInFile DEF Running
  <2>2. Begun(d, p, r)
    BY <1>2 DEF Begun, DownloadBegin
  <2>3. dl' = [dl EXCEPT ![d] = r]
    BY <1>2 DEF DownloadBegin
  <2>4. QED
    BY <2>1, <2>2, <2>3
<1>3. ASSUME Write(d)
      PROVE  \E r \in Running :
                /\ dl' = [dl EXCEPT ![d] = r] /\ SameRange(d, r) /\ dl[d] \in Running
                /\ dl[d].at = "copying" /\ r.at = "copying" /\ dl[d].written < Expected(d)
                /\ r.written = dl[d].written + 1 /\ r.arrived = dl[d].arrived
  <2> DEFINE r == [dl[d] EXCEPT !.written = @ + 1]
  <2>1. /\ dl[d] \in Running /\ dl[d].at = "copying" /\ dl[d].written < Expected(d)
        /\ dl' = [dl EXCEPT ![d] = r]
    BY <1>1, <1>3 DEF Write
  <2>2. /\ r \in Running /\ SameRange(d, r) /\ r.at = "copying"
        /\ r.written = dl[d].written + 1 /\ r.arrived = dl[d].arrived
    BY <2>1 DEF Running, SameRange
  <2>3. QED
    BY <2>1, <2>2
<1>4. ASSUME Arrive(d)
      PROVE  \E r \in Running :
                /\ dl' = [dl EXCEPT ![d] = r] /\ SameRange(d, r) /\ dl[d] \in Running
                /\ r.at = dl[d].at /\ r.at # "idle" /\ dl[d].arrived < dl[d].written
                /\ r.written = dl[d].written /\ r.arrived = dl[d].arrived + 1
  <2> DEFINE r == [dl[d] EXCEPT !.arrived = @ + 1]
  <2>1. /\ dl[d] \in Running /\ dl[d].at # "idle" /\ dl[d].arrived < dl[d].written
        /\ dl' = [dl EXCEPT ![d] = r]
    BY <1>1, <1>4 DEF Arrive
  <2>2. /\ r \in Running /\ SameRange(d, r) /\ r.at = dl[d].at
        /\ r.written = dl[d].written /\ r.arrived = dl[d].arrived + 1
    BY <2>1 DEF Running, SameRange
  <2>3. QED
    BY <2>1, <2>2
<1>5. ASSUME Drop(d) \/ CopyEnds(d) \/ Record(d)
      PROVE  \E r \in Running :
                /\ dl' = [dl EXCEPT ![d] = r] /\ SameRange(d, r) /\ dl[d] \in Running
                /\ r.at # "idle"
                /\ r.at = "recording" => dl[d].at = "recording" \/ EarnsDelivery(d)
                /\ r.written = dl[d].written /\ r.arrived = dl[d].arrived
  <2>1. CASE Drop(d)
    <3> DEFINE r == [dl[d] EXCEPT !.up = FALSE]
    <3>1. dl[d] \in Running /\ dl[d].at # "idle" /\ dl' = [dl EXCEPT ![d] = r]
      BY <1>1, <2>1 DEF Drop
    <3>2. /\ r \in Running /\ SameRange(d, r) /\ r.at = dl[d].at
          /\ r.written = dl[d].written /\ r.arrived = dl[d].arrived
      BY <3>1 DEF Running, SameRange
    <3>3. QED
      BY <3>1, <3>2
  <2>2. CASE CopyEnds(d)
    <3> DEFINE r == [dl[d] EXCEPT !.at = IF EarnsDelivery(d) THEN "recording" ELSE "answered"]
    <3>1. dl[d] \in Running /\ dl' = [dl EXCEPT ![d] = r]
      BY <1>1, <2>2 DEF CopyEnds
    <3>2. /\ r \in Running /\ SameRange(d, r)
          /\ r.at \in {"recording", "answered"} /\ (r.at = "recording" => EarnsDelivery(d))
          /\ r.written = dl[d].written /\ r.arrived = dl[d].arrived
      BY <3>1 DEF Running, SameRange
    <3> HIDE DEF r
    <3>3. QED
      BY <3>1, <3>2
  <2>3. CASE Record(d)
    <3> DEFINE r == [dl[d] EXCEPT !.at = "answered"]
    <3>1. dl[d] \in Running /\ dl' = [dl EXCEPT ![d] = r]
      BY <1>1, <2>3 DEF Record
    <3>2. /\ r \in Running /\ SameRange(d, r) /\ r.at = "answered"
          /\ r.written = dl[d].written /\ r.arrived = dl[d].arrived
      BY <3>1 DEF Running, SameRange
    <3>3. QED
      BY <3>1, <3>2
  <2>4. QED
    BY <1>5, <2>1, <2>2, <2>3
<1>6. CopyFails(d) \/ Finish(d) => dl' = [dl EXCEPT ![d] = Idle]
  BY DEF CopyFails, Finish
<1>7. QED
  BY <1>2, <1>3, <1>4, <1>5, <1>6

\* What the rest of the state does in a step of a request.
LEMMA RequestFrame ==
    ASSUME NEW d \in Downloads
    PROVE  /\ \A p \in Participants, h \in Headers : DownloadBegin(d, p, h) =>
                UNCHANGED <<row, expired, members, deliveries, sent, received, claimed>>
           /\ Write(d) =>
                /\ sent' = [sent EXCEPT ![dl[d].who] = @ \cup {dl[d].start + dl[d].written}]
                /\ UNCHANGED <<row, expired, members, deliveries, received, claimed>>
           /\ Arrive(d) =>
                /\ received' = [received EXCEPT ![dl[d].who] = @ \cup {dl[d].start + dl[d].arrived}]
                /\ UNCHANGED <<row, expired, members, deliveries, sent, claimed>>
           /\ Record(d) =>
                /\ dl[d].at = "recording"
                /\ deliveries' \in {deliveries, WithDelivery(dl[d].who)}
                /\ UNCHANGED <<row, expired, members, sent, received, claimed>>
           /\ Drop(d) \/ CopyFails(d) \/ CopyEnds(d) \/ Finish(d) =>
                UNCHANGED <<row, expired, members, deliveries, sent, received, claimed>>
BY DEF DownloadBegin, Write, Arrive, Record, Drop, CopyFails, CopyEnds, Finish

\* Requests stay in the file: written and arrived are counters with a bound.
LEMMA ControlStep ==
    ASSUME ControlInv, [Next]_vars
    PROVE  ControlInv'
<1> DEFINE Rest == /\ row \in {"absent", "stored", "ready"} /\ expired \in BOOLEAN
                   /\ members \subseteq Participants /\ deliveries \subseteq Participants
                   /\ claimed \subseteq Participants
           Data == /\ sent \in [Participants -> SUBSET Bytes]
                   /\ received \in [Participants -> SUBSET Bytes]
           Requests == /\ dl \in [Downloads -> Running \cup {Idle}]
                       /\ \A d \in Downloads : dl[d].at # "idle" => InFile(dl[d])
<1>1. Rest /\ Data /\ Requests
  BY DEF ControlInv, TypeOK
<1>2. ASSUME Rest', Data', Requests' PROVE ControlInv'
  BY <1>2 DEF ControlInv, TypeOK
<1>3. ASSUME NEW d \in Downloads, NEW r \in Running, InFile(r), dl' = [dl EXCEPT ![d] = r]
      PROVE  Requests'
  BY <1>1, <1>3
<1>4. ASSUME NEW d \in Downloads, dl' = [dl EXCEPT ![d] = Idle] PROVE Requests'
  BY <1>1, <1>4 DEF Idle
<1>5. UNCHANGED dl => Requests'
  BY <1>1
<1>6. ASSUME NEW p \in Participants, Join(p) \/ ClaimDelivered(p) PROVE ControlInv'
  BY <1>1, <1>2, <1>5, <1>6 DEF Join, ClaimDelivered, WithDelivery
<1>7. CASE StatusChanges \/ Expire \/ DeleteRow \/ UNCHANGED vars
  BY <1>1, <1>2, <1>5, <1>7 DEF StatusChanges, Expire, DeleteRow, vars
<1> HIDE DEF Requests
<1>8. ASSUME NEW d \in Downloads
      PROVE  dl[d].at # "idle" => dl[d] \in Running /\ InFile(dl[d])
  BY <1>1 DEF Requests, Idle
<1>9. ASSUME NEW d \in Downloads, NEW p \in Participants, NEW h \in Headers,
             DownloadBegin(d, p, h)
      PROVE  ControlInv'
  <2>1. PICK r \in Running : dl' = [dl EXCEPT ![d] = r] /\ Begun(d, p, r)
    BY <1>9, RequestSteps DEF ControlInv
  <2>2. InFile(r)
    BY <2>1, ServedIsInFile DEF Begun, InFile
  <2>3. Requests'
    BY <1>3, <2>1, <2>2
  <2>4. QED
    BY <1>1, <1>2, <1>9, <2>3, RequestFrame
<1>10. ASSUME NEW d \in Downloads, Write(d) PROVE ControlInv'
  <2>1. PICK r \in Running :
            /\ dl' = [dl EXCEPT ![d] = r] /\ SameRange(d, r) /\ dl[d] \in Running
            /\ dl[d].at = "copying" /\ r.at = "copying" /\ dl[d].written < Expected(d)
            /\ r.written = dl[d].written + 1 /\ r.arrived = dl[d].arrived
    BY <1>10, RequestSteps DEF ControlInv
  <2>2. InFile(dl[d])
    BY <1>8, <2>1
  <2>3. InFile(r) /\ dl[d].start + dl[d].written \in Bytes /\ dl[d].who \in Participants
    BY <2>1, <2>2, DeliveryAssumption DEF InFile, SameRange, Expected, Running, Bytes
  <2>4. Requests'
    BY <1>3, <2>1, <2>3
  <2>5. Data'
    BY <1>1, <1>10, <2>3, RequestFrame
  <2>6. QED
    BY <1>1, <1>2, <1>10, <2>4, <2>5, RequestFrame
<1>11. ASSUME NEW d \in Downloads, Arrive(d) PROVE ControlInv'
  <2>1. PICK r \in Running :
            /\ dl' = [dl EXCEPT ![d] = r] /\ SameRange(d, r) /\ dl[d] \in Running
            /\ r.at = dl[d].at /\ r.at # "idle" /\ dl[d].arrived < dl[d].written
            /\ r.written = dl[d].written /\ r.arrived = dl[d].arrived + 1
    BY <1>11, RequestSteps DEF ControlInv
  <2>2. InFile(dl[d])
    BY <1>8, <2>1
  <2>3. InFile(r) /\ dl[d].start + dl[d].arrived \in Bytes /\ dl[d].who \in Participants
    BY <2>1, <2>2, DeliveryAssumption DEF InFile, SameRange, Running, Bytes
  <2>4. Requests'
    BY <1>3, <2>1, <2>3
  <2>5. Data'
    BY <1>1, <1>11, <2>3, RequestFrame
  <2>6. QED
    BY <1>1, <1>2, <1>11, <2>4, <2>5, RequestFrame
<1>12. ASSUME NEW d \in Downloads, Drop(d) \/ CopyEnds(d) \/ Record(d) PROVE ControlInv'
  <2>1. PICK r \in Running :
            /\ dl' = [dl EXCEPT ![d] = r] /\ SameRange(d, r) /\ dl[d] \in Running
            /\ r.at # "idle"
            /\ r.written = dl[d].written /\ r.arrived = dl[d].arrived
    BY <1>12, RequestSteps DEF ControlInv
  <2>2. dl[d].at # "idle"
    BY <2>1 DEF Running
  <2>3. InFile(r)
    BY <1>8, <2>1, <2>2 DEF InFile, SameRange
  <2>4. Requests'
    BY <1>3, <2>1, <2>3
  <2>5. Rest' /\ Data'
    <3>1. dl[d].who \in Participants
      BY <2>1 DEF Running
    <3>2. QED
      BY <1>1, <1>12, <3>1, RequestFrame DEF WithDelivery
  <2>6. QED
    BY <1>2, <2>4, <2>5
<1>13. ASSUME NEW d \in Downloads, CopyFails(d) \/ Finish(d) PROVE ControlInv'
  <2>1. Requests'
    BY <1>4, <1>13, RequestSteps DEF ControlInv
  <2>2. QED
    BY <1>1, <1>2, <1>13, <2>1, RequestFrame
<1>14. QED
  BY <1>6, <1>7, <1>9, <1>10, <1>11, <1>12, <1>13, Zenon DEF Next
------------------------------------------------------------------------------
(* Deliveries.                                                             *)

\* Rows of file_deliveries come with their foreign keys and go with the file's row.
LEMMA GroundedStep ==
    ASSUME ControlInv, DeliveriesAreGrounded, [Next]_vars
    PROVE  DeliveriesAreGrounded'
<1> USE DEF DeliveriesAreGrounded
<1>1. CASE StatusChanges \/ Expire \/ DeleteRow \/ UNCHANGED vars
  BY <1>1 DEF StatusChanges, Expire, DeleteRow, vars
<1>2. ASSUME NEW p \in Participants, Join(p) \/ ClaimDelivered(p)
      PROVE  DeliveriesAreGrounded'
  BY <1>2 DEF Join, ClaimDelivered, WithDelivery
<1>3. ASSUME NEW d \in Downloads,
             \/ \E p \in Participants, h \in Headers : DownloadBegin(d, p, h)
             \/ Write(d) \/ Arrive(d) \/ Drop(d) \/ CopyFails(d) \/ CopyEnds(d) \/ Finish(d)
      PROVE  DeliveriesAreGrounded'
  <2>1. UNCHANGED <<row, members, deliveries>>
    BY <1>3, RequestFrame
  <2>2. QED
    BY <2>1
<1>4. ASSUME NEW d \in Downloads, Record(d) PROVE DeliveriesAreGrounded'
  BY <1>4, RequestFrame DEF WithDelivery
<1>5. QED
  BY <1>1, <1>2, <1>3, <1>4, Zenon DEF Next

\* A client that only resumes has been written everything before its range.
LEMMA BeginningIsSent ==
    ASSUME ResumeOnly, NEW p \in Participants, NEW h \in Headers, MayAsk(p, h)
    PROVE  0 .. Served(h).start - 1 \subseteq received[p]
<1>1. CASE h.form = "other"
  <2>1. Served(h).start = 0
    BY <1>1, ServedByForm
  <2>2. QED
    BY <2>1
<1>2. CASE h.form = "from" /\ 0 .. h.first - 1 \subseteq received[p]
  <2>1. Served(h).start \in {0, h.first}
    BY <1>2, ServedByForm
  <2>2. QED
    BY <1>2, <2>1
<1>3. QED
  BY <1>1, <1>2 DEF MayAsk

\* A copy that earns a delivery completes the file.
LEMMA EarnedMeansSent ==
    ASSUME TypeOK, NEW d \in Downloads, dl[d] \in Running, InFile(dl[d]), EarnsDelivery(d),
           WrittenBy(dl[d]) \subseteq sent[dl[d].who],
           Before(dl[d]) \subseteq sent[dl[d].who]
    PROVE  sent[dl[d].who] = Bytes
<1>1. /\ dl[d].start \in Nat /\ dl[d].written = FileSize - dl[d].start
      /\ dl[d].who \in Participants
  BY DeliveryAssumption DEF EarnsDelivery, Expected, Running, InFile
<1>2. \A i \in Bytes : i \in WrittenBy(dl[d]) \/ i \in Before(dl[d])
  BY <1>1, DeliveryAssumption DEF Bytes, WrittenBy, Before
<1>3. sent[dl[d].who] \subseteq Bytes
  BY <1>1 DEF TypeOK
<1>4. QED
  BY <1>2, <1>3

\* What is recorded, or about to be, was written: a request's own bytes by its copy,
\* what comes before them by the connections the client resumed from.
LEMMA SentStep ==
    ASSUME ResumeOnly, ControlInv, SentInv, [Next]_vars
    PROVE  SentInv'
<1> DEFINE Got == \A p \in Participants : received[p] \subseteq sent[p]
           Covers(r, s) == /\ WrittenBy(r) \subseteq s /\ Before(r) \subseteq s
                           /\ r.at = "recording" => s = Bytes
           Covered == \A d \in Downloads : dl[d].at # "idle" => Covers(dl[d], sent[dl[d].who])
           Rows == \A p \in deliveries \ claimed : sent[p] = Bytes
           Grows == \A p \in Participants : sent[p] \subseteq sent'[p] /\ sent'[p] \subseteq Bytes
<1>1. Got /\ Covered /\ Rows
  BY DEF SentInv
<1>2. ASSUME Got', Covered', Rows' PROVE SentInv'
  BY <1>2 DEF SentInv
<1>3. /\ sent \in [Participants -> SUBSET Bytes] /\ received \in [Participants -> SUBSET Bytes]
      /\ deliveries \subseteq Participants
      /\ dl \in [Downloads -> Running \cup {Idle}]
  BY DEF ControlInv, TypeOK
<1>4. ASSUME NEW d \in Downloads, dl[d].at # "idle"
      PROVE  dl[d] \in Running /\ InFile(dl[d]) /\ dl[d].who \in Participants
  BY <1>3, <1>4 DEF ControlInv, Running, Idle
<1>5. ASSUME NEW r \in Running, NEW s, NEW t \in SUBSET Bytes, s \subseteq t, Covers(r, s)
      PROVE  Covers(r, t)
  BY <1>5
<1> HIDE DEF Covers
<1>6. ASSUME Grows, UNCHANGED dl PROVE Covered'
  BY <1>1, <1>4, <1>5, <1>6
<1>7. ASSUME Grows, NEW d \in Downloads, NEW r, dl' = [dl EXCEPT ![d] = r],
             r.at # "idle" => Covers(r, sent'[r.who])
      PROVE  Covered'
  <2> SUFFICES ASSUME NEW e \in Downloads, dl'[e].at # "idle"
               PROVE  Covers(dl'[e], sent'[dl'[e].who])
    OBVIOUS
  <2>1. CASE e = d
    BY <1>3, <1>7, <2>1
  <2>2. CASE e # d
    <3>1. dl'[e] = dl[e]
      BY <1>3, <1>7, <2>2
    <3>2. QED
      BY <1>1, <1>4, <1>5, <1>7, <3>1
  <2>3. QED
    BY <2>1, <2>2
<1>8. UNCHANGED sent => Grows
  BY <1>3
<1> HIDE DEF Covered
<1>9. CASE StatusChanges \/ Expire \/ DeleteRow \/ UNCHANGED vars
  <2>1. /\ UNCHANGED <<dl, sent, received, claimed>>
        /\ deliveries' \subseteq deliveries
    BY <1>9 DEF StatusChanges, Expire, DeleteRow, vars
  <2>2. QED
    BY <1>1, <1>2, <1>6, <1>8, <2>1
<1>10. ASSUME NEW p \in Participants, Join(p) \/ ClaimDelivered(p) PROVE SentInv'
  <2>1. /\ UNCHANGED <<dl, sent, received>>
        /\ deliveries' \ claimed' \subseteq deliveries \ claimed
    BY <1>10 DEF Join, ClaimDelivered, WithDelivery
  <2>2. QED
    BY <1>1, <1>2, <1>6, <1>8, <2>1
<1>11. ASSUME NEW d \in Downloads, NEW p \in Participants, NEW h \in Headers,
              DownloadBegin(d, p, h)
       PROVE  SentInv'
  <2>1. PICK r \in Running : dl' = [dl EXCEPT ![d] = r] /\ Begun(d, p, r)
    BY <1>11, RequestSteps DEF ControlInv
  <2>2. UNCHANGED <<deliveries, sent, received, claimed>>
    BY <1>11, RequestFrame
  <2>3. WrittenBy(r) = {}
    <3>1. r.start \in Int /\ r.written = 0
      BY <2>1 DEF Begun, Running
    <3>2. QED
      BY <3>1 DEF WrittenBy
  <2>4. Before(r) \subseteq received[p]
    BY <2>1, BeginningIsSent DEF Begun, Before
  <2>5. Covers(r, sent'[r.who])
    BY <1>1, <2>1, <2>2, <2>3, <2>4 DEF Begun, Covers
  <2>6. Covered'
    BY <1>7, <1>8, <2>1, <2>2, <2>5
  <2>7. QED
    BY <1>1, <1>2, <2>2, <2>6
<1>12. ASSUME NEW d \in Downloads, Write(d) PROVE SentInv'
  <2>1. PICK r \in Running :
            /\ dl' = [dl EXCEPT ![d] = r] /\ SameRange(d, r) /\ dl[d] \in Running
            /\ dl[d].at = "copying" /\ r.at = "copying" /\ dl[d].written < Expected(d)
            /\ r.written = dl[d].written + 1 /\ r.arrived = dl[d].arrived
    BY <1>12, RequestSteps DEF ControlInv
  <2> DEFINE q == dl[d].who
             b == dl[d].start + dl[d].written
  <2>2. /\ sent' = [sent EXCEPT ![q] = @ \cup {b}]
        /\ UNCHANGED <<deliveries, received, claimed>>
    BY <1>12, RequestFrame
  <2>3. InFile(dl[d]) /\ q \in Participants /\ Covers(dl[d], sent[q])
    BY <1>1, <1>4, <2>1 DEF Covered
  <2>4. b \in Bytes /\ dl[d].written \in Nat /\ dl[d].start \in Nat
    BY <2>1, <2>3, DeliveryAssumption DEF InFile, Expected, Running, Bytes
  <2>5. WrittenBy(r) \subseteq WrittenBy(dl[d]) \cup {b} /\ Before(r) = Before(dl[d])
    BY <2>1, <2>4 DEF SameRange, WrittenBy, Before
  <2> HIDE DEF q, b
  <2>6. Grows /\ sent'[q] = sent[q] \cup {b}
    BY <1>3, <2>2, <2>3, <2>4
  <2>7. Covers(r, sent'[r.who])
    BY <2>1, <2>3, <2>5, <2>6 DEF Covers, SameRange, q
  <2>8. Covered'
    BY <1>7, <2>1, <2>6, <2>7
  <2>9. Got' /\ Rows'
    BY <1>1, <1>3, <2>2, <2>6
  <2>10. QED
    BY <1>2, <2>8, <2>9
<1>13. ASSUME NEW d \in Downloads, Arrive(d) PROVE SentInv'
  <2>1. PICK r \in Running :
            /\ dl' = [dl EXCEPT ![d] = r] /\ SameRange(d, r) /\ dl[d] \in Running
            /\ r.at = dl[d].at /\ r.at # "idle" /\ dl[d].arrived < dl[d].written
            /\ r.written = dl[d].written /\ r.arrived = dl[d].arrived + 1
    BY <1>13, RequestSteps DEF ControlInv
  <2> DEFINE q == dl[d].who
             b == dl[d].start + dl[d].arrived
  <2>2. /\ received' = [received EXCEPT ![q] = @ \cup {b}]
        /\ UNCHANGED <<deliveries, sent, claimed>>
    BY <1>13, RequestFrame
  <2>3. InFile(dl[d]) /\ q \in Participants /\ Covers(dl[d], sent[q])
    BY <1>1, <1>4, <2>1 DEF Covered
  <2>4. b \in WrittenBy(dl[d])
    BY <2>1, <2>3 DEF InFile, Running, WrittenBy
  <2>5. WrittenBy(r) = WrittenBy(dl[d]) /\ Before(r) = Before(dl[d]) /\ r.who = q
    BY <2>1 DEF SameRange, WrittenBy, Before
  <2> HIDE DEF q, b
  <2>6. Covers(r, sent'[r.who])
    BY <2>1, <2>2, <2>3, <2>5 DEF Covers
  <2>7. Covered'
    BY <1>7, <1>8, <2>1, <2>2, <2>6
  <2>8. Got'
    BY <1>1, <1>3, <2>2, <2>3, <2>4 DEF Covers
  <2>9. QED
    BY <1>1, <1>2, <2>2, <2>7, <2>8
<1>14. ASSUME NEW d \in Downloads, Drop(d) \/ CopyEnds(d) \/ Record(d) PROVE SentInv'
  <2>1. PICK r \in Running :
            /\ dl' = [dl EXCEPT ![d] = r] /\ SameRange(d, r) /\ dl[d] \in Running
            /\ r.at # "idle"
            /\ r.at = "recording" => dl[d].at = "recording" \/ EarnsDelivery(d)
            /\ r.written = dl[d].written /\ r.arrived = dl[d].arrived
    BY <1>14, RequestSteps DEF ControlInv
  <2>2. dl[d].at # "idle"
    BY <2>1 DEF Running
  <2>3. InFile(dl[d]) /\ dl[d].who \in Participants /\ Covers(dl[d], sent[dl[d].who])
    BY <1>1, <1>4, <2>2 DEF Covered
  <2>4. UNCHANGED <<sent, received, claimed>>
    BY <1>14, RequestFrame
  <2>5. r.at = "recording" => sent[dl[d].who] = Bytes
    BY <2>1, <2>3, EarnedMeansSent DEF Covers, ControlInv
  <2>6. Covers(r, sent'[r.who])
    BY <2>1, <2>3, <2>4, <2>5 DEF Covers, SameRange, WrittenBy, Before
  <2>7. Covered'
    BY <1>7, <1>8, <2>1, <2>4, <2>6
  <2>8. Rows'
    <3>1. UNCHANGED deliveries \/ (dl[d].at = "recording" /\ deliveries' \subseteq deliveries \cup {dl[d].who})
      BY <1>14, RequestFrame DEF WithDelivery
    <3>2. QED
      BY <1>1, <2>3, <2>4, <3>1 DEF Covers
  <2>9. QED
    BY <1>1, <1>2, <2>4, <2>7, <2>8
<1>15. ASSUME NEW d \in Downloads, CopyFails(d) \/ Finish(d) PROVE SentInv'
  <2>1. dl' = [dl EXCEPT ![d] = Idle] /\ UNCHANGED <<deliveries, sent, received, claimed>>
    BY <1>15, RequestFrame, RequestSteps DEF ControlInv
  <2>2. Covered'
    BY <1>7, <1>8, <2>1 DEF Idle
  <2>3. QED
    BY <1>1, <1>2, <2>1, <2>2
<1>16. QED
  BY <1>9, <1>10, <1>11, <1>12, <1>13, <1>14, <1>15, Zenon DEF Next
------------------------------------------------------------------------------
(* The theorems.                                                           *)

\* Before any request the invariant holds.
LEMMA InitIndInv == Init => IndInv
<1> SUFFICES ASSUME Init PROVE IndInv
  OBVIOUS
<1>1. TypeOK /\ \A d \in Downloads : dl[d] = Idle
  BY DEF Init, TypeOK, Running
<1>2. ControlInv
  BY <1>1 DEF ControlInv, Idle
<1>3. DeliveriesAreGrounded
  BY DEF Init, DeliveriesAreGrounded
<1>4. SentInv
  BY <1>1 DEF Init, SentInv, Idle
<1>5. QED
  BY <1>2, <1>3, <1>4 DEF IndInv

\* IndInv is an invariant of the deliveries of a file: no download handler, however slow, and no
\* deletion, however late, breaks what the others rely on.
THEOREM Invariance == Spec => []IndInv
<1>1. IndInv /\ [Next]_vars => IndInv'
  BY ControlStep, GroundedStep, SentStep DEF IndInv
<1>2. QED
  BY InitIndInv, <1>1, PTL DEF Spec

\* Every request's record and every participant's bytes stay well formed, however many
\* downloads of the download handler run side by side.
THEOREM DeliveryTypeCorrect == Spec => []TypeOK
<1>1. IndInv => TypeOK
  BY DEF IndInv, ControlInv
<1>2. QED
  BY Invariance, <1>1, PTL

\* file_deliveries never refers to a participant or a file that is not there, though a
\* download that began before a deletion records after it.
THEOREM RowsAreGrounded == Spec => []DeliveriesAreGrounded
<1>1. IndInv => DeliveriesAreGrounded
  BY DEF IndInv
<1>2. QED
  BY Invariance, <1>1, PTL

\* The handler of a download that resumes earlier ones marks the file delivered to the
\* participant only when those and its own copy have written every byte.
THEOREM DeliveredWasAllSent == Spec => []DeliveredWasSent
<1>1. IndInv => DeliveredWasSent
  BY DEF IndInv, SentInv, DeliveredWasSent
<1>2. QED
  BY Invariance, <1>1, PTL

\* parseRangeHeader and the length computed from it, for every header and file size.
THEOREM ServedRangesAreExact == Spec => []RangesAreExact
<1>1. RangesAreExact
  BY EveryHeaderIsServedExactly DEF RangesAreExact
<1>2. QED
  BY <1>1, PTL

\* A participant's waiting list loses the file by that participant's own download or
\* word, or by a change of the file's row.
THEOREM DeliveryHidesFromItsOwner == Spec => OnlyOwnDeliveryHides
<1> DEFINE Hides == \A p \in Participants :
                      Waiting(p) /\ ~Waiting(p)' =>
                        \/ row' # row
                        \/ p \in claimed'
                        \/ \E d \in Downloads : dl[d].at = "recording" /\ dl[d].who = p
<1>1. [Next]_vars => [Hides]_vars
  <2> SUFFICES ASSUME Next, NEW p \in Participants, Waiting(p), ~Waiting(p)', row' = row
               PROVE  \/ p \in claimed'
                      \/ \E d \in Downloads : dl[d].at = "recording" /\ dl[d].who = p
    BY Zenon
  <2>1. p \notin deliveries /\ p \in deliveries'
    BY DEF Waiting
  <2>2. ASSUME StatusChanges \/ Expire \/ DeleteRow PROVE p \in claimed'
    BY <2>1, <2>2 DEF StatusChanges, Expire, DeleteRow
  <2>3. ASSUME NEW q \in Participants, Join(q) \/ ClaimDelivered(q) PROVE p \in claimed'
    BY <2>1, <2>3 DEF Join, ClaimDelivered, WithDelivery
  <2>4. ASSUME NEW d \in Downloads,
               \/ \E q \in Participants, h \in Headers : DownloadBegin(d, q, h)
               \/ Write(d) \/ Arrive(d) \/ Drop(d) \/ CopyFails(d) \/ CopyEnds(d) \/ Finish(d)
        PROVE  FALSE
    <3>1. deliveries' = deliveries
      BY <2>4, RequestFrame
    <3>2. QED
      BY <2>1, <3>1
  <2>5. ASSUME NEW d \in Downloads, Record(d)
        PROVE  dl[d].at = "recording" /\ dl[d].who = p
    BY <2>1, <2>5, RequestFrame DEF WithDelivery
  <2>6. QED
    BY <2>2, <2>3, <2>4, <2>5, Zenon DEF Next
<1>2. QED
  BY <1>1, PTL DEF Spec, OnlyOwnDeliveryHides
=============================================================================
