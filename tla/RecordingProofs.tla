--------------------------- MODULE RecordingProofs ---------------------------
(***************************************************************************)
(* The safety properties of Recording, for every set of recordings, every  *)
(* number of seconds and POSTs and every combination of faults.            *)
(*                                                                         *)
(* IndInv says what each of the four parties may rely on of the others:    *)
(* first the api service and LiveKit, then the events and notes in the     *)
(* hands of the ai-worker, then how many of each there are.                *)
(***************************************************************************)
EXTENDS Recording, FiniteSetTheorems, SequenceTheorems, TLAPS

\* An egress is LiveKit's only after it was asked for, under a key chosen before.
EgressFollowsStart ==
    \A e \in Egresses :
        /\ start[e] \in {"idle", "ask"} => egress[e] = "none"
        /\ start[e] # "idle" => key[e] \in Seconds

\* Audio lies under a key exactly when a recording of that second is complete.
AudioOfCompleted ==
    /\ \A s \in Seconds : audio[s] # NoAudio =>
        egress[audio[s]] = "complete" /\ key[audio[s]] = s
    /\ \A e \in Egresses : egress[e] = "complete" => audio[key[e]] # NoAudio

\* A handler of the webhook knows how the egress ended, and it has ended for good.
HooksKnowTheEnd ==
    \A e \in Egresses, k \in Posts :
        /\ hook[e][k] # "unsent" => Ended(e)
        /\ hook[e][k] \in {"reload", "publish"} => egress[e] = "complete"

\* An event that was published, is queued or is being worked on names a complete
\* recording and the key it was started with.
EventsNameCompleted ==
    /\ \A e \in Egresses : published[e] > 0 => egress[e] = "complete"
    /\ \A i \in DOMAIN topic :
        egress[topic[i].of] = "complete" /\ key[topic[i].of] = topic[i].key
    /\ work.pc # "idle" => egress[work.of] = "complete" /\ key[work.of] = work.key

\* What the ai-worker heard lay under the key of its event, and so with the notes
\* it has written; keys of recordings that have run do not change.
HeardUnderTheKey ==
    /\ work.pc \in {"put", "register", "ready", "announce"} =>
        /\ work.heard # NoAudio
        /\ egress[work.heard] = "complete" /\ key[work.heard] = work.key
    /\ \A i \in DOMAIN files :
        /\ egress[files[i].of] = "complete" /\ egress[files[i].heard] = "complete"
        /\ key[files[i].heard] = key[files[i].of]

\* The ai-worker's last steps are about its newest notes, announced last of all.
NewestIsInHand ==
    /\ work.pc \in {"register", "ready", "announce"} => Newest \in DOMAIN files
    /\ work.pc \in {"register", "ready"} => Newest \notin announced
    /\ work.pc = "announce" => files[Newest].status = "ready"

NotesOn(e) == {i \in DOMAIN files : files[i].of = e}
QueuedFor(e) == {i \in DOMAIN topic : topic[i].of = e}
InHandFor(e) == IF work.pc \in {"hear", "put"} /\ work.of = e THEN 1 ELSE 0
AnsweredFor(e) == {k \in Posts : hook[e][k] = "answered"}

\* Each event becomes notes at most once; an event was written for a POST that was
\* answered after it, or its acknowledgement was lost.
EventsAreCounted ==
    \A e \in Egresses :
        /\ Cardinality(NotesOn(e)) + Cardinality(QueuedFor(e)) + InHandFor(e) <= published[e]
        /\ published[e] <= Cardinality(AnsweredFor(e)) + unacked[e]

IndInv ==
    /\ TypeOK
    /\ EgressFollowsStart
    /\ AudioOfCompleted
    /\ HooksKnowTheEnd
    /\ RowsAgreeWithLiveKit
    /\ EventsNameCompleted
    /\ HeardUnderTheKey
    /\ NewestIsInHand
    /\ AnnouncedNotesAreReady
    /\ EventsAreCounted

\* A stop that is under way still has before it whatever it found and that runs.
StopInv ==
    /\ StopMeansStopped
    /\ stop.pc = "stopping" => stop.found \cap Running \subseteq stop.todo
    /\ \A e \in stop.found : egress[e] # "none"

------------------------------------------------------------------------------
(* Counting.                                                               *)

\* The places of a sequence that hold an element of K.
Places(s, K) == {i \in DOMAIN s : s[i] \in K}

\* A sequence without its head has as many elements of a kind as the whole has
\* after its first place.
LEMMA TailCount ==
    ASSUME NEW S, NEW s \in Seq(S), s # <<>>, NEW K
    PROVE  /\ IsFiniteSet(Places(s, K)) /\ IsFiniteSet(Places(Tail(s), K))
           /\ Cardinality(Places(Tail(s), K)) =
                IF Head(s) \in K THEN Cardinality(Places(s, K)) - 1 ELSE Cardinality(Places(s, K))
<1> USE DEF Places
<1> DEFINE before == Places(s, K)
           after == Places(Tail(s), K)
           f == [i \in after |-> i + 1]
<1>1. /\ Len(s) \in Nat \ {0} /\ DOMAIN s = 1 .. Len(s)
      /\ DOMAIN Tail(s) = 1 .. Len(s) - 1 /\ Head(s) = s[1]
      /\ \A i \in 1 .. Len(s) - 1 : Tail(s)[i] = s[i + 1]
  BY EmptySeq, HeadTailProperties, LenProperties
<1>2. IsFiniteSet(before) /\ IsFiniteSet(after)
  <2>1. IsFiniteSet(1 .. Len(s)) /\ IsFiniteSet(1 .. Len(s) - 1)
    BY <1>1, FS_Interval
  <2>2. before \in SUBSET (1 .. Len(s)) /\ after \in SUBSET (1 .. Len(s) - 1)
    BY <1>1
  <2>3. QED
    BY <2>1, <2>2, FS_Subset
<1>3. f \in Bijection(after, before \ {1})
  <2>1. f \in [after -> before \ {1}]
    BY <1>1
  <2>2. \A i, j \in after : f[i] = f[j] => i = j
    BY <1>1
  <2>3. \A j \in before \ {1} : j - 1 \in after /\ f[j - 1] = j
    BY <1>1
  <2>4. \A j \in before \ {1} : \E i \in after : f[i] = j
    BY <2>3
  <2>5. QED
    BY <2>1, <2>2, <2>4 DEF Bijection, Injection, Surjection, IsInjective
<1>4. Cardinality(after) = Cardinality(before \ {1})
  <2>1. ExistsBijection(after, before \ {1})
    BY <1>3 DEF ExistsBijection
  <2> HIDE DEF after, before
  <2>2. QED
    BY <2>1, <1>2, FS_Bijection
<1>5. 1 \in before <=> Head(s) \in K
  BY <1>1
<1> HIDE DEF after, before
<1>6. Cardinality(before \ {1}) =
          IF 1 \in before THEN Cardinality(before) - 1 ELSE Cardinality(before)
  BY <1>2, FS_RemoveElement
<1>7. QED
  BY <1>2, <1>4, <1>5, <1>6 DEF before, after

\* A sequence with one element more has one more of that element's kinds.
LEMMA AppendCount ==
    ASSUME NEW S, NEW s \in Seq(S), NEW x \in S, NEW K
    PROVE  /\ IsFiniteSet(Places(s, K)) /\ IsFiniteSet(Places(Append(s, x), K))
           /\ Cardinality(Places(Append(s, x), K)) =
                IF x \in K THEN Cardinality(Places(s, K)) + 1 ELSE Cardinality(Places(s, K))
<1> USE DEF Places
<1> DEFINE before == Places(s, K)
           after == Places(Append(s, x), K)
<1>1. /\ Len(s) \in Nat /\ DOMAIN s = 1 .. Len(s)
      /\ DOMAIN Append(s, x) = 1 .. Len(s) + 1
      /\ \A i \in 1 .. Len(s) : Append(s, x)[i] = s[i]
      /\ Append(s, x)[Len(s) + 1] = x
  BY AppendProperties, LenProperties
<1>2. IsFiniteSet(before) /\ Len(s) + 1 \notin before
  <2>1. IsFiniteSet(1 .. Len(s))
    BY <1>1, FS_Interval
  <2>2. before \in SUBSET (1 .. Len(s))
    BY <1>1
  <2>3. IsFiniteSet(before)
    BY <2>1, <2>2, FS_Subset
  <2>4. QED
    BY <1>1, <2>2, <2>3
<1>3. after = IF x \in K THEN before \cup {Len(s) + 1} ELSE before
  BY <1>1
<1> HIDE DEF after, before
<1>4. /\ IsFiniteSet(before \cup {Len(s) + 1})
      /\ Cardinality(before \cup {Len(s) + 1}) = Cardinality(before) + 1
  BY <1>2, FS_AddElement
<1>5. QED
  BY <1>2, <1>3, <1>4 DEF before, after

------------------------------------------------------------------------------
\* Before anything is started the invariant holds.
LEMMA InitIndInv == Init => IndInv
<1> SUFFICES ASSUME Init PROVE IndInv
  OBVIOUS
<1> USE RecordingAssumption DEF Init
<1>1. <<>> \in Seq([of : Egresses, key : Seconds]) /\ <<>> \in Seq(Note)
      /\ DOMAIN topic = {} /\ DOMAIN files = {}
  BY EmptySeq
<1>2. TypeOK
  BY <1>1 DEF TypeOK, Seconds
<1>3. EgressFollowsStart /\ AudioOfCompleted /\ HooksKnowTheEnd /\ RowsAgreeWithLiveKit
  BY DEF EgressFollowsStart, AudioOfCompleted, HooksKnowTheEnd, RowsAgreeWithLiveKit
<1>4. /\ EventsNameCompleted /\ HeardUnderTheKey /\ NewestIsInHand
      /\ AnnouncedNotesAreReady
  BY <1>1 DEF EventsNameCompleted, HeardUnderTheKey, NewestIsInHand,
              AnnouncedNotesAreReady, Resting
<1>5. EventsAreCounted
  <2> SUFFICES ASSUME NEW e \in Egresses
               PROVE  /\ Cardinality(NotesOn(e)) + Cardinality(QueuedFor(e)) + InHandFor(e)
                            <= published[e]
                      /\ published[e] <= Cardinality(AnsweredFor(e)) + unacked[e]
    BY DEF EventsAreCounted
  <2>1. NotesOn(e) = {} /\ QueuedFor(e) = {} /\ AnsweredFor(e) = {} /\ InHandFor(e) = 0
    BY <1>1 DEF NotesOn, QueuedFor, AnsweredFor, InHandFor, Resting
  <2>2. published[e] = 0 /\ unacked[e] = 0
    OBVIOUS
  <2>3. QED
    BY <2>1, <2>2, FS_EmptySet
<1>6. QED
  BY <1>2, <1>3, <1>4, <1>5 DEF IndInv

\* The part of the type invariant about what the api service and LiveKit keep.
ControlTypes ==
    /\ clock \in Seconds
    /\ start \in [Egresses -> {"idle", "ask", "save", "over"}]
    /\ key \in [Egresses -> {0} \cup Seconds]
    /\ egress \in [Egresses -> {"none", "active", "ending", "complete", "failed"}]
    /\ audio \in [Seconds -> Egresses \cup {NoAudio}]
    /\ rec \in [Egresses -> {"absent", "starting", "complete", "failed"}]

ControlVars == <<clock, start, key, egress, audio, rec>>

HandlerPlaces == {"unsent", "mark", "reload", "publish", "answered", "cut off"}
HookTypes == hook \in [Egresses -> [Posts -> HandlerPlaces]]

Event == [of : Egresses, key : Seconds]
Working == [pc : WorkSteps, of : Egresses, key : Seconds, heard : Egresses \cup {NoAudio}]

\* Its part about events and notes.
WorkerTypes ==
    /\ topic \in Seq(Event)
    /\ work = Resting \/ work \in Working
    /\ files \in Seq(Note)
    /\ announced \subseteq DOMAIN files
    /\ published \in [Egresses -> Nat]
    /\ unacked \in [Egresses -> 0 .. MaxUnacked]

\* The ai-worker touches none of what the api service and LiveKit have.
LEMMA WorkerLeavesControl ==
    ASSUME WorkerStep \/ WorkerFails \/ WorkerCrash
    PROVE  UNCHANGED ControlVars /\ UNCHANGED <<hook, stop, published, unacked>>
BY Zenon DEF WorkerStep, WorkerFails, WorkerCrash, WorkerMoves, FetchEvent, HearAudio, PutNotes,
             RegisterNotes, MarkNotesReady, AnnounceNotes, apiVars, ControlVars

\* What the api service and LiveKit know of a recording stays true of it.
LEMMA RecordingStep ==
    ASSUME ControlTypes, EgressFollowsStart, AudioOfCompleted, HooksKnowTheEnd,
           RowsAgreeWithLiveKit, [Next]_vars
    PROVE  /\ ControlTypes' /\ EgressFollowsStart' /\ AudioOfCompleted'
           /\ RowsAgreeWithLiveKit'
<1> DEFINE Kept == /\ ControlTypes' /\ EgressFollowsStart' /\ AudioOfCompleted'
                   /\ RowsAgreeWithLiveKit'
<1> USE RecordingAssumption, NoAudioIsNoEgress
    DEF ControlTypes, EgressFollowsStart, AudioOfCompleted, RowsAgreeWithLiveKit, Seconds
<1>1. ASSUME NEW e \in Egresses, StartBegin(e) PROVE Kept
  BY <1>1 DEF StartBegin, StorageKey
<1>2. ASSUME NEW e \in Egresses, StartEgress(e) PROVE Kept
  BY <1>2 DEF StartEgress
<1>3. ASSUME NEW e \in Egresses, StartSave(e) PROVE Kept
  BY <1>3 DEF StartSave
<1>4. ASSUME NEW e \in Egresses, StartFails(e) PROVE Kept
  BY <1>4 DEF StartFails
<1>5. ASSUME NEW e \in Egresses, EgressEnds(e) PROVE Kept
  <2>1. UNCHANGED <<clock, start, key, rec>>
    BY <1>5, Zenon DEF EgressEnds, apiVars
  <2>2. e \in Egresses /\ egress[e] \in {"active", "ending"} /\ key[e] \in Seconds
    BY <1>5 DEF EgressEnds
  <2>3. CASE egress' = [egress EXCEPT ![e] = "failed"] /\ UNCHANGED audio
    BY <2>1, <2>2, <2>3
  <2>4. CASE egress' = [egress EXCEPT ![e] = "complete"] /\ audio' = [audio EXCEPT ![key[e]] = e]
    <3>1. ControlTypes' /\ EgressFollowsStart' /\ RowsAgreeWithLiveKit'
      BY <2>1, <2>2, <2>4
    <3>2. AudioOfCompleted'
      BY <2>1, <2>2, <2>4
    <3>3. QED
      BY <3>1, <3>2
  <2>5. QED
    BY <1>5, <2>3, <2>4, Zenon DEF EgressEnds
<1>6. ASSUME NEW e \in Egresses, NEW k \in Posts, MarkEnded(e, k) PROVE Kept
  <2>1. /\ \/ egress[e] = "failed" /\ Mark(e, "failed")
           \/ egress[e] = "complete" /\ Mark(e, "complete")
        /\ UNCHANGED <<clock, start, key, egress, audio>>
    BY <1>6, Zenon DEF MarkEnded
  <2>2. QED
    BY <2>1 DEF Mark
<1>7. ASSUME NEW e \in Egresses, StopOne(e) PROVE Kept
  <2>1. /\ \/ egress' = IF e \in Running THEN [egress EXCEPT ![e] = "ending"] ELSE egress
           \/ egress' = egress
        /\ UNCHANGED <<clock, start, key, audio, rec>>
    BY <1>7, Zenon DEF StopOne
  <2>2. QED
    BY <2>1 DEF Running
<1>8. CASE ApiCrash
  BY <1>8 DEF ApiCrash
<1>9. CASE Tick
  BY <1>9 DEF Tick, apiVars
<1>10. CASE UNCHANGED ControlVars
  BY <1>10 DEF ControlVars
<1>11. ASSUME NEW e \in Egresses, NEW k \in Posts,
              PostEnded(e, k) \/ Reload(e, k) \/ PublishReady(e, k) \/ HookFails(e, k)
       PROVE  UNCHANGED ControlVars
  BY <1>11, Zenon DEF PostEnded, Reload, PublishReady, HookFails, ControlVars
<1>12. ASSUME StopBegin \/ StopEnds \/ UNCHANGED vars PROVE UNCHANGED ControlVars
  BY <1>12, Zenon DEF StopBegin, StopEnds, vars, ControlVars
<1>13. QED
  BY <1>1, <1>2, <1>3, <1>4, <1>5, <1>6, <1>7, <1>8, <1>9, <1>10, <1>11, <1>12,
     WorkerLeavesControl, Zenon DEF Next, StartStep, StopStep, HookStep
\* An egress that has ended has ended for good, and its key stays what it is.
LEMMA EndsAreFinal ==
    ASSUME ControlTypes, EgressFollowsStart, [Next]_vars
    PROVE  \A e \in Egresses : Ended(e) => egress'[e] = egress[e] /\ key'[e] = key[e]
<1> DEFINE Final == \A e \in Egresses : Ended(e) => egress'[e] = egress[e] /\ key'[e] = key[e]
<1> USE DEF ControlTypes, EgressFollowsStart, Ended
<1>1. ASSUME NEW e \in Egresses,
             StartBegin(e) \/ StartEgress(e) \/ StartFails(e) \/ EgressEnds(e)
      PROVE  Final
  BY <1>1 DEF StartBegin, StartEgress, StartFails, EgressEnds, apiVars
<1>2. ASSUME NEW e \in Egresses, StopOne(e) PROVE Final
  <2>1. /\ \/ egress' = IF e \in Running THEN [egress EXCEPT ![e] = "ending"] ELSE egress
           \/ egress' = egress
        /\ UNCHANGED key
    BY <1>2, Zenon DEF StopOne
  <2>2. QED
    BY <2>1 DEF Running
<1>3. ASSUME NEW e \in Egresses, StartSave(e) PROVE UNCHANGED <<egress, key>>
  BY <1>3 DEF StartSave
<1>4. ASSUME NEW e \in Egresses, NEW k \in Posts,
             PostEnded(e, k) \/ HookStep(e, k) \/ HookFails(e, k)
      PROVE  UNCHANGED <<egress, key>>
  BY <1>4, Zenon DEF PostEnded, HookStep, MarkEnded, Reload, PublishReady, HookFails
<1>5. ASSUME Tick \/ StopBegin \/ StopEnds \/ ApiCrash \/ UNCHANGED vars
      PROVE  UNCHANGED <<egress, key>>
  BY <1>5, Zenon DEF Tick, StopBegin, StopEnds, ApiCrash, vars, apiVars
<1>6. ASSUME WorkerStep \/ WorkerFails \/ WorkerCrash PROVE UNCHANGED <<egress, key>>
  BY <1>6, WorkerLeavesControl, Zenon DEF ControlVars
<1>7. UNCHANGED <<egress, key>> => Final
  OBVIOUS
<1>8. QED
  BY <1>1, <1>2, <1>3, <1>4, <1>5, <1>6, <1>7, Zenon DEF Next, StartStep, StopStep

\* The webhook's handlers run only for an end.
LEMMA HookStepInv ==
    ASSUME ControlTypes, EgressFollowsStart, HookTypes, HooksKnowTheEnd, [Next]_vars
    PROVE  HookTypes' /\ HooksKnowTheEnd'
<1> DEFINE Moves(e, k, to) == hook' = [hook EXCEPT ![e][k] = to]
<1>1. \A e \in Egresses : Ended(e) => egress'[e] = egress[e]
  BY EndsAreFinal
<1>2. ASSUME NEW e \in Egresses, NEW k \in Posts, NEW to \in HandlerPlaces, Moves(e, k, to)
      PROVE  /\ HookTypes'
             /\ \A x \in Egresses, n \in Posts :
                    hook'[x][n] = IF x = e /\ n = k THEN to ELSE hook[x][n]
  BY <1>2 DEF HookTypes
<1>3. ASSUME NEW e \in Egresses, NEW k \in Posts, NEW to \in HandlerPlaces, Moves(e, k, to),
             Ended(e), to \in {"reload", "publish"} => egress[e] = "complete"
      PROVE  HookTypes' /\ HooksKnowTheEnd'
  <2>1. /\ HookTypes'
        /\ \A x \in Egresses, n \in Posts :
               hook'[x][n] = IF x = e /\ n = k THEN to ELSE hook[x][n]
    BY <1>2, <1>3, Zenon
  <2>2. HooksKnowTheEnd'
    BY <1>1, <1>3, <2>1 DEF HooksKnowTheEnd, Ended
  <2>3. QED
    BY <2>1, <2>2
<1>4. ASSUME NEW e \in Egresses, NEW k \in Posts,
             PostEnded(e, k) \/ HookStep(e, k) \/ HookFails(e, k)
      PROVE  \E to \in HandlerPlaces :
                Moves(e, k, to) /\ Ended(e) /\ (to \in {"reload", "publish"} => egress[e] = "complete")
  <2> USE DEF HandlerPlaces, HooksKnowTheEnd, Ended
  <2>1. CASE PostEnded(e, k)
    BY <2>1 DEF PostEnded
  <2>2. CASE MarkEnded(e, k)
    BY <2>2 DEF MarkEnded
  <2>3. CASE Reload(e, k)
    BY <2>3 DEF Reload
  <2>4. CASE PublishReady(e, k)
    <3>1. hook[e][k] = "publish"
      BY <2>4 DEF PublishReady
    <3>2. Moves(e, k, "answered") \/ Moves(e, k, "publish")
      BY <2>4, <3>1 DEF PublishReady, HookTypes
    <3>3. QED
      BY <3>1, <3>2
  <2>5. CASE HookFails(e, k)
    BY <2>5 DEF HookFails
  <2>6. QED
    BY <1>4, <2>1, <2>2, <2>3, <2>4, <2>5 DEF HookStep
<1>5. CASE ApiCrash
  <2>1. hook' = [e \in Egresses |-> [k \in Posts |->
            IF hook[e][k] \in {"mark", "reload", "publish"} THEN "cut off" ELSE hook[e][k]]]
    BY <1>5, Zenon DEF ApiCrash
  <2>2. QED
    BY <2>1, <1>1 DEF HookTypes, HooksKnowTheEnd, HandlerPlaces, Ended
<1>6. CASE UNCHANGED hook
  <2>1. HookTypes'
    BY <1>6 DEF HookTypes
  <2>2. HooksKnowTheEnd'
    BY <1>6, <1>1 DEF HooksKnowTheEnd, Ended
  <2>3. QED
    BY <2>1, <2>2
<1>7. ASSUME NEW e \in Egresses,
             StartBegin(e) \/ StartStep(e) \/ StartFails(e) \/ EgressEnds(e) \/ StopOne(e)
      PROVE  UNCHANGED hook
  BY <1>7, Zenon DEF StartBegin, StartStep, StartEgress, StartSave, StartFails, EgressEnds,
                     StopOne, apiVars
<1>8. ASSUME Tick \/ StopBegin \/ StopEnds \/ UNCHANGED vars PROVE UNCHANGED hook
  BY <1>8, Zenon DEF Tick, StopBegin, StopEnds, vars, apiVars
<1>9. ASSUME NEW e \in Egresses, NEW k \in Posts,
             PostEnded(e, k) \/ HookStep(e, k) \/ HookFails(e, k)
      PROVE  HookTypes' /\ HooksKnowTheEnd'
  BY <1>9, <1>3, <1>4, Zenon
<1>10. QED
  BY <1>5, <1>6, <1>7, <1>8, <1>9, WorkerLeavesControl, Zenon DEF Next, StopStep
\* The elements of a sequence with one more.
LEMMA AppendElements ==
    ASSUME NEW S, NEW s \in Seq(S), NEW x \in S
    PROVE  /\ Append(s, x) \in Seq(S)
           /\ DOMAIN s \subseteq DOMAIN Append(s, x)
           /\ \A i \in DOMAIN Append(s, x) :
                Append(s, x)[i] = x \/ (i \in DOMAIN s /\ Append(s, x)[i] = s[i])
<1>1. /\ Len(s) \in Nat /\ DOMAIN s = 1 .. Len(s)
      /\ Append(s, x) \in Seq(S) /\ DOMAIN Append(s, x) = 1 .. Len(s) + 1
      /\ \A i \in 1 .. Len(s) : Append(s, x)[i] = s[i]
      /\ Append(s, x)[Len(s) + 1] = x
  BY AppendProperties, LenProperties
<1>2. QED
  BY <1>1

\* Only the webhook's publication and the ai-worker touch events and notes.
LEMMA OtherStepsLeaveEvents ==
    ASSUME [Next]_vars
    PROVE  \/ \E e \in Egresses, k \in Posts : PublishReady(e, k)
           \/ WorkerStep \/ WorkerFails \/ WorkerCrash
           \/ UNCHANGED <<topic, published, unacked, workerVars>>
<1> DEFINE Left == UNCHANGED <<topic, published, unacked, workerVars>>
<1>1. ASSUME NEW e \in Egresses,
             \/ StartBegin(e) \/ StartStep(e) \/ StartFails(e) \/ EgressEnds(e) \/ StopOne(e)
      PROVE  Left
  BY <1>1, Zenon DEF StartBegin, StartStep, StartEgress, StartSave, StartFails, EgressEnds, StopOne
<1>2. ASSUME NEW e \in Egresses, NEW k \in Posts,
             PostEnded(e, k) \/ MarkEnded(e, k) \/ Reload(e, k) \/ HookFails(e, k)
      PROVE  Left
  BY <1>2, Zenon DEF PostEnded, MarkEnded, Reload, HookFails
<1>3. ASSUME Tick \/ StopBegin \/ StopEnds \/ ApiCrash \/ UNCHANGED vars PROVE Left
  BY <1>3, Zenon DEF Tick, StopBegin, StopEnds, ApiCrash, vars, workerVars
<1>4. QED
  BY <1>1, <1>2, <1>3, Zenon DEF Next, HookStep, StopStep

\* Events and notes keep to what LiveKit completed and stored.
LEMMA EventStep ==
    ASSUME ControlTypes, EgressFollowsStart, AudioOfCompleted, HooksKnowTheEnd, WorkerTypes,
           EventsNameCompleted, HeardUnderTheKey, NewestIsInHand, [Next]_vars
    PROVE  WorkerTypes' /\ EventsNameCompleted' /\ HeardUnderTheKey'
<1> DEFINE Kept == WorkerTypes' /\ EventsNameCompleted' /\ HeardUnderTheKey'
           Complete(e) == e \in Egresses /\ egress[e] = "complete"
           GoodEvent(v) == Complete(v.of) /\ key[v.of] = v.key
           GoodNote(n) == Complete(n.of) /\ Complete(n.heard) /\ key[n.heard] = key[n.of]
           GoodWork(w) ==
                /\ w.pc # "idle" => GoodEvent(w)
                /\ w.pc \in {"put", "register", "ready", "announce"} =>
                      w.heard # NoAudio /\ Complete(w.heard) /\ key[w.heard] = w.key
<1>1. \A e : Complete(e) => egress'[e] = "complete" /\ key'[e] = key[e] /\ key[e] \in Seconds
  BY EndsAreFinal DEF Ended, EgressFollowsStart, ControlTypes
<1>2. /\ \A i \in DOMAIN topic : topic[i] \in Event /\ GoodEvent(topic[i])
      /\ \A i \in DOMAIN files : files[i] \in Note /\ GoodNote(files[i])
      /\ GoodWork(work)
      /\ work.pc \in {"idle"} \cup WorkSteps
  <2>1. \A i \in DOMAIN topic : topic[i] \in Event
    BY LenProperties, ElementOfSeq DEF WorkerTypes
  <2>2. \A i \in DOMAIN files : files[i] \in Note
    BY LenProperties, ElementOfSeq DEF WorkerTypes
  <2>3. work.pc # "idle" => work \in Working
    BY DEF WorkerTypes, Resting
  <2>4. QED
    BY <2>1, <2>2, <2>3 DEF EventsNameCompleted, HeardUnderTheKey, Event, Note, Working, WorkerTypes, Resting
<1> DEFINE TopicKept == topic' \in Seq(Event) /\ \A i \in DOMAIN topic' : GoodEvent(topic'[i])
           WorkKept == (work' = Resting \/ work' \in Working) /\ GoodWork(work')
           FilesKept == /\ files' \in Seq(Note)
                        /\ \A i \in DOMAIN files' : GoodNote(files'[i])
                        /\ announced' \subseteq DOMAIN files'
           PublishedKept == /\ published' \in [Egresses -> Nat]
                            /\ unacked' \in [Egresses -> 0 .. MaxUnacked]
                            /\ \A e \in Egresses : published'[e] > 0 => Complete(e)
<1>3. ASSUME TopicKept, WorkKept, FilesKept, PublishedKept PROVE Kept
  <2>1. WorkerTypes'
    BY <1>3 DEF WorkerTypes
  <2>2. EventsNameCompleted'
    BY <1>1, <1>3 DEF EventsNameCompleted
  <2>3. HeardUnderTheKey'
    BY <1>1, <1>3 DEF HeardUnderTheKey
  <2>4. QED
    BY <2>1, <2>2, <2>3
<1>4. /\ UNCHANGED topic => TopicKept
      /\ UNCHANGED work => WorkKept
      /\ UNCHANGED <<files, announced>> => FilesKept
      /\ UNCHANGED <<published, unacked>> => PublishedKept
      /\ work' = Resting => WorkKept
  BY <1>2 DEF WorkerTypes, Resting, EventsNameCompleted
<1> HIDE DEF TopicKept, WorkKept, FilesKept, PublishedKept
<1>5. ASSUME NEW e \in Egresses, NEW k \in Posts, PublishReady(e, k) PROVE Kept
  <2> DEFINE v == [of |-> e, key |-> key[e]]
  <2>1. Complete(e) /\ v \in Event /\ GoodEvent(v)
    BY <1>1, <1>5 DEF PublishReady, HooksKnowTheEnd, Event
  <2>2. topic \in Seq(Event)
    BY DEF WorkerTypes
  <2>3. /\ topic' = Append(topic, v) /\ published' = [published EXCEPT ![e] = @ + 1]
        /\ \/ unacked' = unacked
           \/ unacked[e] < MaxUnacked /\ unacked' = [unacked EXCEPT ![e] = @ + 1]
        /\ UNCHANGED <<work, files, announced>>
    BY <1>5, Zenon DEF PublishReady, workerVars
  <2> HIDE DEF v
  <2>4. /\ topic' \in Seq(Event)
        /\ \A i \in DOMAIN topic' : topic'[i] = v \/ (i \in DOMAIN topic /\ topic'[i] = topic[i])
    <3> DEFINE longer == Append(topic, v)
    <3>0. v \in Event /\ topic \in Seq(Event)
      BY <2>1, <2>2
    <3>1. /\ longer \in Seq(Event)
          /\ \A i \in DOMAIN longer : longer[i] = v \/ (i \in DOMAIN topic /\ longer[i] = topic[i])
      BY <3>0, AppendElements
    <3>2. topic' = longer
      BY <2>3
    <3> HIDE DEF longer
    <3>3. QED
      BY <3>1, <3>2
  <2>5. TopicKept
    BY <1>2, <2>1, <2>4 DEF TopicKept
  <2>6. PublishedKept
    <3>1. /\ published' \in [Egresses -> Nat]
          /\ \A x \in Egresses : published'[x] > 0 => Complete(x)
      BY <2>1, <2>3 DEF WorkerTypes, EventsNameCompleted
    <3>2. unacked \in [Egresses -> 0 .. MaxUnacked] /\ MaxUnacked \in Nat
      BY RecordingAssumption DEF WorkerTypes
    <3>3. CASE unacked' = unacked
      BY <3>1, <3>2, <3>3 DEF PublishedKept
    <3>4. CASE unacked[e] < MaxUnacked /\ unacked' = [unacked EXCEPT ![e] = @ + 1]
      <4>1. unacked[e] + 1 \in 0 .. MaxUnacked
        BY <3>2, <3>4
      <4>2. unacked' \in [Egresses -> 0 .. MaxUnacked]
        BY <3>2, <3>4, <4>1
      <4>3. QED
        BY <3>1, <4>2 DEF PublishedKept
    <3>5. QED
      BY <2>3, <3>3, <3>4
  <2>7. QED
    BY <1>3, <1>4, <2>3, <2>5, <2>6
<1>6. CASE FetchEvent
  <2>1. /\ topic # <<>> /\ topic' = Tail(topic)
        /\ work' = [pc |-> "hear", of |-> Head(topic).of, key |-> Head(topic).key, heard |-> NoAudio]
        /\ UNCHANGED <<files, announced, published, unacked>>
    BY <1>6, Zenon DEF FetchEvent, WorkerMoves
  <2>2. /\ topic' \in Seq(Event) /\ 1 \in DOMAIN topic /\ Head(topic) = topic[1]
        /\ \A i \in DOMAIN topic' : i + 1 \in DOMAIN topic /\ topic'[i] = topic[i + 1]
    BY <2>1, HeadTailProperties, LenProperties, EmptySeq DEF WorkerTypes
  <2>3. TopicKept
    BY <1>2, <2>2 DEF TopicKept
  <2>4. Head(topic) \in Event /\ GoodEvent(Head(topic))
    BY <1>2, <2>2
  <2>5. WorkKept
    BY <2>1, <2>4 DEF WorkKept, Working, WorkSteps, Event
  <2>6. QED
    BY <1>3, <1>4, <2>1, <2>3, <2>5
<1>7. CASE HearAudio
  <2>1. /\ work.pc = "hear"
        /\ work' = IF audio[work.key] = NoAudio THEN Resting
                   ELSE [work EXCEPT !.pc = "put", !.heard = audio[work.key]]
        /\ UNCHANGED <<topic, files, announced, published, unacked>>
    BY <1>7, Zenon DEF HearAudio, WorkerMoves, NotesOf
  <2>2. work \in Working /\ GoodEvent(work)
    BY <1>2, <2>1 DEF WorkerTypes, Resting
  <2>3. WorkKept
    <3>1. CASE audio[work.key] = NoAudio
      BY <1>4, <2>1, <3>1
    <3>2. CASE audio[work.key] # NoAudio
      <4> DEFINE a == audio[work.key]
      <4>1. Complete(a) /\ key[a] = work.key /\ a # NoAudio
        BY <2>2, <3>2 DEF AudioOfCompleted, ControlTypes, Working
      <4>2. work' = [work EXCEPT !.pc = "put", !.heard = a]
        BY <2>1, <3>2
      <4> HIDE DEF a
      <4>3. QED
        BY <2>2, <4>1, <4>2 DEF WorkKept, Working, WorkSteps
    <3>3. QED
      BY <3>1, <3>2
  <2>4. QED
    BY <1>3, <1>4, <2>1, <2>3
<1>8. CASE PutNotes
  <2> DEFINE n == [of |-> work.of, heard |-> work.heard, status |-> "absent"]
  <2>1. /\ work.pc = "put" /\ files' = Append(files, n)
        /\ work' = [work EXCEPT !.pc = "register"]
        /\ UNCHANGED <<topic, announced, published, unacked>>
    BY <1>8, Zenon DEF PutNotes, WorkerMoves
  <2>2. work \in Working /\ GoodWork(work)
    BY <1>2, <2>1 DEF WorkerTypes, Resting
  <2>3. n \in Note /\ GoodNote(n)
    BY <2>1, <2>2 DEF Note, Working
  <2>4. WorkKept
    BY <2>1, <2>2 DEF WorkKept, Working, WorkSteps
  <2>5. files \in Seq(Note) /\ announced \subseteq DOMAIN files
    BY DEF WorkerTypes
  <2> HIDE DEF n
  <2>6. /\ files' \in Seq(Note) /\ DOMAIN files \subseteq DOMAIN files'
        /\ \A i \in DOMAIN files' : files'[i] = n \/ (i \in DOMAIN files /\ files'[i] = files[i])
    <3> DEFINE longer == Append(files, n)
    <3>0. n \in Note /\ files \in Seq(Note)
      BY <2>3, <2>5
    <3>1. /\ longer \in Seq(Note) /\ DOMAIN files \subseteq DOMAIN longer
          /\ \A i \in DOMAIN longer : longer[i] = n \/ (i \in DOMAIN files /\ longer[i] = files[i])
      BY <3>0, AppendElements
    <3>2. files' = longer
      BY <2>1
    <3> HIDE DEF longer
    <3>3. QED
      BY <3>1, <3>2
  <2>7. FilesKept
    BY <1>2, <2>1, <2>3, <2>5, <2>6 DEF FilesKept
  <2>8. QED
    BY <1>3, <1>4, <2>1, <2>4, <2>7
<1>9. ASSUME NEW st \in {"stored", "ready"}, Newest \in DOMAIN files,
             files' = [files EXCEPT ![Newest].status = st], UNCHANGED announced
      PROVE  FilesKept
  <2>1. files \in Seq(Note) /\ announced \subseteq DOMAIN files
    BY DEF WorkerTypes
  <2> DEFINE n == [files[Newest] EXCEPT !.status = st]
  <2>2. n \in Note /\ GoodNote(n)
    BY <1>2, <1>9 DEF Note
  <2>3. files' = [files EXCEPT ![Newest] = n] /\ Newest \in 1 .. Len(files)
    BY <1>9, <2>1, LenProperties
  <2> HIDE DEF n
  <2>4. /\ files' \in Seq(Note) /\ DOMAIN files' = DOMAIN files
        /\ \A i \in DOMAIN files' : files'[i] = n \/ files'[i] = files[i]
    BY <2>1, <2>2, <2>3, ExceptSeq, LenProperties
  <2>5. QED
    BY <1>2, <1>9, <2>1, <2>2, <2>4 DEF FilesKept
<1>10. CASE RegisterNotes \/ MarkNotesReady
  <2>1. /\ work.pc \in {"register", "ready"}
        /\ \E st \in {"stored", "ready"} : files' = [files EXCEPT ![Newest].status = st]
        /\ \E pc \in {"ready", "announce"} : work' = [work EXCEPT !.pc = pc]
        /\ UNCHANGED <<topic, announced, published, unacked>>
    BY <1>10, Zenon DEF RegisterNotes, MarkNotesReady, WorkerMoves
  <2>2. work \in Working /\ GoodWork(work) /\ Newest \in DOMAIN files
    BY <1>2, <2>1 DEF WorkerTypes, Resting, NewestIsInHand
  <2>3. WorkKept
    BY <2>1, <2>2 DEF WorkKept, Working, WorkSteps
  <2>4. FilesKept
    BY <1>9, <2>1, <2>2
  <2>5. QED
    BY <1>3, <1>4, <2>1, <2>3, <2>4
<1>11. CASE AnnounceNotes
  <2>1. /\ work.pc = "announce" /\ announced' = announced \cup {Newest} /\ work' = Resting
        /\ UNCHANGED <<topic, files, published, unacked>>
    BY <1>11, Zenon DEF AnnounceNotes, WorkerMoves
  <2>2. FilesKept
    BY <1>2, <2>1 DEF FilesKept, WorkerTypes, NewestIsInHand
  <2>3. QED
    BY <1>3, <1>4, <2>1, <2>2
<1>12. CASE WorkerFails \/ WorkerCrash
  <2>1. work' = Resting /\ UNCHANGED <<topic, files, announced, published, unacked>>
    BY <1>12, Zenon DEF WorkerFails, WorkerCrash, WorkerMoves
  <2>2. QED
    BY <1>3, <1>4, <2>1
<1>13. CASE UNCHANGED <<topic, published, unacked, workerVars>>
  BY <1>3, <1>4, <1>13 DEF workerVars
<1>14. QED
  BY <1>5, <1>6, <1>7, <1>8, <1>10, <1>11, <1>12, <1>13, OtherStepsLeaveEvents, Zenon
     DEF WorkerStep
\* What the ai-worker announces is ready, and stays so: it only touches its newest
\* notes, and those before they are announced.
LEMMA NotesStep ==
    ASSUME WorkerTypes, HeardUnderTheKey, NewestIsInHand, AnnouncedNotesAreReady,
           [Next]_vars
    PROVE  NewestIsInHand' /\ AnnouncedNotesAreReady'
<1>1. /\ Newest \in Nat /\ DOMAIN files = 1 .. Newest
      /\ \A i \in DOMAIN files : files[i] \in Note
      /\ announced \subseteq 1 .. Newest
      /\ \A i \in announced : files[i].status = "ready"
  BY LenProperties, ElementOfSeq DEF WorkerTypes, Newest, AnnouncedNotesAreReady
<1>2. \A pc \in WorkSteps : work.pc = pc => work \in Working
  BY DEF WorkerTypes, Resting, WorkSteps
<1>3. CASE PutNotes
  <2> DEFINE n == [of |-> work.of, heard |-> work.heard, status |-> "absent"]
             longer == Append(files, n)
  <2>1. work.pc = "put" /\ files' = longer /\ work' = [work EXCEPT !.pc = "register"]
        /\ UNCHANGED announced
    BY <1>3, Zenon DEF PutNotes, WorkerMoves
  <2>2. work \in Working
    BY <1>2, <2>1 DEF WorkSteps
  <2>3. n \in Note /\ files \in Seq(Note)
    BY <2>1, <2>2 DEF Working, Note, HeardUnderTheKey, WorkerTypes
  <2> HIDE DEF n
  <2>4. /\ Len(longer) = Newest + 1 /\ DOMAIN longer = 1 .. Newest + 1
        /\ \A i \in 1 .. Newest : longer[i] = files[i]
    BY <2>3, AppendProperties, LenProperties DEF Newest
  <2> HIDE DEF longer
  <2>5. /\ Newest' = Newest + 1 /\ DOMAIN files' = 1 .. Newest + 1
        /\ \A i \in 1 .. Newest : files'[i] = files[i]
    BY <2>1, <2>4 DEF Newest
  <2>6. work'.pc = "register"
    BY <2>1, <2>2 DEF Working
  <2>7. QED
    BY <1>1, <2>1, <2>5, <2>6 DEF NewestIsInHand, AnnouncedNotesAreReady
<1>4. ASSUME NEW st \in {"stored", "ready"}, NEW pc \in {"ready", "announce"},
             work.pc \in {"register", "ready"}, work' = [work EXCEPT !.pc = pc],
             files' = [files EXCEPT ![Newest].status = st], UNCHANGED announced
      PROVE  /\ work'.pc = pc /\ Newest' = Newest /\ DOMAIN files' = DOMAIN files
             /\ \A i \in DOMAIN files : files'[i].status = IF i = Newest THEN st ELSE files[i].status
             /\ Newest \in DOMAIN files /\ Newest \notin announced
  <2>1. work \in Working /\ Newest \in DOMAIN files /\ Newest \notin announced
    BY <1>2, <1>4 DEF WorkSteps, NewestIsInHand
  <2> DEFINE n == [files[Newest] EXCEPT !.status = st]
             changed == [files EXCEPT ![Newest] = n]
  <2>2. n \in Note /\ n.status = st /\ files \in Seq(Note) /\ Newest \in 1 .. Len(files)
    BY <1>1, <2>1 DEF Note, WorkerTypes, Newest
  <2>3. files' = changed
    BY <1>4
  <2> HIDE DEF n
  <2>4. /\ Len(changed) = Len(files) /\ DOMAIN changed = DOMAIN files
        /\ \A i \in DOMAIN files : changed[i] = IF i = Newest THEN n ELSE files[i]
    BY <2>2, ExceptSeq, LenProperties
  <2> HIDE DEF changed
  <2>5. Newest' = Newest /\ DOMAIN files' = DOMAIN files
        /\ \A i \in DOMAIN files : files'[i] = IF i = Newest THEN n ELSE files[i]
    BY <2>3, <2>4 DEF Newest
  <2>6. QED
    BY <1>4, <2>1, <2>2, <2>5 DEF Working
<1>5. CASE RegisterNotes
  <2>1. /\ work.pc = "register" /\ files' = [files EXCEPT ![Newest].status = "stored"]
        /\ work' = [work EXCEPT !.pc = "ready"] /\ UNCHANGED announced
    BY <1>5, Zenon DEF RegisterNotes, WorkerMoves
  <2>2. QED
    BY <1>1, <1>4, <2>1 DEF NewestIsInHand, AnnouncedNotesAreReady
<1>6. CASE MarkNotesReady
  <2>1. /\ work.pc = "ready" /\ files' = [files EXCEPT ![Newest].status = "ready"]
        /\ work' = [work EXCEPT !.pc = "announce"] /\ UNCHANGED announced
    BY <1>6, Zenon DEF MarkNotesReady, WorkerMoves
  <2>2. QED
    BY <1>1, <1>4, <2>1 DEF NewestIsInHand, AnnouncedNotesAreReady
<1>7. CASE AnnounceNotes
  <2>1. /\ work.pc = "announce" /\ announced' = announced \cup {Newest} /\ work' = Resting
        /\ UNCHANGED files
    BY <1>7, Zenon DEF AnnounceNotes, WorkerMoves
  <2>2. QED
    BY <2>1 DEF NewestIsInHand, AnnouncedNotesAreReady, Resting, Newest
<1>8. ASSUME work' = Resting \/ work'.pc \in {"hear", "put"}, UNCHANGED <<files, announced>>
      PROVE  NewestIsInHand' /\ AnnouncedNotesAreReady'
  BY <1>8 DEF NewestIsInHand, AnnouncedNotesAreReady, Resting, Newest
<1>9. CASE FetchEvent \/ WorkerFails \/ WorkerCrash
  <2>1. /\ work' = Resting \/ \E e, s : work' = [pc |-> "hear", of |-> e, key |-> s, heard |-> NoAudio]
        /\ UNCHANGED <<files, announced>>
    BY <1>9, Zenon DEF FetchEvent, WorkerFails, WorkerCrash
  <2>2. QED
    BY <1>8, <2>1
<1>10. CASE HearAudio
  <2>1. /\ work.pc = "hear" /\ UNCHANGED <<files, announced>>
        /\ work' = Resting \/ \E a : work' = [work EXCEPT !.pc = "put", !.heard = a]
    BY <1>10, Zenon DEF HearAudio, WorkerMoves
  <2>2. work' = Resting \/ work'.pc = "put"
    BY <1>2, <2>1 DEF WorkSteps, Working
  <2>3. QED
    BY <1>8, <2>1, <2>2
<1>11. CASE UNCHANGED <<work, files, announced>>
  BY <1>11 DEF NewestIsInHand, AnnouncedNotesAreReady, Newest
<1>12. ASSUME NEW e \in Egresses, NEW k \in Posts, PublishReady(e, k)
       PROVE  UNCHANGED <<work, files, announced>>
  BY <1>12, Zenon DEF PublishReady, workerVars
<1>13. QED
  BY <1>3, <1>5, <1>6, <1>7, <1>9, <1>10, <1>11, <1>12, OtherStepsLeaveEvents, Zenon
     DEF WorkerStep, workerVars
\* A POST that was answered stays answered, and a publication answers one more or
\* is not acknowledged.
LEMMA AnsweredStep ==
    ASSUME HookTypes, [Next]_vars
    PROVE  /\ \A x \in Egresses : AnsweredFor(x) \subseteq AnsweredFor(x)'
           /\ \A e \in Egresses, k \in Posts :
                PublishReady(e, k) =>
                    \/ k \in AnsweredFor(e)' /\ k \notin AnsweredFor(e) /\ UNCHANGED unacked
                    \/ unacked' = [unacked EXCEPT ![e] = @ + 1]
<1> DEFINE Grows == \A x \in Egresses : AnsweredFor(x) \subseteq AnsweredFor(x)'
           Moves(e, k, to) == hook' = [hook EXCEPT ![e][k] = to]
<1>1. ASSUME NEW e \in Egresses, NEW k \in Posts, NEW to \in HandlerPlaces, Moves(e, k, to)
      PROVE  /\ \A x \in Egresses, n \in Posts : x # e \/ n # k => hook'[x][n] = hook[x][n]
             /\ hook'[e][k] = to
  BY <1>1 DEF HookTypes
<1>2. ASSUME NEW e \in Egresses, NEW k \in Posts, NEW to \in HandlerPlaces, Moves(e, k, to),
             hook[e][k] # "answered"
      PROVE  Grows
  BY <1>1, <1>2 DEF AnsweredFor
<1>3. ASSUME NEW e \in Egresses, NEW k \in Posts,
             PostEnded(e, k) \/ HookStep(e, k) \/ HookFails(e, k)
      PROVE  hook[e][k] # "answered" /\ \E to \in HandlerPlaces : Moves(e, k, to)
  <2>1. CASE PostEnded(e, k)
    BY <2>1 DEF PostEnded, HandlerPlaces
  <2>2. CASE MarkEnded(e, k)
    BY <2>2 DEF MarkEnded, HandlerPlaces
  <2>3. CASE Reload(e, k)
    BY <2>3 DEF Reload, HandlerPlaces
  <2>4. CASE PublishReady(e, k)
    <3>1. hook[e][k] = "publish"
      BY <2>4 DEF PublishReady
    <3>2. Moves(e, k, "answered") \/ Moves(e, k, "publish")
      BY <2>4, <3>1 DEF PublishReady, HookTypes
    <3>3. QED
      BY <3>1, <3>2 DEF HandlerPlaces
  <2>5. CASE HookFails(e, k)
    BY <2>5 DEF HookFails, HandlerPlaces
  <2>6. QED
    BY <1>3, <2>1, <2>2, <2>3, <2>4, <2>5 DEF HookStep
<1>4. ASSUME NEW e \in Egresses, NEW k \in Posts, PublishReady(e, k)
      PROVE  \/ k \in AnsweredFor(e)' /\ k \notin AnsweredFor(e) /\ UNCHANGED unacked
             \/ unacked' = [unacked EXCEPT ![e] = @ + 1]
  <2>1. /\ hook[e][k] = "publish"
        /\ \/ Moves(e, k, "answered") /\ UNCHANGED unacked
           \/ unacked' = [unacked EXCEPT ![e] = @ + 1]
    BY <1>4, Zenon DEF PublishReady
  <2>2. Moves(e, k, "answered") => hook'[e][k] = "answered"
    BY <1>1 DEF HandlerPlaces
  <2>3. Moves(e, k, "answered") => k \in AnsweredFor(e)' /\ k \notin AnsweredFor(e)
    BY <2>1, <2>2 DEF AnsweredFor
  <2> HIDE DEF Moves
  <2>4. QED
    BY <2>1, <2>3
<1>5. ASSUME ApiCrash PROVE Grows
  <2>1. hook' = [e \in Egresses |-> [k \in Posts |->
            IF hook[e][k] \in {"mark", "reload", "publish"} THEN "cut off" ELSE hook[e][k]]]
    BY <1>5, Zenon DEF ApiCrash
  <2>2. \A x \in Egresses, n \in Posts : hook[x][n] = "answered" => hook'[x][n] = "answered"
    BY <2>1
  <2>3. QED
    BY <2>2 DEF AnsweredFor
<1>6. ASSUME UNCHANGED hook PROVE Grows
  BY <1>6 DEF AnsweredFor
<1>7. ASSUME NEW e \in Egresses,
             StartBegin(e) \/ StartStep(e) \/ StartFails(e) \/ EgressEnds(e) \/ StopOne(e)
      PROVE  UNCHANGED hook
  BY <1>7, Zenon DEF StartBegin, StartStep, StartEgress, StartSave, StartFails, EgressEnds,
                     StopOne, apiVars
<1>8. ASSUME Tick \/ StopBegin \/ StopEnds \/ UNCHANGED vars PROVE UNCHANGED hook
  BY <1>8, Zenon DEF Tick, StopBegin, StopEnds, vars, apiVars
<1> HIDE DEF Grows, Moves
<1>9. Grows
  BY <1>2, <1>3, <1>5, <1>6, <1>7, <1>8, WorkerLeavesControl, Zenon DEF Next, StopStep
<1>10. QED
  BY <1>4, <1>9 DEF Grows

\* The sets that are counted are finite, and those over sequences are what
\* TailCount and AppendCount speak of.
LEMMA CountedSets ==
    ASSUME WorkerTypes, NEW x \in Egresses
    PROVE  /\ IsFiniteSet(NotesOn(x)) /\ IsFiniteSet(QueuedFor(x)) /\ IsFiniteSet(AnsweredFor(x))
           /\ NotesOn(x) = Places(files, {n \in Note : n.of = x})
           /\ QueuedFor(x) = Places(topic, {v \in Event : v.of = x})
<1>1. /\ Len(files) \in Nat /\ DOMAIN files = 1 .. Len(files)
      /\ \A i \in DOMAIN files : files[i] \in Note
  BY LenProperties, ElementOfSeq DEF WorkerTypes
<1>2. /\ Len(topic) \in Nat /\ DOMAIN topic = 1 .. Len(topic)
      /\ \A i \in DOMAIN topic : topic[i] \in Event
  BY LenProperties, ElementOfSeq DEF WorkerTypes
<1>3. /\ NotesOn(x) \in SUBSET (1 .. Len(files)) /\ QueuedFor(x) \in SUBSET (1 .. Len(topic))
      /\ AnsweredFor(x) \in SUBSET (1 .. MaxPosts)
  BY <1>1, <1>2 DEF NotesOn, QueuedFor, AnsweredFor, Posts
<1>4. IsFiniteSet(1 .. Len(files)) /\ IsFiniteSet(1 .. Len(topic)) /\ IsFiniteSet(1 .. MaxPosts)
  BY <1>1, <1>2, FS_Interval, RecordingAssumption
<1>5. IsFiniteSet(NotesOn(x)) /\ IsFiniteSet(QueuedFor(x)) /\ IsFiniteSet(AnsweredFor(x))
  BY <1>3, <1>4, FS_Subset
<1>6. QED
  BY <1>1, <1>2, <1>5 DEF NotesOn, QueuedFor, Places

\* A count that grows by one along with one of its two bounds stays within their sum.
LEMMA SumGrows ==
    \A p, a, w, pNext, aNext, wNext \in Nat :
        /\ p <= a + w
        /\ a <= aNext
        /\ w <= wNext
        /\ \/ pNext = p
           \/ pNext = p + 1 /\ (a + 1 <= aNext \/ w + 1 <= wNext)
        => pNext <= aNext + wNext
OBVIOUS

\* No step makes more notes of an event than one, nor, acknowledged, more events
\* of a POST.
LEMMA CountStep ==
    ASSUME ControlTypes, EgressFollowsStart, HookTypes, HooksKnowTheEnd, WorkerTypes,
           WorkerTypes', HeardUnderTheKey, EventsAreCounted, [Next]_vars
    PROVE  EventsAreCounted'
<1> SUFFICES ASSUME NEW x \in Egresses
             PROVE  /\ (Cardinality(NotesOn(x)) + Cardinality(QueuedFor(x)) + InHandFor(x)
                          <= published[x])'
                    /\ (published[x] <= Cardinality(AnsweredFor(x)) + unacked[x])'
  BY DEF EventsAreCounted
<1> DEFINE N == Cardinality(NotesOn(x))
           Q == Cardinality(QueuedFor(x))
           H == InHandFor(x)
           A == Cardinality(AnsweredFor(x))
           P == published[x]
           W == unacked[x]
           Notes == {n \in Note : n.of = x}
           Events == {v \in Event : v.of = x}
<1>1. /\ N \in Nat /\ Q \in Nat /\ A \in Nat /\ P \in Nat
      /\ N' \in Nat /\ Q' \in Nat /\ A' \in Nat /\ P' \in Nat
      /\ W \in Nat /\ W' \in Nat
  <2>1. N \in Nat /\ Q \in Nat /\ A \in Nat
    BY CountedSets, FS_CardinalityType
  <2>2. (N \in Nat /\ Q \in Nat /\ A \in Nat)'
    <3>1. (IsFiniteSet(NotesOn(x)) /\ IsFiniteSet(QueuedFor(x)) /\ IsFiniteSet(AnsweredFor(x)))'
      BY CountedSets, PTL
    <3>2. QED
      BY <3>1, FS_CardinalityType
  <2>3. QED
    BY <2>1, <2>2, RecordingAssumption DEF WorkerTypes
<1>2. /\ N + Q + H <= P /\ P <= A + W /\ H \in Nat /\ H' \in Nat
  BY DEF EventsAreCounted, InHandFor
<1>3. A <= A'
  <2>1. (IsFiniteSet(AnsweredFor(x)))'
    BY CountedSets, PTL
  <2>2. AnsweredFor(x) \in SUBSET (AnsweredFor(x)')
    BY AnsweredStep
  <2>3. QED
    BY <2>1, <2>2, FS_Subset
<1>4. /\ UNCHANGED topic => Q' = Q
      /\ UNCHANGED files => N' = N
      /\ UNCHANGED work => H' = H
      /\ UNCHANGED published => P' = P
      /\ UNCHANGED unacked => W' = W
  BY DEF QueuedFor, NotesOn, InHandFor
<1> DEFINE Counted == N' + Q' + H' <= P' /\ P' <= A' + W'
<1> HIDE DEF N, Q, H, A, P, W
<1>5. /\ topic \in Seq(Event) /\ files \in Seq(Note)
      /\ Q = Cardinality(Places(topic, Events)) /\ Q' = Cardinality(Places(topic', Events))
      /\ N = Cardinality(Places(files, Notes)) /\ N' = Cardinality(Places(files', Notes))
  <2>1. NotesOn(x) = Places(files, Notes) /\ QueuedFor(x) = Places(topic, Events)
    BY CountedSets
  <2>2. (NotesOn(x) = Places(files, Notes) /\ QueuedFor(x) = Places(topic, Events))'
    BY CountedSets, PTL
  <2>3. QED
    BY <2>1, <2>2 DEF WorkerTypes, Q, N
<1> HIDE DEF Notes, Events
<1>6. ASSUME W <= W', A <= A',
             \/ P' = P
             \/ P' = P + 1 /\ (A + 1 <= A' \/ W + 1 <= W')
      PROVE  P' <= A' + W'
  <2>1. P \in Nat /\ A \in Nat /\ W \in Nat /\ P' \in Nat /\ A' \in Nat /\ W' \in Nat
    BY <1>1, Zenon
  <2>2. P <= A + W
    BY <1>2, Zenon
  <2>3. W <= W' /\ A <= A'
    BY <1>6
  <2>4. \/ P' = P
        \/ P' = P + 1 /\ (A + 1 <= A' \/ W + 1 <= W')
    BY <1>6
  <2>5. P' = P => P' <= A' + W'
    BY <2>1, <2>2, <2>3, SumGrows
  <2>6. P' = P + 1 /\ (A + 1 <= A' \/ W + 1 <= W') => P' <= A' + W'
    BY <2>1, <2>2, <2>3, SumGrows
  <2>7. QED
    BY <2>4, <2>5, <2>6
<1>7. ASSUME UNCHANGED <<published, unacked>>, N' + Q' + H' <= P PROVE Counted
  <2>1. P' = P /\ W' = W
    BY <1>4, <1>7
  <2>2. W <= W'
    BY <1>1, <2>1
  <2>3. P' <= A' + W'
    BY <1>3, <1>6, <2>1, <2>2
  <2>4. QED
    BY <1>7, <2>1, <2>3
<1>8. ASSUME NEW e \in Egresses, NEW k \in Posts, PublishReady(e, k) PROVE Counted
  <2> DEFINE v == [of |-> e, key |-> key[e]]
  <2>1. topic' = Append(topic, v) /\ published' = [published EXCEPT ![e] = @ + 1]
        /\ UNCHANGED <<work, files>>
    BY <1>8, Zenon DEF PublishReady, workerVars
  <2>2. v \in Event
    BY <1>8 DEF PublishReady, HooksKnowTheEnd, EgressFollowsStart, ControlTypes, Event
  <2>3. v \in Events <=> x = e
    BY <2>2 DEF Events
  <2> HIDE DEF v
  <2>4. topic \in Seq(Event)
    BY <1>5
  <2>5. Cardinality(Places(Append(topic, v), Events)) =
          IF v \in Events THEN Cardinality(Places(topic, Events)) + 1
          ELSE Cardinality(Places(topic, Events))
    BY <2>2, <2>4, AppendCount
  <2>6. Q' = IF v \in Events THEN Q + 1 ELSE Q
    BY <1>5, <2>1, <2>5
  <2>7. P' = IF x = e THEN P + 1 ELSE P
    BY <2>1 DEF P, WorkerTypes
  <2>8. ASSUME x = e, k \in AnsweredFor(e)', k \notin AnsweredFor(e)
        PROVE  A + 1 <= A'
    <3> DEFINE B == AnsweredFor(x) \cup {k}
    <3>1. k \notin AnsweredFor(x) /\ B \in SUBSET (AnsweredFor(x)')
      BY <2>8, AnsweredStep
    <3>2. IsFiniteSet(AnsweredFor(x)) /\ IsFiniteSet(AnsweredFor(x))'
      <4>1. IsFiniteSet(AnsweredFor(x))
        BY CountedSets
      <4>2. IsFiniteSet(AnsweredFor(x))'
        BY CountedSets, PTL
      <4>3. QED
        BY <4>1, <4>2
    <3>3. Cardinality(B) = A + 1
      BY <3>1, <3>2, FS_AddElement DEF A
    <3> HIDE DEF B
    <3>4. Cardinality(B) <= A'
      BY <3>1, <3>2, FS_Subset DEF A
    <3>5. QED
      BY <3>3, <3>4
  <2>9. \/ W' = W /\ (x = e => A + 1 <= A')
        \/ W' = IF x = e THEN W + 1 ELSE W
    <3>1. \/ k \in AnsweredFor(e)' /\ k \notin AnsweredFor(e) /\ UNCHANGED unacked
          \/ unacked' = [unacked EXCEPT ![e] = @ + 1]
      BY <1>8, AnsweredStep
    <3>2. CASE k \in AnsweredFor(e)' /\ k \notin AnsweredFor(e) /\ UNCHANGED unacked
      BY <1>4, <2>8, <3>2
    <3>3. CASE unacked' = [unacked EXCEPT ![e] = @ + 1]
      BY <3>3 DEF W, WorkerTypes
    <3>4. QED
      BY <3>1, <3>2, <3>3
  <2>10. N' = N /\ H' = H
    BY <1>4, <2>1
  <2>11. N' + Q' + H' <= P'
    BY <1>1, <1>2, <2>3, <2>6, <2>7, <2>10
  <2>12. /\ W <= W'
         /\ \/ P' = P
            \/ P' = P + 1 /\ (A + 1 <= A' \/ W + 1 <= W')
    BY <1>1, <2>7, <2>9
  <2>13. QED
    BY <1>3, <1>6, <2>11, <2>12
<1>9. ASSUME FetchEvent PROVE Counted
  <2>1. /\ work.pc = "idle" /\ topic # <<>> /\ topic' = Tail(topic)
        /\ work' = [pc |-> "hear", of |-> Head(topic).of, key |-> Head(topic).key, heard |-> NoAudio]
        /\ UNCHANGED <<files, published, unacked>>
    BY <1>9, Zenon DEF FetchEvent, WorkerMoves
  <2>2. topic \in Seq(Event)
    BY <1>5
  <2>3. Head(topic) \in Events <=> Head(topic).of = x
    BY <2>1, <2>2, HeadTailProperties DEF Events
  <2>4. Cardinality(Places(Tail(topic), Events)) =
          IF Head(topic) \in Events THEN Cardinality(Places(topic, Events)) - 1
          ELSE Cardinality(Places(topic, Events))
    BY <2>1, <2>2, TailCount
  <2>5. Q' = IF Head(topic) \in Events THEN Q - 1 ELSE Q
    BY <1>5, <2>1, <2>4
  <2>6. H = 0 /\ H' = IF Head(topic).of = x THEN 1 ELSE 0
    BY <2>1 DEF H, InHandFor
  <2>7. N' + Q' + H' <= P
    BY <1>1, <1>2, <1>4, <2>1, <2>3, <2>5, <2>6
  <2>8. QED
    BY <1>7, <2>1, <2>7
<1>10. ASSUME PutNotes PROVE Counted
  <2> DEFINE n == [of |-> work.of, heard |-> work.heard, status |-> "absent"]
  <2>1. /\ work.pc = "put" /\ files' = Append(files, n)
        /\ work' = [work EXCEPT !.pc = "register"]
        /\ UNCHANGED <<topic, published, unacked>>
    BY <1>10, Zenon DEF PutNotes, WorkerMoves
  <2>2. work \in Working
    BY <2>1 DEF WorkerTypes, Resting
  <2>3. n \in Note /\ (n \in Notes <=> work.of = x)
    BY <2>1, <2>2 DEF Note, Working, HeardUnderTheKey, Notes
  <2> HIDE DEF n
  <2>4. files \in Seq(Note)
    BY <1>5
  <2>5. Cardinality(Places(Append(files, n), Notes)) =
          IF n \in Notes THEN Cardinality(Places(files, Notes)) + 1
          ELSE Cardinality(Places(files, Notes))
    BY <2>3, <2>4, AppendCount
  <2>6. N' = IF n \in Notes THEN N + 1 ELSE N
    BY <1>5, <2>1, <2>5
  <2>7. H' = 0 /\ H = IF work.of = x THEN 1 ELSE 0
    BY <2>1, <2>2 DEF H, InHandFor, Working
  <2>8. N' + Q' + H' <= P
    BY <1>1, <1>2, <1>4, <2>1, <2>3, <2>6, <2>7
  <2>9. QED
    BY <1>7, <2>1, <2>8
<1>11. ASSUME RegisterNotes \/ MarkNotesReady PROVE Counted
  <2>1. /\ work.pc \in {"register", "ready"}
        /\ \E st : files' = [files EXCEPT ![Newest].status = st]
        /\ \E pc \in {"ready", "announce"} : work' = [work EXCEPT !.pc = pc]
        /\ UNCHANGED <<topic, published, unacked>>
    BY <1>11, Zenon DEF RegisterNotes, MarkNotesReady, WorkerMoves
  <2>2. work \in Working
    BY <2>1 DEF WorkerTypes, Resting
  <2>3. NotesOn(x)' = NotesOn(x)
    <3>1. \A i \in DOMAIN files : files[i] \in Note
      BY LenProperties, ElementOfSeq DEF WorkerTypes
    <3>2. DOMAIN files' = DOMAIN files /\ \A i \in DOMAIN files : files'[i].of = files[i].of
      BY <2>1, <3>1 DEF Note
    <3>3. QED
      BY <3>2 DEF NotesOn
  <2>4. H' = 0 /\ H = 0
    BY <2>1, <2>2 DEF H, InHandFor, Working
  <2>5. N' + Q' + H' <= P
    BY <1>1, <1>2, <1>4, <2>1, <2>3, <2>4 DEF N
  <2>6. QED
    BY <1>7, <2>1, <2>5
<1>12. ASSUME HearAudio PROVE Counted
  <2>1. work.pc = "hear" /\ UNCHANGED <<topic, files, published, unacked>>
    BY <1>12, Zenon DEF HearAudio, WorkerMoves
  <2>2. work \in Working
    BY <2>1 DEF WorkerTypes, Resting
  <2>3. work' = Resting \/ (work'.pc = "put" /\ work'.of = work.of)
    BY <1>12, <2>2 DEF HearAudio, Working
  <2>4. H' = 0 \/ H' = H
    BY <2>1, <2>3 DEF H, InHandFor, Resting
  <2>5. Q' = Q /\ N' = N
    BY <1>4, <2>1
  <2>6. N' + Q' + H' <= P
    <3>1. CASE H' = 0
      BY <1>1, <1>2, <2>5, <3>1
    <3>2. CASE H' = H
      BY <1>1, <1>2, <2>5, <3>2
    <3>3. QED
      BY <2>4, <3>1, <3>2
  <2>7. QED
    BY <1>7, <2>1, <2>6
<1>13. ASSUME AnnounceNotes \/ WorkerFails \/ WorkerCrash PROVE Counted
  <2>1. work' = Resting /\ UNCHANGED <<topic, files, published, unacked>>
    BY <1>13, Zenon DEF AnnounceNotes, WorkerFails, WorkerCrash, WorkerMoves
  <2>2. H' = 0
    BY <2>1 DEF H, InHandFor, Resting
  <2>3. N' + Q' + H' <= P
    BY <1>1, <1>2, <1>4, <2>1, <2>2
  <2>4. QED
    BY <1>7, <2>1, <2>3
<1>14. ASSUME UNCHANGED <<topic, published, unacked, workerVars>> PROVE Counted
  <2>1. N' + Q' + H' <= P
    BY <1>1, <1>2, <1>4, <1>14 DEF workerVars
  <2>2. QED
    BY <1>7, <1>14, <2>1
<1> HIDE DEF Counted
<1>15. Counted
  BY <1>8, <1>9, <1>10, <1>11, <1>12, <1>13, <1>14, OtherStepsLeaveEvents, Zenon
     DEF WorkerStep
<1>16. QED
  BY <1>15 DEF Counted, N, Q, H, A, P, W
------------------------------------------------------------------------------
(* Stopping.                                                               *)

StopTypes == stop \in [pc : {"idle", "stopping"}, todo : SUBSET Egresses, found : SUBSET Egresses]

\* Only the stop handler and a crash of the api service touch the stop.
LEMMA OtherStepsLeaveStop ==
    ASSUME [Next]_vars
    PROVE  StopBegin \/ StopStep \/ ApiCrash \/ UNCHANGED stop
<1>1. ASSUME NEW e \in Egresses,
             StartBegin(e) \/ StartStep(e) \/ StartFails(e) \/ EgressEnds(e)
      PROVE  UNCHANGED stop
  BY <1>1, Zenon DEF StartBegin, StartStep, StartEgress, StartSave, StartFails, EgressEnds,
                     apiVars
<1>2. ASSUME NEW e \in Egresses, NEW k \in Posts,
             PostEnded(e, k) \/ HookStep(e, k) \/ HookFails(e, k)
      PROVE  UNCHANGED stop
  BY <1>2, Zenon DEF PostEnded, HookStep, MarkEnded, Reload, PublishReady, HookFails
<1>3. ASSUME Tick \/ UNCHANGED vars PROVE UNCHANGED stop
  BY <1>3, Zenon DEF Tick, vars, apiVars
<1>4. QED
  BY <1>1, <1>2, <1>3, WorkerLeavesControl, Zenon DEF Next

\* The stop handler works on recordings.
LEMMA StopTypeStep ==
    ASSUME StopTypes, [Next]_vars
    PROVE  StopTypes'
<1> USE DEF StopTypes
<1>1. CASE StopBegin
  BY <1>1 DEF StopBegin, Running
<1>2. ASSUME NEW e \in Egresses, StopOne(e) PROVE StopTypes'
  BY <1>2 DEF StopOne
<1>3. CASE StopEnds
  BY <1>3 DEF StopEnds
<1>4. CASE ApiCrash
  BY <1>4 DEF ApiCrash
<1>5. CASE UNCHANGED stop
  BY <1>5
<1>6. QED
  BY <1>1, <1>2, <1>3, <1>4, <1>5, OtherStepsLeaveStop DEF StopStep

\* An egress that a stop has found does not begin to run again; and when no call
\* fails, the stop leaves none of those it has dealt with running.
LEMMA StopInvStep ==
    ASSUME "calls" \notin Faults, StopTypes, ControlTypes, EgressFollowsStart, StopInv, [Next]_vars
    PROVE  StopInv'
<1> DEFINE NoneRestarts ==
        \A e \in Egresses : egress[e] # "none" =>
            egress'[e] # "none" /\ (egress'[e] = "active" => egress[e] = "active")
<1>1. NoneRestarts
  <2> USE DEF ControlTypes, EgressFollowsStart
  <2>1. ASSUME NEW e \in Egresses, StartEgress(e) \/ StartFails(e) \/ EgressEnds(e)
        PROVE  NoneRestarts
    BY <2>1 DEF StartEgress, StartFails, EgressEnds
  <2>2. ASSUME NEW e \in Egresses, StopOne(e) PROVE NoneRestarts
    <3>1. \/ egress' = IF e \in Running THEN [egress EXCEPT ![e] = "ending"] ELSE egress
          \/ egress' = egress
      BY <2>2, Zenon DEF StopOne
    <3>2. QED
      BY <3>1 DEF Running
  <2>3. ASSUME NEW e \in Egresses, StartBegin(e) \/ StartSave(e) PROVE UNCHANGED egress
    BY <2>3 DEF StartBegin, StartSave
  <2>4. ASSUME NEW e \in Egresses, NEW k \in Posts,
               PostEnded(e, k) \/ HookStep(e, k) \/ HookFails(e, k)
        PROVE  UNCHANGED egress
    BY <2>4, Zenon DEF PostEnded, HookStep, MarkEnded, Reload, PublishReady, HookFails
  <2>5. ASSUME Tick \/ StopBegin \/ StopEnds \/ ApiCrash \/ UNCHANGED vars
        PROVE  UNCHANGED egress
    BY <2>5, Zenon DEF Tick, StopBegin, StopEnds, ApiCrash, vars
  <2>6. UNCHANGED egress => NoneRestarts
    OBVIOUS
  <2>7. QED
    BY <2>1, <2>2, <2>3, <2>4, <2>5, <2>6, WorkerLeavesControl, Zenon
       DEF Next, StartStep, StopStep, ControlVars
<1>2. /\ stop.found \subseteq Egresses /\ stop.todo \subseteq Egresses
      /\ stop.pc = "idle" => \A e \in stop.found : egress[e] # "active"
      /\ stop.pc = "stopping" => \A e \in stop.found : egress[e] = "active" => e \in stop.todo
      /\ \A e \in stop.found : egress[e] # "none"
      /\ stop.pc \in {"idle", "stopping"}
  BY DEF StopTypes, StopInv, StopMeansStopped, Running
<1>3. ASSUME /\ stop'.found \subseteq Egresses
             /\ stop'.pc = "idle" => \A e \in stop'.found : egress'[e] # "active"
             /\ stop'.pc = "stopping" => \A e \in stop'.found : egress'[e] = "active" => e \in stop'.todo
             /\ \A e \in stop'.found : egress'[e] # "none"
      PROVE  StopInv'
  BY <1>3 DEF StopInv, StopMeansStopped, Running
<1>4. CASE StopBegin
  <2>1. stop' = [pc |-> "stopping", todo |-> Running, found |-> Running] /\ UNCHANGED egress
    BY <1>4, Zenon DEF StopBegin
  <2>2. QED
    BY <1>3, <2>1 DEF Running
<1>5. ASSUME NEW e \in Egresses, StopOne(e) PROVE StopInv'
  <2>1. /\ stop.pc = "stopping" /\ stop' = [stop EXCEPT !.todo = @ \ {e}]
        /\ egress' = IF e \in Running THEN [egress EXCEPT ![e] = "ending"] ELSE egress
    BY <1>5, Zenon DEF StopOne
  <2>2. /\ stop'.pc = "stopping" /\ stop'.found = stop.found
        /\ stop'.todo = stop.todo \ {e}
    BY <2>1 DEF StopTypes
  <2>3. egress'[e] # "active" /\ \A x \in Egresses \ {e} : egress'[x] = egress[x]
    BY <2>1 DEF ControlTypes, Running
  <2>4. QED
    BY <1>1, <1>2, <1>3, <2>1, <2>2, <2>3
<1>6. CASE StopEnds
  <2>1. /\ stop.pc = "stopping" /\ stop.todo = {} /\ UNCHANGED egress
        /\ stop' = [stop EXCEPT !.pc = "idle", !.found = @ \cap Running]
    BY <1>6, Zenon DEF StopEnds
  <2>2. stop'.pc = "idle" /\ stop'.found = stop.found \cap Running
    BY <2>1 DEF StopTypes
  <2>3. stop'.found = {}
    BY <1>2, <2>1, <2>2 DEF Running
  <2>4. QED
    BY <1>3, <2>2, <2>3
<1>7. CASE ApiCrash
  <2>1. stop' = [pc |-> "idle", todo |-> {}, found |-> {}]
    BY <1>7, Zenon DEF ApiCrash
  <2>2. QED
    BY <1>3, <2>1
<1>8. CASE UNCHANGED stop
  BY <1>1, <1>2, <1>3, <1>8
<1>9. QED
  BY <1>4, <1>5, <1>6, <1>7, <1>8, OtherStepsLeaveStop DEF StopStep

------------------------------------------------------------------------------
(* The theorems.                                                           *)

\* The type invariant in the parts that the steps are taken through.
LEMMA TypeParts ==
    TypeOK <=> /\ ControlTypes /\ HookTypes /\ WorkerTypes /\ StopTypes
               /\ \A e \in Egresses : published[e] <= MaxPosts + MaxUnacked
<1>1. published \in [Egresses -> 0 .. MaxPosts + MaxUnacked] <=>
          /\ published \in [Egresses -> Nat]
          /\ \A e \in Egresses : published[e] <= MaxPosts + MaxUnacked
  BY RecordingAssumption
<1>2. QED
  BY <1>1, Zenon DEF TypeOK, ControlTypes, HookTypes, HandlerPlaces, WorkerTypes, Event, Working, StopTypes

\* There are no more events than POSTs and lost acknowledgements, where their
\* counter stops.
LEMMA PublishedAreFew ==
    WorkerTypes /\ EventsAreCounted => \A e \in Egresses : published[e] <= MaxPosts + MaxUnacked
<1> SUFFICES ASSUME WorkerTypes, EventsAreCounted, NEW e \in Egresses
             PROVE  published[e] <= MaxPosts + MaxUnacked
  OBVIOUS
<1>1. /\ published[e] <= Cardinality(AnsweredFor(e)) + unacked[e]
      /\ published[e] \in Nat /\ unacked[e] \in 0 .. MaxUnacked
  BY DEF EventsAreCounted, WorkerTypes
<1>2. IsFiniteSet(1 .. MaxPosts) /\ Cardinality(1 .. MaxPosts) = MaxPosts
  BY FS_Interval, RecordingAssumption
<1>3. AnsweredFor(e) \in SUBSET (1 .. MaxPosts)
  BY DEF AnsweredFor, Posts
<1>4. Cardinality(AnsweredFor(e)) \in Nat /\ Cardinality(AnsweredFor(e)) <= MaxPosts
  BY <1>2, <1>3, FS_Subset, FS_CardinalityType
<1>5. QED
  BY <1>1, <1>4, RecordingAssumption

\* Every step of the four parties preserves the whole invariant.
LEMMA IndInvStep == IndInv /\ [Next]_vars => IndInv'
<1> SUFFICES ASSUME IndInv, [Next]_vars PROVE IndInv'
  OBVIOUS
<1>1. ControlTypes /\ HookTypes /\ WorkerTypes /\ StopTypes
  BY TypeParts DEF IndInv
<1>2. /\ ControlTypes' /\ EgressFollowsStart' /\ AudioOfCompleted' /\ RowsAgreeWithLiveKit'
  BY <1>1, RecordingStep DEF IndInv
<1>3. HookTypes' /\ HooksKnowTheEnd'
  BY <1>1, HookStepInv DEF IndInv
<1>4. WorkerTypes' /\ EventsNameCompleted' /\ HeardUnderTheKey'
  BY <1>1, EventStep DEF IndInv
<1>5. NewestIsInHand' /\ AnnouncedNotesAreReady'
  BY <1>1, NotesStep DEF IndInv
<1>6. EventsAreCounted'
  BY <1>1, <1>4, CountStep DEF IndInv
<1>7. StopTypes'
  BY <1>1, StopTypeStep
<1>8. (\A e \in Egresses : published[e] <= MaxPosts + MaxUnacked)'
  BY <1>4, <1>6, PublishedAreFew, PTL
<1>9. TypeOK'
  BY <1>2, <1>3, <1>4, <1>7, <1>8, TypeParts, PTL
<1>10. QED
  BY <1>2, <1>3, <1>4, <1>5, <1>6, <1>9 DEF IndInv

\* IndInv is an invariant of the recordings of a room.
LEMMA Invariance == Spec => []IndInv
BY InitIndInv, IndInvStep, PTL DEF Spec

\* The state of the recordings, of their handlers, events and notes is well-typed;
\* in particular no egress has more events than LiveKit may send POSTs and
\* acknowledgements may be lost.
THEOREM RecordingTypeCorrect == Spec => []TypeOK
<1>1. IndInv => TypeOK
  BY DEF IndInv
<1>2. QED
  BY <1>1, Invariance, PTL

\* Behind every RecordingReadyEvent is a recording that LiveKit completed and
\* audio under its key.
THEOREM ReadyEventsAreBacked == Spec => []ReadyEventIsBacked
<1>1. IndInv => ReadyEventIsBacked
  BY DEF IndInv, EventsNameCompleted, AudioOfCompleted, ReadyEventIsBacked
<1>2. QED
  BY <1>1, Invariance, PTL

\* recordings.status never says of an egress what LiveKit did not.
THEOREM RowsAgree == Spec => []RowsAgreeWithLiveKit
<1>1. IndInv => RowsAgreeWithLiveKit
  BY DEF IndInv
<1>2. QED
  BY <1>1, Invariance, PTL

\* Notes are of the audio that lies under their recording's key, hence of that
\* recording when no other was started in the same second.
THEOREM NotesAreTheirs == Spec => []NotesAreOfTheirRecording
<1>1. IndInv => NotesAreOfTheirRecording
  <2> SUFFICES ASSUME IndInv, NEW i \in DOMAIN files
               PROVE  /\ key[files[i].heard] = key[files[i].of]
                      /\ (\A x \in Egresses \ {files[i].of} : key[x] # key[files[i].of])
                            => files[i].heard = files[i].of
    BY DEF NotesAreOfTheirRecording
  <2>1. files[i] \in Note
    <3>1. files \in Seq(Note)
      BY TypeParts DEF IndInv, WorkerTypes
    <3>2. QED
      BY <3>1, ElementOfSeq, LenProperties
  <2>2. key[files[i].heard] = key[files[i].of]
    BY DEF IndInv, HeardUnderTheKey
  <2>3. QED
    BY <2>1, <2>2 DEF Note
<1>2. QED
  BY <1>1, Invariance, PTL

\* What duplicates notes is LiveKit's repeated webhook or the producer's repeated
\* write, and nothing the ai-worker does.
THEOREM NotesAreFew == Spec => []NoMoreNotesThanWrites
<1>1. IndInv => NoMoreNotesThanWrites
  <2> SUFFICES ASSUME IndInv, NEW e \in Egresses
               PROVE  /\ Cardinality(NotesOn(e)) <= published[e]
                      /\ published[e] <= Cardinality(AnsweredFor(e)) + unacked[e]
    BY DEF NoMoreNotesThanWrites, NotesOn, AnsweredFor
  <2>1. WorkerTypes /\ EventsAreCounted
    BY TypeParts DEF IndInv
  <2>2. /\ Cardinality(NotesOn(e)) \in Nat /\ Cardinality(QueuedFor(e)) \in Nat
        /\ InHandFor(e) \in Nat /\ published[e] \in Nat
    <3>1. IsFiniteSet(NotesOn(e)) /\ IsFiniteSet(QueuedFor(e))
      BY <2>1, CountedSets
    <3>2. QED
      BY <2>1, <3>1, FS_CardinalityType DEF WorkerTypes, InHandFor
  <2>3. /\ Cardinality(NotesOn(e)) + Cardinality(QueuedFor(e)) + InHandFor(e) <= published[e]
        /\ published[e] <= Cardinality(AnsweredFor(e)) + unacked[e]
    BY <2>1 DEF EventsAreCounted
  <2>4. QED
    BY <2>2, <2>3
<1>2. QED
  BY <1>1, Invariance, PTL

\* Notes the room was told of are ready, whichever step of the ai-worker failed or
\* was cut short by a crash.
THEOREM AnnouncedAreReady == Spec => []AnnouncedNotesAreReady
<1>1. IndInv => AnnouncedNotesAreReady
  BY DEF IndInv
<1>2. QED
  BY <1>1, Invariance, PTL

\* When no call to LiveKit fails, a stop that was answered has stopped everything it
\* found, whatever was started, ended or crashed meanwhile.  (A failed call is only
\* logged by the handler, so that without the hypothesis it does not hold.)
THEOREM StopsAreComplete ==
    ASSUME "calls" \notin Faults
    PROVE  Spec => []StopMeansStopped
<1>1. Init => StopInv
  BY DEF Init, StopInv, StopMeansStopped
<1>2. IndInv /\ StopInv /\ [Next]_vars => StopInv'
  BY StopInvStep, TypeParts DEF IndInv
<1>3. StopInv => StopMeansStopped
  BY DEF StopInv
<1>4. QED
  BY <1>1, <1>2, <1>3, Invariance, PTL DEF Spec
=============================================================================
