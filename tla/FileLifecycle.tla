---------------------------- MODULE FileLifecycle ----------------------------
(***************************************************************************)
(* What the backend promises about one file, whatever requests, events and *)
(* failures are behind it: the file becomes stored and then ready only     *)
(* after all its bytes have landed, the bytes that landed never go away,   *)
(* and a deleted file stays deleted.                                       *)
(***************************************************************************)
VARIABLES
    phase,  \* "fresh", "uploading", "stored", "ready" or "deleted"
    bytes   \* whether all its bytes are in object storage

lifeVars == <<phase, bytes>>

Init == phase = "fresh" /\ bytes = FALSE

Open == phase = "fresh" /\ phase' = "uploading" /\ UNCHANGED bytes

\* Bytes land before the row says so, or again, or after the row was deleted.
Land == bytes' = TRUE /\ UNCHANGED phase

Store ==
    /\ bytes
    /\ phase # "deleted"
    /\ phase' = "stored"
    /\ UNCHANGED bytes

MakeReady ==
    /\ bytes
    /\ phase \in {"stored", "ready"}
    /\ phase' = "ready"
    /\ UNCHANGED bytes

Delete ==
    /\ phase \in {"uploading", "stored", "ready"}
    /\ phase' = "deleted"
    /\ UNCHANGED bytes

Next == Open \/ Land \/ Store \/ MakeReady \/ Delete

Spec == Init /\ [][Next]_lifeVars
==============================================================================
