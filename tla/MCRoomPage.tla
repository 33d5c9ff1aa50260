----------------------------- MODULE MCRoomPage ------------------------------
(* One page in one room.                                                    *)
EXTENDS RoomPage

MCRoomOf == [p \in Clients |-> "math"]
==============================================================================
