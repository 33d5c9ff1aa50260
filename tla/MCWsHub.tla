------------------------------- MODULE MCWsHub -------------------------------
(* Two browsers in one room; the other room has events but no browsers.     *)
EXTENDS WsHub

MCRoomOf == [c \in Clients |-> "math"]
==============================================================================
