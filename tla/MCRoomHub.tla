----------------------------- MODULE MCRoomHub -----------------------------
(* Instances of the room hub for TLC.                                      *)
EXTENDS RoomHubSafety
=============================================================================
