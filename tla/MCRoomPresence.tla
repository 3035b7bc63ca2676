--------------------------- MODULE MCRoomPresence ---------------------------
(* Instances of the presence of a member for TLC.                          *)
EXTENDS RoomPresenceSafety
=============================================================================
