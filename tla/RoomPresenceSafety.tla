------------------------ MODULE RoomPresenceSafety ------------------------
(* What the room promises about who is online.                             *)
EXTENDS RoomPresence

TypeOK ==
  /\ seen \in Age /\ online \in Age /\ stored \in Age /\ listed \in BOOLEAN
  /\ conn \in [Conn -> {"none", "joining", "live", "leaving", "gone"}]
  /\ pinging \subseteq Conn
  /\ touch \in [Toucher -> [step : {"idle", "row", "set", "hash"},
                            on : BOOLEAN]]
  /\ sweep \in {"idle", "rows", "srem", "hdel", "scan", "drop", "unlist"}
  /\ faults \in 0..FaultBound

(* Nobody touches the member any more.                                     *)
Quiet ==
  /\ \A c \in Conn : conn[c] \in {"none", "gone"}
  /\ \A a \in Toucher : ~Busy(a)

(* A member whose connections are gone does not stay online, in the map or *)
(* in the store, whatever its last touches left behind: the touches of two *)
(* connections may interleave, commands of the store may fail, the server  *)
(* may restart between two of them.                                        *)
GoneGoesOffline ==
  Quiet ~> (~Quiet \/ (online = "none" /\ ~listed /\ stored = "none"))

(* The closing of one of two connections marks the member offline, and so  *)
(* may the sweep that read an old time; while the other one lives, its     *)
(* pings bring the member back, in the map and in the store.               *)
Live == \E c \in Conn : conn[c] = "live" /\ c \in pinging
LiveComesBack ==
  /\ Live ~> (~Live \/ online # "none")
  /\ Live ~> (~Live \/ listed)
  /\ Live ~> (~Live \/ stored # "none")

=============================================================================
