--------------------------- MODULE RoomHubSafety ---------------------------
(* What the room promises to its subscribers.                              *)
EXTENDS RoomHub

TypeOK ==
  /\ rows \subseteq Msg
  /\ clients \subseteq Conn /\ closed \subseteq Conn
  /\ peerDown \subseteq Conn /\ readerDone \subseteq Conn
  /\ buffer \in [Conn -> Seq(Envelope)] /\ received \in [Conn -> Seq(Envelope)]
  /\ DOMAIN pc = Actor
  /\ \A c \in Conn : pc[c] \in ConnPC
  /\ \A m \in Msg : pc[m] \in MsgPC
  /\ pub \in [Actor -> [env : Envelope \cup {None}, to : SUBSET Conn]]
  /\ owed \in [Conn -> SUBSET Envelope] /\ missed \in [Conn -> SUBSET Envelope]
  /\ spoiled \subseteq Envelope

(* Everything a subscriber has read or will read, in order.                *)
Feed(c) == received[c] \o buffer[c]
InFeed(c, e) == \E i \in DOMAIN Feed(c) : Feed(c)[i] = e

(* No envelope reaches a subscriber twice, and the task event of a request *)
(* never overtakes the message that announces it, however the publishers   *)
(* interleave.                                                             *)
FeedInOrder ==
  \A c \in Conn : \A i, j \in DOMAIN Feed(c) : i < j =>
    /\ Feed(c)[i] # Feed(c)[j]
    /\ ~(/\ Feed(c)[i].kind = "task.updated"
         /\ Feed(c)[j] = Env("room.message", Feed(c)[i].of))

(* What is still on its way to c.                                          *)
InFlight(c) == {pub[a].env : a \in {b \in Actor : c \in pub[b].to}}

(* A slow subscriber hurts only itself: what a connected subscriber is     *)
(* owed it gets, unless its own buffer was full, or a panic ended the      *)
(* publish.                                                                *)
DeliveredOrFull ==
  \A c \in Conn : pc[c] \in {"hello", "live"} =>
    \A e \in owed[c] :
      InFeed(c, e) \/ e \in missed[c] \cup InFlight(c) \cup spoiled

(* A connection whose client is gone leaves the hub in the end: no channel *)
(* leaks, even if nothing is ever published to it again.                   *)
LostClientIsUnsubscribed ==
  \A c \in Conn : (c \in peerDown) ~> (c \notin clients)

=============================================================================
