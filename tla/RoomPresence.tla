---------------------------- MODULE RoomPresence ----------------------------
(***************************************************************************)
(* Who is online in the room of a project.  One member - an agent or the   *)
(* operator - is enough to say it: nothing relates two members.            *)
(*   core/internal/service/room/service.go    touchPresence and the sweep  *)
(*   core/internal/http/handlers/room_ws.go   who touches, and when        *)
(*                                                                         *)
(* The answer is kept three times: last_seen_at of the member's row, the   *)
(* map onlineMembers of the server, and two keys of the presence store (a  *)
(* set of members and a hash of times).  A touch writes them one after the *)
(* other; connections, their readers, requests and the sweep do so at the  *)
(* same time.  An entry is "fresh" until it is older than the TTL.         *)
(***************************************************************************)
EXTENDS Naturals, FiniteSets

CONSTANTS
  Conn,       \* requests that touch the member: the websocket connections
              \* and, as one that is never upgraded, SendMessage
  FaultBound  \* bound of the model: failed statements and restarts

ASSUME FaultAssumption == FaultBound \in Nat

VARIABLES
  seen,      \* project_room_members.last_seen_at; "none" without a row
  online,    \* onlineMembers of the server
  listed,    \* is the member in the set room:presence:..:online?
  stored,    \* its entry of the hash room:presence:..:connections
  conn,      \* where Connect is, for each connection
  pinging,   \* connections whose reader goroutine has not ended
  touch,     \* touchPresence in progress, per goroutine
  sweep,     \* CleanupStalePresence
  faults

tables == <<seen, online, listed, stored>>
vars == <<tables, conn, pinging, touch, sweep, faults>>

Reader(c) == <<"reader", c>>
Toucher == Conn \cup {Reader(c) : c \in Conn}
Age == {"none", "fresh", "stale"}

Idle == [step |-> "idle", on |-> FALSE]
Touch(on) == [step |-> "row", on |-> on]
Busy(a) == touch[a] # Idle

Init ==
  /\ seen = "none" /\ online = "none" /\ listed = FALSE /\ stored = "none"
  /\ conn = [c \in Conn |-> "none"] /\ pinging = {}
  /\ touch = [a \in Toucher |-> Idle]
  /\ sweep = "idle" /\ faults = 0

---------------------------------------------------------------------------
(* touchPresence and syncPresenceStore                                     *)

Goto(a, step) == touch' = [touch EXCEPT ![a].step = step]
EndTouch(a) == touch' = [touch EXCEPT ![a] = Idle]

(* The upsert of the row and then, under onlineMu, the map: nobody can     *)
(* tell the two steps apart.                                               *)
InMap(a) == IF touch[a].on THEN "fresh" ELSE "none"

(* Bug variant of TouchRow: a member that is in the map already is not     *)
(* written to the presence store again.                                    *)
TouchRowOnce(a) ==
  /\ touch[a].step = "row"
  /\ seen' = "fresh" /\ online' = InMap(a)
  /\ IF touch[a].on /\ online # "none" THEN EndTouch(a) ELSE Goto(a, "set")
  /\ UNCHANGED <<listed, stored, conn, pinging, sweep, faults>>

TouchRow(a) ==
  /\ touch[a].step = "row"
  /\ seen' = "fresh" /\ online' = InMap(a)
  /\ Goto(a, "set")
  /\ UNCHANGED <<listed, stored, conn, pinging, sweep, faults>>

(* SADD or SREM, then HSET or HDEL.                                        *)
TouchSet(a) ==
  /\ touch[a].step = "set"
  /\ listed' = touch[a].on
  /\ Goto(a, "hash")
  /\ UNCHANGED <<seen, online, stored, conn, pinging, sweep, faults>>

TouchHash(a) ==
  /\ touch[a].step = "hash"
  /\ stored' = IF touch[a].on THEN "fresh" ELSE "none"
  /\ EndTouch(a)
  /\ UNCHANGED <<seen, online, listed, conn, pinging, sweep, faults>>

(* A failed upsert ends the touch; a failed command of the store is logged *)
(* and the next one is tried.  Once the connection of a reader is gone its *)
(* context is cancelled and everything it tries fails.                     *)
Cancelled(a) == \E c \in Conn : a = Reader(c) /\ conn[c] = "gone"

TouchFails(a) ==
  /\ touch[a].step \in {"row", "set", "hash"}
  /\ \/ Cancelled(a) /\ UNCHANGED faults
     \/ faults < FaultBound /\ faults' = faults + 1
  /\ IF touch[a].step = "set" THEN Goto(a, "hash") ELSE EndTouch(a)
  /\ UNCHANGED <<tables, conn, pinging, sweep>>

---------------------------------------------------------------------------
(* RoomWebSocketHandler.Connect                                            *)

Connect(c) ==
  /\ conn[c] = "none"
  /\ conn' = [conn EXCEPT ![c] = "joining"]
  /\ touch' = [touch EXCEPT ![c] = Touch(TRUE)]
  /\ UNCHANGED <<tables, pinging, sweep, faults>>

(* The touch is done, or failed, and the connection is upgraded, or not:   *)
(* one that is not leaves its member online.  The hello that cannot be     *)
(* written is Leave before the first ping.                                 *)
Upgrade(c, ok) ==
  /\ conn[c] = "joining" /\ ~Busy(c)
  /\ conn' = [conn EXCEPT ![c] = IF ok THEN "live" ELSE "gone"]
  /\ pinging' = IF ok THEN pinging \cup {c} ELSE pinging
  /\ UNCHANGED <<tables, touch, sweep, faults>>

(* The reader touches at every message, the pings of the client among them.*)
Ping(c) ==
  /\ c \in pinging /\ conn[c] \in {"live", "leaving"} /\ ~Busy(Reader(c))
  /\ touch' = [touch EXCEPT ![Reader(c)] = Touch(TRUE)]
  /\ UNCHANGED <<tables, conn, pinging, sweep, faults>>

ReaderEnds(c) ==
  /\ c \in pinging /\ conn[c] # "none" /\ ~Busy(Reader(c))
  /\ pinging' = pinging \ {c}
  /\ UNCHANGED <<tables, conn, touch, sweep, faults>>

(* The main loop ends: the reader has, or a write failed.                  *)
Leave(c) ==
  /\ conn[c] = "live"
  /\ conn' = [conn EXCEPT ![c] = "leaving"]
  /\ touch' = [touch EXCEPT ![c] = Touch(FALSE)]
  /\ UNCHANGED <<tables, pinging, sweep, faults>>

Return(c) ==
  /\ conn[c] = "leaving" /\ ~Busy(c)
  /\ conn' = [conn EXCEPT ![c] = "gone"]
  /\ UNCHANGED <<tables, pinging, touch, sweep, faults>>

---------------------------------------------------------------------------
(* CleanupStalePresence and cleanupPresenceStore.  The statements on a     *)
(* member of a list that was read before are steps of their own.           *)

SweepTo(step) == sweep' = step

(* Bug variant of SweepMap: the map is left to the connections.            *)
SweepMapNothing ==
  /\ sweep = "idle" /\ SweepTo("rows")
  /\ UNCHANGED <<tables, conn, pinging, touch, faults>>

SweepMap ==
  /\ sweep = "idle"
  /\ online' = IF online = "stale" THEN "none" ELSE online
  /\ SweepTo("rows")
  /\ UNCHANGED <<seen, listed, stored, conn, pinging, touch, faults>>

SweepRows ==
  /\ sweep = "rows"
  /\ SweepTo(IF seen = "stale" THEN "srem" ELSE "scan")
  /\ UNCHANGED <<tables, conn, pinging, touch, faults>>

SweepRowSet ==
  /\ sweep = "srem" /\ listed' = FALSE /\ SweepTo("hdel")
  /\ UNCHANGED <<seen, online, stored, conn, pinging, touch, faults>>

SweepRowHash ==
  /\ sweep = "hdel" /\ stored' = "none" /\ SweepTo("scan")
  /\ UNCHANGED <<seen, online, listed, conn, pinging, touch, faults>>

(* SCAN and HGETALL                                                        *)
SweepScan ==
  /\ sweep = "scan"
  /\ SweepTo(IF stored = "stale" THEN "drop" ELSE "idle")
  /\ UNCHANGED <<tables, conn, pinging, touch, faults>>

SweepHash ==
  /\ sweep = "drop" /\ stored' = "none" /\ SweepTo("unlist")
  /\ UNCHANGED <<seen, online, listed, conn, pinging, touch, faults>>

SweepSet ==
  /\ sweep = "unlist" /\ listed' = FALSE /\ SweepTo("idle")
  /\ UNCHANGED <<seen, online, stored, conn, pinging, touch, faults>>

(* A failed query or scan ends the sweep, a failed SREM or HDEL does not.  *)
SweepFails ==
  /\ sweep # "idle" /\ faults < FaultBound /\ faults' = faults + 1
  /\ SweepTo(CASE sweep = "srem" -> "hdel"
               [] sweep = "hdel" -> "scan"
               [] sweep = "drop" -> "unlist"
               [] OTHER -> "idle")
  /\ UNCHANGED <<tables, conn, pinging, touch>>

---------------------------------------------------------------------------
(* The TTL is far longer than a touch or a sweep: entries grow stale       *)
(* between them.                                                           *)
Settled == sweep = "idle" /\ \A a \in Toucher : ~Busy(a)

AgeOf(x) == IF x = "fresh" THEN "stale" ELSE x

Elapse ==
  /\ Settled
  /\ "fresh" \in {seen, online, stored}
  /\ seen' = AgeOf(seen) /\ online' = AgeOf(online) /\ stored' = AgeOf(stored)
  /\ UNCHANGED <<listed, conn, pinging, touch, sweep, faults>>

(* A restart loses the map and the connections, not the store.             *)
Restart ==
  /\ faults < FaultBound /\ faults' = faults + 1
  /\ online' = "none" /\ pinging' = {} /\ sweep' = "idle"
  /\ conn' = [c \in Conn |-> IF conn[c] = "none" THEN "none" ELSE "gone"]
  /\ touch' = [a \in Toucher |-> Idle]
  /\ UNCHANGED <<seen, listed, stored>>

---------------------------------------------------------------------------
TouchStep(a) ==
  TouchRow(a) \/ TouchSet(a) \/ TouchHash(a) \/ TouchFails(a)

SweepStep ==
  \/ SweepMap \/ SweepRows \/ SweepRowSet \/ SweepRowHash
  \/ SweepScan \/ SweepHash \/ SweepSet \/ SweepFails

Next ==
  \/ \E a \in Toucher : TouchStep(a)
  \/ \E c \in Conn :
       \/ Connect(c) \/ Upgrade(c, TRUE) \/ Upgrade(c, FALSE)
       \/ Ping(c) \/ ReaderEnds(c) \/ Leave(c) \/ Return(c)
  \/ SweepStep \/ Elapse \/ Restart

(* Statements end, the scheduler calls the sweep, clients ping (every 20 s *)
(* by default), and time passes.                                           *)
Fairness ==
  /\ \A a \in Toucher : WF_vars(TouchStep(a))
  /\ \A c \in Conn : WF_vars(Ping(c)) /\ WF_vars(Upgrade(c, TRUE) \/ Return(c))
  /\ WF_vars(SweepStep) /\ SF_vars(Elapse)

Spec == Init /\ [][Next]_vars
FairSpec == Spec /\ Fairness

=============================================================================
