------------------------------ MODULE RoomHub ------------------------------
(***************************************************************************)
(* The room of a project as its websocket subscribers see it:              *)
(*   core/internal/service/room/hub.go        channels of the subscribers  *)
(*   core/internal/http/handlers/room_ws.go   one goroutine pair per       *)
(*                                            connection                   *)
(*   core/internal/service/room/service.go    SendMessage, Publish...      *)
(*                                                                         *)
(* publish copies the channels under the read lock, releases it and then   *)
(* sends to them one by one, so a subscription may be cancelled, and its   *)
(* channel closed, between the copy and the send.  A send that finds the   *)
(* buffer full drops the envelope; a send on a closed channel panics.      *)
(*                                                                         *)
(* A connection c and a request m are goroutines with a program counter    *)
(* pc[..] and at most one publish in progress, pub[..].  Presence is the   *)
(* subject of RoomPresence; nothing here reads it.                         *)
(***************************************************************************)
EXTENDS Naturals, Sequences

CONSTANTS
  Conn,      \* websocket connections; each one connects at most once
  Leaver,    \* those whose client may go
  Msg,       \* requests that store a message, named after it
  TaskMsg,   \* those that come from PublishTaskEvent and its two siblings
  JobMsg,    \* those made by a goroutine of the scheduler
  Cap,       \* capacity of a subscriber's channel (32 in the code)
  None

ASSUME CapAssumption == Cap \in Nat \ {0}
ASSUME MsgAssumption == JobMsg \subseteq TaskMsg /\ TaskMsg \subseteq Msg
ASSUME ActorAssumption ==
  Leaver \subseteq Conn /\ Conn \cap Msg = {} /\ None \notin Conn \cup Msg

VARIABLES
  rows,        \* table project_room_messages
  clients,     \* hub.clients of the project
  closed,      \* closed channels
  buffer,      \* what is in each channel
  received,    \* what was written to each websocket
  pc, pub,     \* the goroutines
  peerDown,    \* connections whose client has gone
  readerDone,  \* connections whose reader goroutine closed its done channel
  (* history: what publish addressed to a subscriber, what it dropped      *)
  (* because the buffer was full, and what a panic cut short               *)
  owed, missed, spoiled

hubVars == <<clients, closed, buffer>>
histVars == <<owed, missed, spoiled>>
vars == <<rows, hubVars, received, pc, pub, peerDown, readerDone,
          histVars>>

Actor == Conn \cup Msg
Envelope == [kind : {"online", "offline"}, of : Conn]
              \cup [kind : {"room.message"}, of : Msg]
              \cup [kind : {"task.updated"}, of : TaskMsg]
Env(k, x) == [kind |-> k, of |-> x]

NoPub == [env |-> None, to |-> {}]
ConnPC == {"none", "announcing", "hello", "live", "leaving", "closing", "gone"}
MsgPC == {"none", "insert", "stored", "message", "task", "done"}

Init ==
  /\ rows = {}
  /\ clients = {} /\ closed = {} /\ peerDown = {} /\ readerDone = {}
  /\ buffer = [c \in Conn |-> <<>>] /\ received = [c \in Conn |-> <<>>]
  /\ pc = [a \in Actor |-> "none"] /\ pub = [a \in Actor |-> NoPub]
  /\ owed = [c \in Conn |-> {}] /\ missed = [c \in Conn |-> {}]
  /\ spoiled = {}

---------------------------------------------------------------------------
(* hub.publish                                                             *)

(* Under the read lock: the channels are copied.                           *)
PublishCopy(a, e) ==
  /\ pub' = [pub EXCEPT ![a] = [env |-> e, to |-> clients]]
  /\ owed' = [c \in Conn |->
                owed[c] \cup IF c \in clients THEN {e} ELSE {}]

Published(a) == pub[a].to = {}

(* Bug variant of PublishSend: a full channel ends the loop.               *)
PublishSendBreak(a, c) ==
  /\ c \in pub[a].to \ closed
  /\ IF Len(buffer[c]) < Cap
       THEN /\ buffer' = [buffer EXCEPT ![c] = Append(@, pub[a].env)]
            /\ pub' = [pub EXCEPT ![a].to = @ \ {c}]
            /\ UNCHANGED missed
       ELSE /\ missed' = [missed EXCEPT ![c] = @ \cup {pub[a].env}]
            /\ pub' = [pub EXCEPT ![a].to = {}]
            /\ UNCHANGED buffer
  /\ UNCHANGED <<rows, clients, closed, received, pc, peerDown, readerDone,
                 owed, spoiled>>

(* One turn of the send loop for an open channel: send, or drop if full.   *)
PublishSend(a, c) ==
  /\ c \in pub[a].to \ closed
  /\ IF Len(buffer[c]) < Cap
       THEN /\ buffer' = [buffer EXCEPT ![c] = Append(@, pub[a].env)]
            /\ UNCHANGED missed
       ELSE /\ missed' = [missed EXCEPT ![c] = @ \cup {pub[a].env}]
            /\ UNCHANGED buffer
  /\ pub' = [pub EXCEPT ![a].to = @ \ {c}]
  /\ UNCHANGED <<rows, clients, closed, received, pc, peerDown, readerDone,
                 owed, spoiled>>

(* A request that panics is recovered by gin and ends; a connection still  *)
(* runs its deferred cancel.                                               *)
AfterPanic(a) ==
  IF a \in Msg THEN "done" ELSE IF a \in clients THEN "closing" ELSE "gone"

Panic(a) ==
  /\ a \notin JobMsg
  /\ pub[a].to \cap closed # {}
  /\ spoiled' = spoiled \cup {pub[a].env}
  /\ pub' = [pub EXCEPT ![a] = NoPub]
  /\ pc' = [pc EXCEPT ![a] = AfterPanic(a)]
  /\ UNCHANGED <<rows, hubVars, received, peerDown, readerDone, owed, missed>>

(* Nothing recovers a panic in a goroutine of the scheduler: the server    *)
(* ends and is started again, without its connections and requests.        *)
PanicInJob(a) ==
  /\ a \in JobMsg
  /\ pub[a].to \cap closed # {}
  /\ clients' = {} /\ closed' = Conn
  /\ buffer' = [c \in Conn |-> <<>>]
  /\ pub' = [b \in Actor |-> NoPub]
  /\ pc' = [b \in Actor |->
              CASE pc[b] = "none" -> "none"
                [] pc[b] # "none" /\ b \in Msg -> "done"
                [] OTHER -> "gone"]
  /\ UNCHANGED <<rows, received, peerDown, readerDone, histVars>>

---------------------------------------------------------------------------
(* SendMessage and its callers                                             *)

(* A request that did not send its message still publishes the event of    *)
(* the task, the project or the handoff (PublishTaskEvent ignores the      *)
(* error); any other request ends.                                         *)
AfterMessage(m) == IF m \in TaskMsg THEN "message" ELSE "done"

Send(m) ==
  /\ pc[m] = "none"
  /\ pc' = [pc EXCEPT ![m] = "insert"]
  /\ UNCHANGED <<rows, hubVars, received, pub, peerDown, readerDone, histVars>>

(* The project is archived, or an SQL error: before the row is there or    *)
(* when it is read back.                                                   *)
SendFails(m) ==
  /\ pc[m] \in {"insert", "stored"}
  /\ pc' = [pc EXCEPT ![m] = AfterMessage(m)]
  /\ UNCHANGED <<rows, hubVars, received, pub, peerDown, readerDone, histVars>>

Insert(m) ==
  /\ pc[m] = "insert"
  /\ rows' = rows \cup {m}
  /\ pc' = [pc EXCEPT ![m] = "stored"]
  /\ UNCHANGED <<hubVars, received, pub, peerDown, readerDone, histVars>>

PublishMessage(m) ==
  /\ pc[m] = "stored"
  /\ PublishCopy(m, Env("room.message", m))
  /\ pc' = [pc EXCEPT ![m] = AfterMessage(m)]
  /\ UNCHANGED <<rows, hubVars, received, peerDown, readerDone, missed,
                 spoiled>>

(* Bug variant of PublishEvent: SendSystemMessage started with go.         *)
PublishEventAtOnce(m) ==
  /\ pc[m] \in {"insert", "stored", "message"} /\ pub[m] = NoPub
  /\ PublishCopy(m, Env("task.updated", m))
  /\ UNCHANGED <<rows, hubVars, received, peerDown, readerDone, missed,
                 spoiled, pc>>

(* The second envelope, once the first one has been sent.                  *)
PublishEvent(m) ==
  /\ pc[m] = "message" /\ Published(m)
  /\ PublishCopy(m, Env("task.updated", m))
  /\ pc' = [pc EXCEPT ![m] = "done"]
  /\ UNCHANGED <<rows, hubVars, received, peerDown, readerDone, missed,
                 spoiled>>

---------------------------------------------------------------------------
(* RoomWebSocketHandler.Connect                                            *)

(* Access checked, presence touched, upgraded: member_online is published. *)
Connect(c) ==
  /\ pc[c] = "none"
  /\ pc' = [pc EXCEPT ![c] = "announcing"]
  /\ PublishCopy(c, Env("online", c))
  /\ UNCHANGED <<rows, hubVars, received, peerDown, readerDone, missed,
                 spoiled>>

Subscribe(c) ==
  /\ pc[c] = "announcing" /\ Published(c)
  /\ clients' = clients \cup {c}
  /\ pc' = [pc EXCEPT ![c] = "hello"]
  /\ UNCHANGED <<rows, closed, buffer, received, pub, peerDown, readerDone,
                 histVars>>

(* room.connected is written; if that fails no member_offline follows.     *)
Hello(c, ok) ==
  /\ pc[c] = "hello"
  /\ ~ok => c \in peerDown
  /\ pc' = [pc EXCEPT ![c] = IF ok THEN "live" ELSE "closing"]
  /\ UNCHANGED <<rows, hubVars, received, pub, peerDown, readerDone, histVars>>

PeerGoes(c) ==
  /\ c \in Leaver \ peerDown /\ pc[c] \notin {"none", "gone"}
  /\ peerDown' = peerDown \cup {c}
  /\ UNCHANGED <<rows, hubVars, received, pc, pub, readerDone, histVars>>

(* Bug variant of ReaderEnds: the goroutine returns without closing done.  *)
ReaderEndsSilently(c) ==
  /\ pc[c] = "live" /\ c \in peerDown \ readerDone
  /\ UNCHANGED vars

(* ReadMessage fails and the reader goroutine closes done.                 *)
ReaderEnds(c) ==
  /\ pc[c] = "live" /\ c \in peerDown \ readerDone
  /\ readerDone' = readerDone \cup {c}
  /\ UNCHANGED <<rows, hubVars, received, pc, pub, peerDown, histVars>>

Deliver(c) ==
  /\ pc[c] = "live" /\ buffer[c] # <<>>
  /\ received' = [received EXCEPT ![c] = Append(@, Head(buffer[c]))]
  /\ buffer' = [buffer EXCEPT ![c] = Tail(@)]
  /\ UNCHANGED <<rows, clients, closed, pc, pub, peerDown, readerDone,
                 histVars>>

(* The main loop ends, because done is closed or because an envelope could *)
(* not be written, and publishes member_offline - to itself as well, for   *)
(* its subscription is only cancelled on return.                           *)
Leave(c) ==
  /\ pc[c] = "live"
  /\ \/ /\ c \in readerDone
        /\ UNCHANGED buffer
     \/ /\ c \in peerDown /\ buffer[c] # <<>>
        /\ buffer' = [buffer EXCEPT ![c] = Tail(@)]
  /\ pc' = [pc EXCEPT ![c] = "leaving"]
  /\ PublishCopy(c, Env("offline", c))
  /\ UNCHANGED <<rows, clients, closed, received, peerDown, readerDone,
                 missed, spoiled>>

(* The deferred cancel: unsubscribe and close the channel.                 *)
Cancel(c) ==
  /\ \/ pc[c] = "leaving" /\ Published(c)
     \/ pc[c] = "closing"
  /\ clients' = clients \ {c} /\ closed' = closed \cup {c}
  /\ pc' = [pc EXCEPT ![c] = "gone"]
  /\ UNCHANGED <<rows, buffer, received, pub, peerDown, readerDone, histVars>>

---------------------------------------------------------------------------
ConnStep(c) ==
  \/ Subscribe(c) \/ Hello(c, TRUE) \/ Hello(c, FALSE)
  \/ ReaderEnds(c) \/ Deliver(c) \/ Leave(c) \/ Cancel(c)

MsgStep(m) ==
  Send(m) \/ SendFails(m) \/ Insert(m) \/ PublishMessage(m) \/ PublishEvent(m)

PublishStep(a) ==
  (\E c \in Conn : PublishSend(a, c)) \/ Panic(a) \/ PanicInJob(a)

Next ==
  \/ \E a \in Actor : PublishStep(a)
  \/ \E m \in Msg : MsgStep(m)
  \/ \E c \in Conn : Connect(c) \/ PeerGoes(c) \/ ConnStep(c)

(* A goroutine that can run does; clients come and go as they like.        *)
Fairness ==
  /\ \A a \in Actor : WF_vars(PublishStep(a))
  /\ \A c \in Conn : WF_vars(ConnStep(c)) /\ WF_vars(ReaderEnds(c))

Spec == Init /\ [][Next]_vars
FairSpec == Spec /\ Fairness

=============================================================================
