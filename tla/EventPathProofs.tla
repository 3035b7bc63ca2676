---------------------------- MODULE EventPathProofs ----------------------------
(***************************************************************************)
(* Theorems about the path of an event: the room hub that publishes it,    *)
(* for every number of connections, requests and places in a channel, and  *)
(* "aitask events watch" with the files it writes, for every set of items, *)
(* projects and filters and every size and number of the files.            *)
(***************************************************************************)
EXTENDS RoomHubSafety, EventsWatchSafety, SequenceTheorems, TLAPS

---------------------------------------------------------------------------
(* The room hub                                                            *)

(* The publish of e has begun: its goroutine is past the copy.             *)
Started(e) ==
  /\ e.kind = "online" => pc[e.of] # "none"
  /\ e.kind = "offline" => pc[e.of] \in {"leaving", "closing", "gone"}
  /\ e.kind = "room.message" => pc[e.of] \in {"message", "done"}
  /\ e.kind = "task.updated" => pc[e.of] = "done"

(* A goroutine that sends is at a publish of its own, and the message of a *)
(* request is sent before the event is published.                          *)
SendsItsOwn ==
  \A a \in Actor : pub[a].to # {} =>
    /\ pub[a].env \in Envelope /\ pub[a].env.of = a /\ Started(pub[a].env)
    /\ a \in Conn => pc[a] \in {"announcing", "leaving"}
    /\ a \in Msg => pc[a] \in {"message", "done"}
    /\ a \in TaskMsg /\ pub[a].env.kind = "room.message" => pc[a] = "message"

(* What a subscriber hears of has been published.                          *)
HeardIsStarted == \A c \in Conn, e \in Envelope : InFeed(c, e) => Started(e)

(* What is still to be sent to a subscriber has not been sent to it.       *)
SentOnce == \A a \in Actor : \A c \in pub[a].to : ~InFeed(c, pub[a].env)

(* The hub holds the channels of subscribed connections, and nothing is    *)
(* owed to a connection before it has subscribed.                          *)
Subscribed ==
  /\ \A c \in clients : pc[c] \in {"hello", "live", "leaving", "closing"}
  /\ \A c \in Conn : pc[c] \in {"none", "announcing"} => owed[c] = {}

(* Only a request about a task goes on to publish an event.                *)
EventsOfTasks == \A m \in Msg : pc[m] = "message" => m \in TaskMsg

(* The inductive invariant.                                                *)
HubInv ==
  /\ TypeOK /\ EventsOfTasks /\ SendsItsOwn /\ HeardIsStarted /\ SentOnce
  /\ Subscribed /\ FeedInOrder /\ DeliveredOrFull

---------------------------------------------------------------------------
(* Feeds                                                                   *)

USE CapAssumption, MsgAssumption, ActorAssumption

(* t holds elements of s, in their order.                                  *)
Thinned(s, t) ==
  \E f \in [DOMAIN t -> DOMAIN s] :
    /\ \A i, j \in DOMAIN t : i < j => f[i] < f[j]
    /\ \A i \in DOMAIN t : t[i] = s[f[i]]

LEMMA SameIsThinned ==
  ASSUME NEW s \in Seq(Envelope)
  PROVE  Thinned(s, s)
<1> DEFINE f == [i \in DOMAIN s |-> i]
<1>1. /\ f \in [DOMAIN s -> DOMAIN s]
      /\ \A i, j \in DOMAIN s : i < j => f[i] < f[j]
      /\ \A i \in DOMAIN s : s[i] = s[f[i]]
  OBVIOUS
<1> HIDE DEF f
<1> QED BY <1>1 DEF Thinned

(* The next element of a channel is written to the websocket.              *)
LEMMA MoveHead ==
  ASSUME NEW r \in Seq(Envelope), NEW b \in Seq(Envelope), b # <<>>
  PROVE  Append(r, Head(b)) \o Tail(b) = r \o b
<1>1. Head(b) \in Envelope /\ Tail(b) \in Seq(Envelope)
      /\ Append(r, Head(b)) \in Seq(Envelope)
  OBVIOUS
<1>2. Len(Append(r, Head(b)) \o Tail(b)) = Len(r \o b)
  BY <1>1
<1>3. \A i \in 1..Len(r \o b) :
        (Append(r, Head(b)) \o Tail(b))[i] = (r \o b)[i]
  BY <1>1
<1> QED BY <1>1, <1>2, <1>3, SeqEqual

(* The head of a channel is taken and not written.                         *)
LEMMA DropHead ==
  ASSUME NEW r \in Seq(Envelope), NEW b \in Seq(Envelope), b # <<>>
  PROVE  Thinned(r \o b, r \o Tail(b))
<1> DEFINE t == r \o Tail(b)
           f == [i \in DOMAIN t |-> IF i <= Len(r) THEN i ELSE i + 1]
<1>1. /\ Tail(b) \in Seq(Envelope) /\ Len(Tail(b)) = Len(b) - 1
      /\ DOMAIN t = 1..(Len(r) + Len(b) - 1)
      /\ DOMAIN (r \o b) = 1..(Len(r) + Len(b))
  OBVIOUS
<1>2. f \in [DOMAIN t -> DOMAIN (r \o b)]
  BY <1>1
<1>3. \A i, j \in DOMAIN t : i < j => f[i] < f[j]
  BY <1>1
<1>4. \A i \in DOMAIN t : t[i] = (r \o b)[f[i]]
  BY <1>1
<1> HIDE DEF f
<1> QED BY <1>2, <1>3, <1>4 DEF Thinned

(* A channel is lost with what it holds.                                   *)
LEMMA DropChannel ==
  ASSUME NEW r \in Seq(Envelope), NEW b \in Seq(Envelope)
  PROVE  Thinned(r \o b, r \o <<>>)
<1> DEFINE f == [i \in DOMAIN r |-> i]
<1>1. r \o <<>> = r
  OBVIOUS
<1>2. /\ f \in [DOMAIN r -> DOMAIN (r \o b)]
      /\ \A i, j \in DOMAIN r : i < j => f[i] < f[j]
      /\ \A i \in DOMAIN r : r[i] = (r \o b)[f[i]]
  OBVIOUS
<1> HIDE DEF f
<1> QED BY <1>1, <1>2 DEF Thinned

(* A channel gets one element more.                                        *)
LEMMA AppendToChannel ==
  ASSUME NEW r \in Seq(Envelope), NEW b \in Seq(Envelope), NEW e \in Envelope
  PROVE  r \o Append(b, e) = Append(r \o b, e)
<1>1. /\ r \o Append(b, e) \in Seq(Envelope)
      /\ Append(r \o b, e) \in Seq(Envelope)
      /\ Len(r \o Append(b, e)) = Len(Append(r \o b, e))
  OBVIOUS
<1>2. \A i \in 1..Len(Append(r \o b, e)) :
        (r \o Append(b, e))[i] = Append(r \o b, e)[i]
  OBVIOUS
<1> QED BY <1>1, <1>2, SeqEqual

(* A send into a channel that has room.                                    *)
Sends(a, c) ==
  /\ c \in pub[a].to /\ Len(buffer[c]) < Cap
  /\ Feed(c)' = Append(Feed(c), pub[a].env)
  /\ pub' = [pub EXCEPT ![a].to = @ \ {c}]
  /\ \A d \in Conn \ {c} : Feed(d)' = Feed(d)

(* The feed of c gains nothing, and is the same if c goes on.               *)
Unfed(c) ==
  /\ Thinned(Feed(c), Feed(c)')
  /\ pc'[c] \in {"hello", "live"} => Feed(c)' = Feed(c)

(* A step sends one envelope into one channel, or no feed gains anything.  *)
LEMMA FeedStep ==
  ASSUME TypeOK, TypeOK', [Next]_vars
  PROVE  \/ \E a \in Actor, c \in Conn : PublishSend(a, c) /\ Sends(a, c)
         \/ \A c \in Conn : Unfed(c)
<1>1. \A c \in Conn : /\ received[c] \in Seq(Envelope)
                      /\ buffer[c] \in Seq(Envelope)
                      /\ Feed(c) \in Seq(Envelope)
  BY DEF TypeOK, Feed
<1>2. ASSUME UNCHANGED <<received, buffer>>
      PROVE  \A c \in Conn : Unfed(c)
  BY <1>1, <1>2, SameIsThinned DEF Feed, Unfed
<1>3. ASSUME NEW a \in Actor, NEW c \in Conn, PublishSend(a, c)
      PROVE  \/ Sends(a, c)
             \/ \A d \in Conn : Unfed(d)
  <2>1. CASE Len(buffer[c]) < Cap
    <3>1. /\ buffer' = [buffer EXCEPT ![c] = Append(@, pub[a].env)]
          /\ received' = received
          /\ pub' = [pub EXCEPT ![a].to = @ \ {c}]
      BY <1>3, <2>1 DEF PublishSend
    <3>2. pub[a].env \in Envelope
      <4>1. buffer'[c] = Append(buffer[c], pub[a].env)
        BY <3>1 DEF TypeOK
      <4>2. buffer'[c] \in Seq(Envelope) /\ buffer[c] \in Seq(Envelope)
        BY DEF TypeOK
      <4>3. Append(buffer[c], pub[a].env)[Len(buffer[c]) + 1] = pub[a].env
            /\ Len(Append(buffer[c], pub[a].env)) = Len(buffer[c]) + 1
        BY <4>2
      <4> QED BY <4>1, <4>2, <4>3, ElementOfSeq
    <3>3. Feed(c)' = Append(Feed(c), pub[a].env)
      BY <1>1, <3>1, <3>2, AppendToChannel DEF Feed, TypeOK
    <3>4. \A d \in Conn \ {c} : Feed(d)' = Feed(d)
      BY <3>1 DEF Feed, TypeOK
    <3> QED BY <1>3, <2>1, <3>1, <3>3, <3>4 DEF Sends, PublishSend
  <2>2. CASE ~(Len(buffer[c]) < Cap)
    BY <1>2, <1>3, <2>2 DEF PublishSend
  <2> QED BY <2>1, <2>2
<1>4. ASSUME NEW a \in Actor, PanicInJob(a)
      PROVE  \A c \in Conn : Unfed(c)
  BY <1>1, <1>4, DropChannel DEF PanicInJob, Feed, Unfed, Actor
<1>5. ASSUME NEW c \in Conn, Deliver(c)
      PROVE  \A d \in Conn : Unfed(d)
  <2>1. Feed(c)' = Append(received[c], Head(buffer[c])) \o Tail(buffer[c])
    BY <1>5 DEF Deliver, Feed, TypeOK
  <2>2. Feed(c)' = Feed(c)
    BY <1>1, <1>5, <2>1, MoveHead DEF Deliver, Feed
  <2>3. \A d \in Conn \ {c} : Feed(d)' = Feed(d)
    BY <1>5 DEF Deliver, Feed, TypeOK
  <2> QED BY <1>1, <2>2, <2>3, SameIsThinned DEF Unfed
<1>6. ASSUME NEW c \in Conn, Leave(c)
      PROVE  \A d \in Conn : Unfed(d)
  <2>1. CASE buffer' = buffer
    BY <1>2, <1>6, <2>1 DEF Leave
  <2>2. CASE buffer[c] # <<>> /\ buffer' = [buffer EXCEPT ![c] = Tail(@)]
    <3>1. Feed(c)' = received[c] \o Tail(buffer[c])
      BY <1>6, <2>2 DEF Leave, Feed, TypeOK
    <3>2. Unfed(c)
      BY <1>1, <1>6, <2>2, <3>1, DropHead DEF Feed, Unfed, Leave, TypeOK, Actor
    <3>3. \A d \in Conn \ {c} : Feed(d)' = Feed(d)
      BY <1>6, <2>2 DEF Leave, Feed, TypeOK
    <3> QED BY <1>1, <3>2, <3>3, SameIsThinned DEF Unfed
  <2> QED BY <1>6, <2>1, <2>2 DEF Leave
<1>7. ASSUME NEW a \in Actor, Panic(a)
      PROVE  UNCHANGED <<received, buffer>>
  BY <1>7 DEF Panic, hubVars
<1>8. ASSUME NEW m \in Msg, MsgStep(m)
      PROVE  UNCHANGED <<received, buffer>>
  BY <1>8 DEF MsgStep, Send, SendFails, Insert, PublishMessage, PublishEvent,
     hubVars
<1>9. ASSUME NEW c \in Conn,
             \/ Connect(c) \/ PeerGoes(c) \/ Subscribe(c) \/ Hello(c, TRUE)
             \/ Hello(c, FALSE) \/ ReaderEnds(c) \/ Cancel(c)
      PROVE  UNCHANGED <<received, buffer>>
  BY <1>9 DEF Connect, PeerGoes, Subscribe, Hello, ReaderEnds, Cancel, hubVars
<1>10. CASE UNCHANGED vars
  BY <1>2, <1>10 DEF vars, hubVars
<1> QED
  BY <1>2, <1>3, <1>4, <1>5, <1>6, <1>7, <1>8, <1>9, <1>10
     DEF Next, PublishStep, ConnStep

---------------------------------------------------------------------------
(* Publishes                                                               *)

(* Goroutine a copies the channels for an envelope of its own that nobody  *)
(* has published before.                                                   *)
StartsPublish(a, e) ==
  /\ e \in Envelope /\ e.of = a /\ ~Started(e) /\ Started(e)'
  /\ pub[a].to = {} /\ PublishCopy(a, e)
  /\ a \in Conn => pc'[a] \in {"announcing", "leaving"}
  /\ a \in Msg => pc'[a] \in {"message", "done"}
  /\ a \in TaskMsg /\ e.kind = "room.message" => pc'[a] = "message"
  /\ \A b \in Actor \ {a} : pc'[b] = pc[b]
  /\ UNCHANGED <<clients, missed, spoiled>>

(* The four handlers that publish.                                         *)
LEMMA PublishersStart ==
  ASSUME TypeOK, EventsOfTasks, SendsItsOwn
  PROVE  /\ \A m \in Msg :
              PublishMessage(m) => StartsPublish(m, Env("room.message", m))
         /\ \A m \in Msg :
              PublishEvent(m) => StartsPublish(m, Env("task.updated", m))
         /\ \A c \in Conn :
              Connect(c) => StartsPublish(c, Env("online", c))
         /\ \A c \in Conn :
              Leave(c) => StartsPublish(c, Env("offline", c))
<1> USE DEF StartsPublish, Env, Envelope, Started, Actor, hubVars
<1>1. ASSUME NEW m \in Msg, PublishMessage(m)
      PROVE  StartsPublish(m, Env("room.message", m))
  BY <1>1 DEF PublishMessage, TypeOK, SendsItsOwn, AfterMessage, PublishCopy
<1>2. ASSUME NEW m \in Msg, PublishEvent(m)
      PROVE  StartsPublish(m, Env("task.updated", m))
  BY <1>2 DEF PublishEvent, Published, TypeOK, EventsOfTasks, PublishCopy
<1>3. ASSUME NEW c \in Conn, Connect(c)
      PROVE  StartsPublish(c, Env("online", c))
  BY <1>3 DEF Connect, TypeOK, SendsItsOwn, PublishCopy
<1>4. ASSUME NEW c \in Conn, Leave(c)
      PROVE  StartsPublish(c, Env("offline", c))
  BY <1>4 DEF Leave, TypeOK, SendsItsOwn, PublishCopy
<1> QED BY <1>1, <1>2, <1>3, <1>4

(* What a step does to the publishes in progress.                          *)
LEMMA PubStep ==
  ASSUME TypeOK, EventsOfTasks, SendsItsOwn, [Next]_vars
  PROVE  \/ \E a \in Actor, c \in Conn : PublishSend(a, c)
         \/ \E a \in Actor : Panic(a) \/ PanicInJob(a)
         \/ \E a \in Actor, e \in Envelope : StartsPublish(a, e)
         \/ UNCHANGED <<pub, owed, missed, spoiled>>
<1> DEFINE Quiet == UNCHANGED <<pub, owed, missed, spoiled>>
<1>1. ASSUME NEW m \in Msg, MsgStep(m)
      PROVE  Quiet \/ \E a \in Actor, e \in Envelope : StartsPublish(a, e)
  <2>1. CASE PublishMessage(m) \/ PublishEvent(m)
    BY <2>1, PublishersStart DEF StartsPublish, Actor
  <2>2. CASE Send(m) \/ SendFails(m) \/ Insert(m)
    BY <2>2 DEF Send, SendFails, Insert, histVars
  <2> QED BY <1>1, <2>1, <2>2 DEF MsgStep
<1>2. ASSUME NEW c \in Conn, Connect(c) \/ PeerGoes(c) \/ ConnStep(c)
      PROVE  Quiet \/ \E a \in Actor, e \in Envelope : StartsPublish(a, e)
  <2>1. CASE Connect(c) \/ Leave(c)
    BY <2>1, PublishersStart DEF StartsPublish, Actor
  <2>2. CASE \/ PeerGoes(c) \/ Subscribe(c) \/ Hello(c, TRUE)
             \/ Hello(c, FALSE) \/ ReaderEnds(c) \/ Deliver(c) \/ Cancel(c)
    BY <2>2 DEF PeerGoes, Subscribe, Hello, ReaderEnds, Deliver, Cancel,
       histVars
  <2> QED BY <1>2, <2>1, <2>2 DEF ConnStep
<1>3. CASE UNCHANGED vars
  BY <1>3 DEF vars, histVars
<1> QED BY <1>1, <1>2, <1>3 DEF Next, PublishStep

(* What has been published stays published.                                *)
LEMMA StartedStays ==
  ASSUME TypeOK, [Next]_vars, NEW e \in Envelope, Started(e)
  PROVE  Started(e)'
<1> USE DEF Started, Envelope, Actor, ConnPC, MsgPC
<1>1. CASE UNCHANGED vars
  BY <1>1 DEF vars
<1>2. ASSUME NEW a \in Actor, PublishStep(a)
      PROVE  Started(e)'
  <2>1. ASSUME NEW c \in Conn, PublishSend(a, c)
        PROVE  Started(e)'
    BY <2>1 DEF PublishSend
  <2>2. CASE Panic(a)
    BY <2>2 DEF Panic, AfterPanic, TypeOK
  <2>3. CASE PanicInJob(a)
    BY <2>3 DEF PanicInJob, TypeOK
  <2> QED BY <1>2, <2>1, <2>2, <2>3 DEF PublishStep
<1>3. ASSUME NEW m \in Msg, MsgStep(m)
      PROVE  Started(e)'
  BY <1>3 DEF MsgStep, Send, SendFails, Insert, PublishMessage, PublishEvent,
     AfterMessage, TypeOK
<1>4. ASSUME NEW c \in Conn, Connect(c) \/ PeerGoes(c) \/ ConnStep(c)
      PROVE  Started(e)'
  BY <1>4 DEF ConnStep, Connect, PeerGoes, Subscribe, Hello, ReaderEnds,
     Deliver, Leave, Cancel, TypeOK
<1> QED BY <1>1, <1>2, <1>3, <1>4 DEF Next

---------------------------------------------------------------------------
(* Steps                                                                   *)

(* The program counters are those of their goroutines.                     *)
Counters ==
  /\ DOMAIN pc = Actor
  /\ \A c \in Conn : pc[c] \in ConnPC
  /\ \A m \in Msg : pc[m] \in MsgPC

(* One goroutine moves on.                                                 *)
LEMMA CountersStep ==
  ASSUME Counters, NEW a \in Actor, NEW v, pc' = [pc EXCEPT ![a] = v],
         a \in Conn => v \in ConnPC, a \in Msg => v \in MsgPC
  PROVE  Counters'
BY DEF Counters, Actor

(* Types are kept; a goroutine that sends has an envelope to send.         *)
LEMMA TypeStep ==
  ASSUME TypeOK, EventsOfTasks, SendsItsOwn, [Next]_vars
  PROVE  TypeOK'
<1> USE DEF TypeOK, Counters
<1>1. CASE UNCHANGED vars
  BY <1>1 DEF vars, hubVars, histVars
<1>2. ASSUME NEW a \in Actor, NEW c \in Conn, PublishSend(a, c)
      PROVE  TypeOK'
  <2>1. pub[a].env \in Envelope
    BY <1>2 DEF PublishSend, SendsItsOwn
  <2>2. Append(buffer[c], pub[a].env) \in Seq(Envelope)
    BY <2>1
  <2>3. buffer' \in [Conn -> Seq(Envelope)]
    <3>1. \/ buffer' = [buffer EXCEPT ![c] = Append(buffer[c], pub[a].env)]
          \/ buffer' = buffer
      BY <1>2 DEF PublishSend
    <3>2. buffer \in [Conn -> Seq(Envelope)]
      OBVIOUS
    <3> HIDE DEF TypeOK
    <3> QED BY <2>2, <3>1, <3>2
  <2>4. missed' \in [Conn -> SUBSET Envelope]
    <3>1. \/ missed' = [missed EXCEPT ![c] = missed[c] \cup {pub[a].env}]
          \/ missed' = missed
      BY <1>2 DEF PublishSend
    <3>2. missed \in [Conn -> SUBSET Envelope]
      OBVIOUS
    <3> HIDE DEF TypeOK
    <3> QED BY <2>1, <3>1, <3>2
  <2>5. pub' \in [Actor -> [env : Envelope \cup {None}, to : SUBSET Conn]]
    <3>1. pub' = [pub EXCEPT ![a].to = pub[a].to \ {c}]
      BY <1>2 DEF PublishSend
    <3>2. pub \in [Actor -> [env : Envelope \cup {None}, to : SUBSET Conn]]
      OBVIOUS
    <3> HIDE DEF TypeOK
    <3> QED BY <3>1, <3>2
  <2> QED BY <1>2, <2>3, <2>4, <2>5 DEF PublishSend
<1>3. ASSUME NEW a \in Actor, Panic(a)
      PROVE  TypeOK'
  <2>1. pub[a].env \in Envelope
    BY <1>3 DEF Panic, SendsItsOwn
  <2>2. pub' \in [Actor -> [env : Envelope \cup {None}, to : SUBSET Conn]]
    BY <1>3 DEF Panic, NoPub
  <2> QED
    BY <1>3, <2>1, <2>2
       DEF Panic, AfterPanic, hubVars, ConnPC, MsgPC, Actor
<1>4. ASSUME NEW a \in Actor, PanicInJob(a)
      PROVE  TypeOK'
  <2>1. buffer' \in [Conn -> Seq(Envelope)]
    BY <1>4 DEF PanicInJob
  <2>2. pub' \in [Actor -> [env : Envelope \cup {None}, to : SUBSET Conn]]
    BY <1>4 DEF PanicInJob, NoPub
  <2> QED
    BY <1>4, <2>1, <2>2
       DEF PanicInJob, histVars, ConnPC, MsgPC, Actor
<1>5. ASSUME NEW a \in Actor, NEW e \in Envelope, StartsPublish(a, e)
      PROVE  /\ pub' \in [Actor ->
                            [env : Envelope \cup {None}, to : SUBSET Conn]]
             /\ owed' \in [Conn -> SUBSET Envelope]
  BY <1>5 DEF StartsPublish, PublishCopy
<1>6. ASSUME NEW m \in Msg, PublishMessage(m) \/ PublishEvent(m)
      PROVE  TypeOK'
  <2>1. \E e \in Envelope : StartsPublish(m, e)
    BY <1>6, PublishersStart DEF StartsPublish
  <2>2. m \in Actor
    BY DEF Actor
  <2>3. Counters'
    <3>1. Counters
      OBVIOUS
    <3> HIDE DEF TypeOK, Counters
    <3> QED
      BY <1>6, <2>2, <3>1, CountersStep
         DEF PublishMessage, PublishEvent, AfterMessage, MsgPC
  <2>4. UNCHANGED <<rows, hubVars, received, peerDown, readerDone, missed,
                    spoiled>>
    BY <1>6 DEF PublishMessage, PublishEvent
  <2> QED BY <1>5, <2>1, <2>2, <2>3, <2>4 DEF hubVars
<1>7. ASSUME NEW m \in Msg, Send(m) \/ SendFails(m) \/ Insert(m)
      PROVE  TypeOK'
  <2>1. Counters'
    <3>1. Counters /\ m \in Actor
      BY DEF Actor
    <3> HIDE DEF TypeOK, Counters
    <3> QED
      BY <1>7, <3>1, CountersStep
         DEF Send, SendFails, Insert, AfterMessage, MsgPC
  <2> QED BY <1>7, <2>1 DEF Send, SendFails, Insert, hubVars, histVars
<1>8. ASSUME NEW c \in Conn, Connect(c) \/ Leave(c)
      PROVE  TypeOK'
  <2>1. \E e \in Envelope : StartsPublish(c, e)
    BY <1>8, PublishersStart DEF StartsPublish
  <2>2. c \in Actor
    BY DEF Actor
  <2>3. buffer' \in [Conn -> Seq(Envelope)]
    <3>1. CASE buffer' = buffer
      BY <3>1
    <3>2. CASE buffer[c] # <<>> /\ buffer' = [buffer EXCEPT ![c] = Tail(@)]
      <4>1. buffer \in [Conn -> Seq(Envelope)]
        OBVIOUS
      <4>2. Tail(buffer[c]) \in Seq(Envelope)
        BY <3>2, <4>1
      <4> HIDE DEF TypeOK
      <4> QED BY <3>2, <4>1, <4>2
    <3> QED BY <1>8, <3>1, <3>2 DEF Connect, Leave, hubVars
  <2>4. Counters'
    <3>1. Counters
      OBVIOUS
    <3> HIDE DEF TypeOK, Counters
    <3> QED
      BY <1>8, <2>2, <3>1, CountersStep DEF Connect, Leave, ConnPC
  <2>5. UNCHANGED <<rows, clients, closed, received, peerDown, readerDone,
                    missed, spoiled>>
    BY <1>8 DEF Connect, Leave, hubVars
  <2> QED BY <1>5, <2>1, <2>2, <2>3, <2>4, <2>5
<1>9. ASSUME NEW c \in Conn, Deliver(c)
      PROVE  TypeOK'
  <2>1. /\ buffer[c] \in Seq(Envelope) /\ buffer[c] # <<>>
        /\ received[c] \in Seq(Envelope)
    BY <1>9 DEF Deliver
  <2>2. /\ Head(buffer[c]) \in Envelope /\ Tail(buffer[c]) \in Seq(Envelope)
        /\ Append(received[c], Head(buffer[c])) \in Seq(Envelope)
    BY <2>1
  <2>3. buffer' \in [Conn -> Seq(Envelope)]
    <3>1. /\ buffer' = [buffer EXCEPT ![c] = Tail(buffer[c])]
          /\ buffer \in [Conn -> Seq(Envelope)]
      BY <1>9 DEF Deliver
    <3> HIDE DEF TypeOK
    <3> QED BY <2>2, <3>1
  <2>4. received' \in [Conn -> Seq(Envelope)]
    <3>1. /\ received' = [received EXCEPT
                            ![c] = Append(received[c], Head(buffer[c]))]
          /\ received \in [Conn -> Seq(Envelope)]
      BY <1>9 DEF Deliver
    <3> HIDE DEF TypeOK
    <3> QED BY <2>2, <3>1
  <2> QED BY <1>9, <2>3, <2>4 DEF Deliver, histVars
<1>10. ASSUME NEW c \in Conn,
              \/ PeerGoes(c) \/ Subscribe(c) \/ Hello(c, TRUE)
              \/ Hello(c, FALSE) \/ ReaderEnds(c) \/ Cancel(c)
       PROVE  TypeOK'
  <2>1. Counters'
    <3>1. Counters /\ c \in Actor
      BY DEF Actor
    <3> HIDE DEF TypeOK, Counters
    <3>2. CASE UNCHANGED pc
      BY <3>1, <3>2 DEF Counters
    <3>3. CASE Subscribe(c) \/ Hello(c, TRUE) \/ Hello(c, FALSE) \/ Cancel(c)
      BY <3>1, <3>3, CountersStep DEF Subscribe, Hello, Cancel, ConnPC
    <3> QED BY <1>10, <3>2, <3>3 DEF PeerGoes, ReaderEnds
  <2>2. UNCHANGED <<rows, buffer, received, pub, histVars>>
    BY <1>10 DEF PeerGoes, Subscribe, Hello, ReaderEnds, Cancel, hubVars
  <2>3. /\ clients' \subseteq Conn /\ closed' \subseteq Conn
        /\ peerDown' \subseteq Conn /\ readerDone' \subseteq Conn
    BY <1>10 DEF PeerGoes, Subscribe, Hello, ReaderEnds, Cancel, hubVars
  <2> QED BY <2>1, <2>2, <2>3 DEF histVars
<1> QED
  BY <1>1, <1>2, <1>3, <1>4, <1>6, <1>7, <1>8, <1>9, <1>10
     DEF Next, PublishStep, MsgStep, ConnStep

(* No request that is not about a task gets as far as the event.           *)
LEMMA EventsStep ==
  ASSUME TypeOK, EventsOfTasks, [Next]_vars
  PROVE  EventsOfTasks'
<1> USE DEF EventsOfTasks, TypeOK
<1>1. CASE UNCHANGED vars
  BY <1>1 DEF vars
<1>2. ASSUME NEW a \in Actor, PublishStep(a)
      PROVE  EventsOfTasks'
  BY <1>2 DEF PublishStep, PublishSend, Panic, PanicInJob, AfterPanic, Actor
<1>3. ASSUME NEW m \in Msg, MsgStep(m)
      PROVE  EventsOfTasks'
  BY <1>3 DEF MsgStep, Send, SendFails, Insert, PublishMessage, PublishEvent,
     AfterMessage, Actor
<1>4. ASSUME NEW c \in Conn, Connect(c) \/ PeerGoes(c) \/ ConnStep(c)
      PROVE  EventsOfTasks'
  BY <1>4 DEF ConnStep, Connect, PeerGoes, Subscribe, Hello, ReaderEnds,
     Deliver, Leave, Cancel, Actor
<1> QED BY <1>1, <1>2, <1>3, <1>4 DEF Next

(* A goroutine that is sending does nothing else.                          *)
LEMMA SendersWait ==
  ASSUME TypeOK, SendsItsOwn, [Next]_vars,
         NEW a \in Actor, pub'[a].to # {}, pub[a].to # {},
         pub'[a].env = pub[a].env
  PROVE  pc'[a] = pc[a]
<1> USE DEF TypeOK, SendsItsOwn
<1>1. CASE UNCHANGED vars
  BY <1>1 DEF vars
<1>2. ASSUME NEW b \in Actor, PublishStep(b)
      PROVE  pc'[a] = pc[a]
  BY <1>2 DEF PublishStep, PublishSend, Panic, PanicInJob, NoPub
<1>3. ASSUME NEW m \in Msg, MsgStep(m)
      PROVE  pc'[a] = pc[a]
  BY <1>3 DEF MsgStep, Send, SendFails, Insert, PublishMessage, PublishEvent,
     Published, Actor
<1>4. ASSUME NEW c \in Conn, Connect(c) \/ PeerGoes(c) \/ ConnStep(c)
      PROVE  pc'[a] = pc[a]
  BY <1>4 DEF ConnStep, Connect, PeerGoes, Subscribe, Hello, ReaderEnds,
     Deliver, Leave, Cancel, Published, Actor
<1> QED BY <1>1, <1>2, <1>3, <1>4 DEF Next

(* A goroutine that begins to send, or goes on, sends its own envelope.    *)
LEMMA SendersStep ==
  ASSUME TypeOK, EventsOfTasks, SendsItsOwn, [Next]_vars
  PROVE  SendsItsOwn'
<1> SUFFICES ASSUME NEW a \in Actor, pub'[a].to # {}
             PROVE  /\ pub'[a].env \in Envelope /\ pub'[a].env.of = a
                    /\ Started(pub[a].env)'
                    /\ a \in Conn => pc'[a] \in {"announcing", "leaving"}
                    /\ a \in Msg => pc'[a] \in {"message", "done"}
                    /\ a \in TaskMsg /\ pub'[a].env.kind = "room.message"
                         => pc'[a] = "message"
  BY DEF SendsItsOwn
<1>1. ASSUME pub[a].to # {}, pub'[a].env = pub[a].env
      PROVE  /\ pub'[a].env \in Envelope /\ pub'[a].env.of = a
             /\ Started(pub[a].env)' /\ pc'[a] = pc[a]
  BY <1>1, SendersWait, StartedStays DEF SendsItsOwn, Started
<1>2. ASSUME NEW e \in Envelope, StartsPublish(a, e)
      PROVE  pub'[a].env = e
  BY <1>2 DEF StartsPublish, PublishCopy, TypeOK
<1>3. ASSUME NEW b \in Actor, NEW e \in Envelope, StartsPublish(b, e), b # a
      PROVE  pub'[a] = pub[a]
  BY <1>3 DEF StartsPublish, PublishCopy, TypeOK
<1>4. ASSUME NEW b \in Actor, NEW c \in Conn, PublishSend(b, c)
      PROVE  pub[a].to # {} /\ pub'[a].env = pub[a].env
  BY <1>4 DEF PublishSend, TypeOK
<1>5. ASSUME NEW b \in Actor, Panic(b) \/ PanicInJob(b)
      PROVE  pub'[a] = pub[a]
  BY <1>5 DEF Panic, PanicInJob, NoPub, TypeOK
<1>6. CASE \E e \in Envelope : StartsPublish(a, e)
  BY <1>2, <1>6 DEF StartsPublish, Started
<1>7. CASE pub[a].to # {} /\ pub'[a].env = pub[a].env
  BY <1>1, <1>7 DEF SendsItsOwn
<1> QED BY <1>3, <1>4, <1>5, <1>6, <1>7, PubStep

(* Of two places of a thinned feed the feed held the same before.          *)
LEMMA ThinnedKeeps ==
  ASSUME NEW s, NEW t, Thinned(s, t)
  PROVE  /\ \A i \in DOMAIN t : \E k \in DOMAIN s : t[i] = s[k]
         /\ \A i, j \in DOMAIN t : i < j =>
              \E k, l \in DOMAIN s : k < l /\ t[i] = s[k] /\ t[j] = s[l]
<1>1. PICK f \in [DOMAIN t -> DOMAIN s] :
        /\ \A i, j \in DOMAIN t : i < j => f[i] < f[j]
        /\ \A i \in DOMAIN t : t[i] = s[f[i]]
  BY DEF Thinned
<1> QED BY <1>1

(* A subscriber hears of what it had heard of, and of what is sent to it.  *)
LEMMA HeardNow ==
  ASSUME TypeOK, TypeOK', SendsItsOwn, [Next]_vars,
         NEW c \in Conn, NEW e \in Envelope, InFeed(c, e)'
  PROVE  \/ InFeed(c, e)
         \/ \E a \in Actor : /\ PublishSend(a, c) /\ Sends(a, c)
                             /\ e = pub[a].env
<1>1. ASSUME NEW a \in Actor, NEW d \in Conn, PublishSend(a, d), Sends(a, d)
      PROVE  \/ InFeed(c, e)
             \/ \E b \in Actor : /\ PublishSend(b, c) /\ Sends(b, c)
                                 /\ e = pub[b].env
  <2>1. CASE c # d
    BY <1>1, <2>1 DEF Sends, InFeed
  <2>2. CASE c = d
    <3>1. pub[a].env \in Envelope /\ Feed(c) \in Seq(Envelope)
      BY <1>1, <2>2 DEF Sends, SendsItsOwn, Feed, TypeOK
    <3>2. PICK i \in DOMAIN Feed(c)' : Feed(c)'[i] = e
      BY DEF InFeed
    <3>3. CASE i = Len(Feed(c)) + 1
      <4>1. e = pub[a].env
        BY <1>1, <2>2, <3>1, <3>2, <3>3 DEF Sends
      <4> QED BY <1>1, <2>2, <4>1
    <3>4. CASE i # Len(Feed(c)) + 1
      <4>1. i \in DOMAIN Feed(c) /\ Feed(c)[i] = e
        BY <1>1, <2>2, <3>1, <3>2, <3>4 DEF Sends
      <4> QED BY <4>1 DEF InFeed
    <3> QED BY <3>3, <3>4
  <2> QED BY <2>1, <2>2
<1>2. ASSUME \A d \in Conn : Unfed(d)
      PROVE  InFeed(c, e)
  BY <1>2, ThinnedKeeps DEF Unfed, InFeed
<1> QED BY <1>1, <1>2, FeedStep

(* What a subscriber comes to hear of has been published by then.          *)
LEMMA HeardStep ==
  ASSUME TypeOK, TypeOK', SendsItsOwn, HeardIsStarted, [Next]_vars
  PROVE  HeardIsStarted'
<1> SUFFICES ASSUME NEW c \in Conn, NEW e \in Envelope, InFeed(c, e)'
             PROVE  Started(e)'
  BY DEF HeardIsStarted
<1>1. CASE InFeed(c, e)
  BY <1>1, StartedStays DEF HeardIsStarted
<1>2. ASSUME NEW a \in Actor, Sends(a, c), e = pub[a].env
      PROVE  Started(e)'
  <2>1. Started(e)
    BY <1>2 DEF Sends, SendsItsOwn
  <2> QED BY <2>1, StartedStays
<1> QED BY <1>1, <1>2, HeardNow

(* An envelope is addressed to a subscriber once, and sent to it once.     *)
LEMMA OnceStep ==
  ASSUME TypeOK, TypeOK', EventsOfTasks, SendsItsOwn, HeardIsStarted, SentOnce,
         [Next]_vars
  PROVE  SentOnce'
<1> SUFFICES ASSUME NEW a \in Actor, NEW c \in Conn, c \in pub'[a].to,
                    InFeed(c, pub[a].env)'
             PROVE  FALSE
  BY DEF SentOnce, TypeOK
<1>1. pub'[a].env \in Envelope
  BY SendersStep DEF SendsItsOwn
<1> DEFINE e == pub'[a].env
<1>2. ASSUME NEW b \in Actor, PublishSend(b, c), Sends(b, c), e = pub[b].env
      PROVE  FALSE
  <2>1. pub[b].env.of = b /\ pub'[a].env.of = a
    BY <1>2, SendersStep DEF Sends, SendsItsOwn
  <2> QED BY <1>2, <2>1 DEF PublishSend, TypeOK
<1>3. CASE InFeed(c, e)
  <2>1. Started(e)
    BY <1>1, <1>3 DEF HeardIsStarted
  <2>2. ASSUME c \in pub[a].to, pub[a].env = e
        PROVE  FALSE
    BY <1>3, <2>2 DEF SentOnce
  <2>3. ASSUME NEW b \in Actor, NEW d \in Conn, PublishSend(b, d)
        PROVE  FALSE
    BY <2>2, <2>3 DEF PublishSend, TypeOK
  <2>4. ASSUME NEW b \in Actor, Panic(b) \/ PanicInJob(b)
        PROVE  FALSE
    <3>1. pub'[a] = pub[a]
      BY <2>4 DEF Panic, PanicInJob, NoPub, TypeOK
    <3> QED BY <2>2, <3>1
  <2>5. ASSUME NEW b \in Actor, NEW f \in Envelope, StartsPublish(b, f)
        PROVE  FALSE
    <3>1. CASE b = a
      <4>1. e = f
        BY <2>5, <3>1 DEF StartsPublish, PublishCopy, TypeOK
      <4> QED BY <2>1, <2>5, <4>1 DEF StartsPublish
    <3>2. CASE b # a
      BY <2>2, <2>5, <3>2 DEF StartsPublish, PublishCopy, TypeOK
    <3> QED BY <3>1, <3>2
  <2>6. ASSUME pub' = pub
        PROVE  FALSE
    BY <2>2, <2>6
  <2> QED BY <2>3, <2>4, <2>5, <2>6, PubStep
<1> HIDE DEF e
<1> QED BY <1>1, <1>2, <1>3, HeardNow DEF e

(* An envelope that joins a feed is new to it and comes in its order.      *)
LEMMA OrderStep ==
  ASSUME TypeOK, TypeOK', SendsItsOwn, HeardIsStarted, SentOnce, FeedInOrder,
         [Next]_vars
  PROVE  FeedInOrder'
<1> DEFINE Apart(x, y) ==
      /\ x # y
      /\ ~(x.kind = "task.updated" /\ y = Env("room.message", x.of))
<1>1. \A c \in Conn : \A i, j \in DOMAIN Feed(c) :
        i < j => Apart(Feed(c)[i], Feed(c)[j])
  BY DEF FeedInOrder
<1> SUFFICES ASSUME NEW c \in Conn, NEW i \in DOMAIN Feed(c)',
                    NEW j \in DOMAIN Feed(c)', i < j
             PROVE  Apart(Feed(c)'[i], Feed(c)'[j])
  BY DEF FeedInOrder
<1>2. Feed(c) \in Seq(Envelope)
  BY DEF Feed, TypeOK
<1>3. ASSUME Unfed(c)
      PROVE  Apart(Feed(c)'[i], Feed(c)'[j])
  <2>1. PICK k \in DOMAIN Feed(c), l \in DOMAIN Feed(c) :
          k < l /\ Feed(c)'[i] = Feed(c)[k] /\ Feed(c)'[j] = Feed(c)[l]
    BY <1>3, ThinnedKeeps DEF Unfed
  <2> HIDE DEF Apart
  <2> QED BY <1>1, <2>1
<1>4. ASSUME NEW a \in Actor, Sends(a, c)
      PROVE  Apart(Feed(c)'[i], Feed(c)'[j])
  <2>1. /\ pub[a].env \in Envelope /\ pub[a].env.of = a
        /\ ~InFeed(c, pub[a].env)
        /\ a \in TaskMsg /\ pub[a].env.kind = "room.message"
             => pc[a] = "message"
    BY <1>4 DEF Sends, SendsItsOwn, SentOnce
  <2>2. /\ i \in DOMAIN Feed(c) /\ Feed(c)'[i] = Feed(c)[i]
        /\ \/ j \in DOMAIN Feed(c) /\ Feed(c)'[j] = Feed(c)[j]
           \/ Feed(c)'[j] = pub[a].env
    <3>1. Feed(c)' = Append(Feed(c), pub[a].env)
      BY <1>4 DEF Sends
    <3>2. i \in 1..Len(Feed(c)) /\ j \in 1..(Len(Feed(c)) + 1)
      BY <1>2, <2>1, <3>1
    <3> QED BY <1>2, <2>1, <3>1, <3>2
  <2>3. CASE j \in DOMAIN Feed(c) /\ Feed(c)'[j] = Feed(c)[j]
    <3> HIDE DEF Apart
    <3> QED BY <1>1, <2>2, <2>3
  <2>4. CASE Feed(c)'[j] = pub[a].env
    <3>1. Feed(c)[i] \in Envelope /\ InFeed(c, Feed(c)[i])
      BY <1>2, <2>2, ElementOfSeq DEF InFeed
    <3>2. Started(Feed(c)[i])
      BY <3>1 DEF HeardIsStarted
    <3>3. ASSUME Feed(c)[i].kind = "task.updated",
                 pub[a].env = Env("room.message", Feed(c)[i].of)
          PROVE  FALSE
      <4>1. Feed(c)[i].of \in TaskMsg
        BY <3>1, <3>3 DEF Envelope
      <4>2. a = Feed(c)[i].of /\ pub[a].env.kind = "room.message"
        BY <2>1, <3>3 DEF Env
      <4> QED BY <2>1, <3>2, <3>3, <4>1, <4>2 DEF Started
    <3> QED BY <2>1, <2>2, <2>4, <3>1, <3>3
  <2> QED BY <2>2, <2>3, <2>4
<1>5. ASSUME NEW a \in Actor, NEW d \in Conn, Sends(a, d), d # c
      PROVE  Apart(Feed(c)'[i], Feed(c)'[j])
  <2>1. Feed(c)' = Feed(c)
    BY <1>5 DEF Sends
  <2> HIDE DEF Apart
  <2> QED BY <1>1, <2>1
<1> HIDE DEF Apart
<1> QED BY <1>3, <1>4, <1>5, FeedStep

(* A channel joins the hub with its subscription and leaves it with it.    *)
LEMMA SubscribedStep ==
  ASSUME TypeOK, EventsOfTasks, SendsItsOwn, Subscribed, [Next]_vars
  PROVE  Subscribed'
<1> USE DEF Subscribed, TypeOK
<1>1. CASE UNCHANGED vars
  BY <1>1 DEF vars, hubVars, histVars
<1>2. ASSUME NEW a \in Actor, NEW c \in Conn, PublishSend(a, c)
      PROVE  Subscribed'
  BY <1>2 DEF PublishSend
<1>3. ASSUME NEW a \in Actor, Panic(a)
      PROVE  Subscribed'
  BY <1>3 DEF Panic, AfterPanic, hubVars, SendsItsOwn, Actor
<1>4. ASSUME NEW a \in Actor, PanicInJob(a)
      PROVE  Subscribed'
  BY <1>4 DEF PanicInJob, histVars, Actor
<1>5. ASSUME NEW m \in Msg, Send(m) \/ SendFails(m) \/ Insert(m)
      PROVE  Subscribed'
  <2>1. \A c \in Conn : pc'[c] = pc[c]
    BY <1>5 DEF Send, SendFails, Insert, Actor
  <2>2. UNCHANGED <<clients, owed>>
    BY <1>5 DEF Send, SendFails, Insert, hubVars, histVars
  <2> QED BY <2>1, <2>2
<1>6. ASSUME NEW m \in Msg, PublishMessage(m) \/ PublishEvent(m)
      PROVE  Subscribed'
  <2>1. \A c \in Conn : pc'[c] = pc[c]
    BY <1>6 DEF PublishMessage, PublishEvent, Actor
  <2>2. /\ clients' = clients
        /\ \A c \in Conn \ clients : owed'[c] \subseteq owed[c]
    BY <1>6 DEF PublishMessage, PublishEvent, PublishCopy, hubVars
  <2> QED BY <2>1, <2>2
<1>7. ASSUME NEW c \in Conn, Connect(c) \/ Leave(c)
      PROVE  Subscribed'
  <2>1. /\ clients' = clients
        /\ \A d \in Conn \ clients : owed'[d] \subseteq owed[d]
    BY <1>7 DEF Connect, Leave, PublishCopy, hubVars
  <2>2. CASE Connect(c)
    BY <2>1, <2>2 DEF Connect, Actor
  <2>3. CASE Leave(c)
    BY <2>1, <2>3 DEF Leave, Actor
  <2> QED BY <1>7, <2>2, <2>3
<1>8. ASSUME NEW c \in Conn, PeerGoes(c) \/ ReaderEnds(c) \/ Deliver(c)
      PROVE  Subscribed'
  <2>1. UNCHANGED <<clients, pc, owed>>
    BY <1>8 DEF PeerGoes, ReaderEnds, Deliver, hubVars, histVars
  <2> QED BY <2>1
<1>9. ASSUME NEW c \in Conn,
             Subscribe(c) \/ Hello(c, TRUE) \/ Hello(c, FALSE) \/ Cancel(c)
      PROVE  Subscribed'
  <2>1. CASE Subscribe(c)
    BY <2>1 DEF Subscribe, histVars, Actor
  <2>2. CASE Hello(c, TRUE) \/ Hello(c, FALSE)
    BY <2>2 DEF Hello, hubVars, histVars, Actor
  <2>3. CASE Cancel(c)
    BY <2>3 DEF Cancel, histVars, Actor
  <2> QED BY <1>9, <2>1, <2>2, <2>3
<1> QED
  BY <1>1, <1>2, <1>3, <1>4, <1>5, <1>6, <1>7, <1>8, <1>9
     DEF Next, PublishStep, MsgStep, ConnStep

(* What is on its way to c stays so, is sent, is dropped or is spoiled.    *)
LEMMA FlightStep ==
  ASSUME TypeOK, TypeOK', EventsOfTasks, SendsItsOwn, [Next]_vars,
         NEW c \in Conn, pc'[c] \in {"hello", "live"},
         NEW e \in Envelope, e \in InFlight(c)
  PROVE  InFeed(c, e)' \/ e \in (missed[c] \cup InFlight(c) \cup spoiled)'
<1>1. PICK a \in Actor : e = pub[a].env /\ c \in pub[a].to
  BY DEF InFlight
<1>2. CASE pub'[a].env = pub[a].env /\ c \in pub'[a].to
  BY <1>1, <1>2 DEF InFlight
<1>3. ASSUME NEW b \in Actor, NEW d \in Conn, PublishSend(b, d),
             b # a \/ d # c
      PROVE  pub'[a].env = pub[a].env /\ c \in pub'[a].to
  BY <1>1, <1>3 DEF PublishSend, TypeOK
<1>4. ASSUME PublishSend(a, c)
      PROVE  InFeed(c, e)' \/ e \in missed'[c]
  <2>1. CASE Len(buffer[c]) < Cap
    <3>1. Feed(c)' = received[c] \o Append(buffer[c], e)
      <4>1. buffer'[c] = Append(buffer[c], pub[a].env)
        BY <1>4, <2>1 DEF PublishSend, TypeOK
      <4>2. received' = received
        BY <1>4 DEF PublishSend
      <4> QED BY <1>1, <4>1, <4>2 DEF Feed
    <3>2. Feed(c)' = Append(Feed(c), e) /\ Feed(c) \in Seq(Envelope)
      BY <3>1, AppendToChannel DEF Feed, TypeOK
    <3>3. Len(Feed(c)) + 1 \in DOMAIN Feed(c)'
          /\ Feed(c)'[Len(Feed(c)) + 1] = e
      BY <3>2
    <3> QED BY <3>3 DEF InFeed
  <2>2. CASE ~(Len(buffer[c]) < Cap)
    BY <1>1, <1>4, <2>2 DEF PublishSend, TypeOK
  <2> QED BY <2>1, <2>2
<1>5. ASSUME NEW b \in Actor, Panic(b)
      PROVE  \/ pub'[a].env = pub[a].env /\ c \in pub'[a].to
             \/ e \in spoiled'
  BY <1>1, <1>5 DEF Panic, TypeOK
<1>6. ASSUME NEW b \in Actor, PanicInJob(b)
      PROVE  FALSE
  BY <1>6 DEF PanicInJob, Actor
<1>7. ASSUME NEW b \in Actor, NEW f \in Envelope, StartsPublish(b, f)
      PROVE  pub'[a].env = pub[a].env /\ c \in pub'[a].to
  BY <1>1, <1>7 DEF StartsPublish, PublishCopy, TypeOK
<1>8. ASSUME pub' = pub
      PROVE  pub'[a].env = pub[a].env /\ c \in pub'[a].to
  BY <1>1, <1>8
<1> QED BY <1>2, <1>3, <1>4, <1>5, <1>6, <1>7, <1>8, PubStep

(* A connection that goes on was subscribed, or has just subscribed.       *)
LEMMA GoesOn ==
  ASSUME TypeOK, [Next]_vars, NEW c \in Conn, pc'[c] \in {"hello", "live"}
  PROVE  pc[c] \in {"announcing", "hello", "live"}
<1> USE DEF TypeOK
<1>1. CASE UNCHANGED vars
  BY <1>1 DEF vars
<1>2. ASSUME NEW a \in Actor, PublishStep(a)
      PROVE  pc[c] \in {"announcing", "hello", "live"}
  BY <1>2 DEF PublishStep, PublishSend, Panic, PanicInJob, AfterPanic, Actor
<1>3. ASSUME NEW m \in Msg, MsgStep(m)
      PROVE  pc[c] \in {"announcing", "hello", "live"}
  BY <1>3 DEF MsgStep, Send, SendFails, Insert, PublishMessage, PublishEvent,
     Actor
<1>4. ASSUME NEW d \in Conn, Connect(d) \/ PeerGoes(d) \/ ConnStep(d)
      PROVE  pc[c] \in {"announcing", "hello", "live"}
  BY <1>4 DEF ConnStep, Connect, PeerGoes, Subscribe, Hello, ReaderEnds,
     Deliver, Leave, Cancel, Actor
<1> QED BY <1>1, <1>2, <1>3, <1>4 DEF Next

(* What a connected subscriber is owed is accounted for after a step.      *)
LEMMA DeliveredStep ==
  ASSUME TypeOK, TypeOK', EventsOfTasks, SendsItsOwn, Subscribed,
         DeliveredOrFull, [Next]_vars
  PROVE  DeliveredOrFull'
<1> SUFFICES ASSUME NEW c \in Conn, pc'[c] \in {"hello", "live"},
                    NEW e \in owed'[c]
             PROVE  InFeed(c, e)'
                      \/ e \in (missed[c] \cup InFlight(c) \cup spoiled)'
  BY DEF DeliveredOrFull
<1> e \in Envelope
  BY DEF TypeOK
<1>1. CASE e \in owed[c]
  <2>1. InFeed(c, e) \/ e \in missed[c] \cup InFlight(c) \cup spoiled
    BY <1>1, GoesOn DEF DeliveredOrFull, Subscribed
  <2>2. ASSUME InFeed(c, e)
        PROVE  InFeed(c, e)'
    <3>1. ASSUME Feed(c)' = Feed(c)
          PROVE  InFeed(c, e)'
      BY <2>2, <3>1 DEF InFeed
    <3>2. ASSUME NEW a \in Actor, Sends(a, c)
          PROVE  InFeed(c, e)'
      <4>1. pub[a].env \in Envelope /\ Feed(c) \in Seq(Envelope)
        BY <3>2 DEF Sends, SendsItsOwn, Feed, TypeOK
      <4>2. \A i \in DOMAIN Feed(c) :
              i \in DOMAIN Feed(c)' /\ Feed(c)'[i] = Feed(c)[i]
        BY <3>2, <4>1 DEF Sends
      <4> QED BY <2>2, <4>2 DEF InFeed
    <3> QED BY <3>1, <3>2, FeedStep DEF Unfed, Sends
  <2>3. missed[c] \subseteq missed'[c] /\ spoiled \subseteq spoiled'
    <3>1. ASSUME NEW a \in Actor, NEW d \in Conn, PublishSend(a, d)
          PROVE  missed[c] \subseteq missed'[c] /\ spoiled \subseteq spoiled'
      <4>1. \/ missed' = [missed EXCEPT ![d] = missed[d] \cup {pub[a].env}]
            \/ missed' = missed
        BY <3>1 DEF PublishSend
      <4>2. missed \in [Conn -> SUBSET Envelope] /\ spoiled' = spoiled
        BY <3>1 DEF PublishSend, TypeOK
      <4> QED BY <4>1, <4>2
    <3> QED
      BY <3>1, PubStep DEF Panic, PanicInJob, StartsPublish, histVars
  <2> QED BY <2>1, <2>2, <2>3, FlightStep
<1>2. CASE e \notin owed[c]
  <2>1. PICK a \in Actor : StartsPublish(a, e)
    <3>1. ASSUME NEW a \in Actor, NEW f \in Envelope, StartsPublish(a, f)
          PROVE  StartsPublish(a, e)
      <4>1. e = f
        BY <1>2, <3>1 DEF StartsPublish, PublishCopy
      <4> QED BY <3>1, <4>1
    <3>2. owed' # owed
      BY <1>2
    <3> QED
      BY <3>1, <3>2, PubStep DEF PublishSend, Panic, PanicInJob, histVars
  <2>2. c \in clients
    BY <1>2, <2>1 DEF StartsPublish, PublishCopy
  <2>3. pub'[a] = [env |-> e, to |-> clients]
    BY <2>1 DEF StartsPublish, PublishCopy, TypeOK
  <2> QED BY <2>2, <2>3 DEF InFlight
<1> QED BY <1>1, <1>2

---------------------------------------------------------------------------
(* Theorems about the hub                                                  *)

(* Before anything is published the invariant holds,                       *)
LEMMA InitInv == Init => HubInv
<1> SUFFICES ASSUME Init
             PROVE  HubInv
  OBVIOUS
<1> USE DEF Init
<1>1. TypeOK
  BY DEF TypeOK, NoPub, ConnPC, MsgPC, Actor
<1>2. \A c \in Conn : Feed(c) = <<>>
  <2>1. <<>> \o <<>> = <<>>
    OBVIOUS
  <2> QED BY <2>1 DEF Feed
<1>3. HeardIsStarted /\ FeedInOrder
  BY <1>2 DEF HeardIsStarted, FeedInOrder, InFeed
<1>4. EventsOfTasks /\ SendsItsOwn /\ SentOnce
  BY DEF EventsOfTasks, SendsItsOwn, SentOnce, NoPub, Actor
<1>5. Subscribed /\ DeliveredOrFull
  BY DEF Subscribed, DeliveredOrFull
<1> QED BY <1>1, <1>3, <1>4, <1>5 DEF HubInv

(* and every step keeps it.                                                *)
LEMMA InvStep == HubInv /\ [Next]_vars => HubInv'
<1> SUFFICES ASSUME HubInv, [Next]_vars
             PROVE  HubInv'
  OBVIOUS
<1>1. TypeOK'
  BY TypeStep DEF HubInv
<1> QED
  BY <1>1, EventsStep, SendersStep, HeardStep, OnceStep, SubscribedStep,
     OrderStep, DeliveredStep DEF HubInv

(* Every state of the hub satisfies the inductive invariant, the type      *)
(* invariant among its parts.                                              *)
THEOREM HubInvariant == Spec => []HubInv
BY InitInv, InvStep, PTL DEF Spec

(* With any number of publishers and subscribers, however hub.publish and  *)
(* the goroutines of the connections interleave, no subscriber reads an    *)
(* envelope twice, or a task's event before the message that announces it. *)
THEOREM FeedsInOrder == Spec => []FeedInOrder
<1>1. HubInv => FeedInOrder
  BY DEF HubInv
<1> QED BY <1>1, HubInvariant, PTL

(* Whatever is published while a connection is subscribed reaches it,      *)
(* unless its own channel was full or a panic cut the publish short.       *)
THEOREM SlowHurtsOnlyItself == Spec => []DeliveredOrFull
<1>1. HubInv => DeliveredOrFull
  BY DEF HubInv
<1> QED BY <1>1, HubInvariant, PTL

---------------------------------------------------------------------------
(* The files                                                               *)

Held(s) == {s[n] : n \in DOMAIN s}

(* What the file and its k youngest archives hold.                         *)
HeldBy(k) == Held(file) \cup UNION {Held(backups[j]) : j \in 1..k}

SinkType ==
  /\ written \in Seq(Item)
  /\ file \in Seq(Lines) /\ backups \in [1..MaxBackups -> Seq(Lines)]

(* However many archives one looks at, they hold everything since the      *)
(* oldest line in them; and the last line is in the first two files.       *)
SinkInv ==
  /\ \A k \in 0..MaxBackups : \A n \in HeldBy(k) :
       n..Len(written) \subseteq HeldBy(k)
  /\ written # <<>> /\ MaxBackups > 0 => Len(written) \in HeldBy(1)

---------------------------------------------------------------------------
(* The command                                                             *)

(* The goroutines do what the command is waiting for; what was listed is   *)
(* being emitted, and only a reader has a connection.                      *)
PlaceInv ==
  /\ main \in {"identity", "ended"} => \A p \in Project : goroutine[p] = "none"
  /\ main \notin {"identity", "ended", "catchup"} =>
       \A p \in Project : goroutine[p] \in {"dial", "read", "backoff", "closed"}
  /\ main = "ended" => seen = {}
  /\ \A p \in Project :
       /\ listed[p] # {} => goroutine[p] \in {"emitMentions", "emitTasks"}
       /\ link[p] = "up" \/ wire[p] # <<>> => goroutine[p] = "read"

(* An id is marked only for what is written or lost with its write.        *)
SeenInv ==
  \A i \in Item :
    \/ CatchupId(i) \in seen
    \/ StreamId(i) \in seen /\ Kind(i) # Nil
    => Reported(i) \/ i \in excused

(* What waits for the agent is still to be listed or emitted, if it is not *)
(* reported, on its way or lost.                                           *)
WaitInv ==
  \A i \in published \ handled : ForMe(i) =>
    \/ main = "ended" \/ CatchupCovers(i)
    \/ Reported(i) \/ i \in excused \/ i \in ItemsOf(wire[i.project])

---------------------------------------------------------------------------
(* What a step does to the files                                           *)

USE SinkAssumption, ItemAssumption, NilAssumption

(* A line is appended, or a rotation stops half way.                       *)
SinkMove ==
  \/ UNCHANGED sink
  \/ \E i \in Item : Append1(i)
  \/ FailedRotation /\ UNCHANGED written

(* A rotation moves the archives up, behind a part of the file.            *)
LEMMA HeldShifted ==
  ASSUME NEW s, backups' = Shift(s), Held(s) \subseteq Held(file),
         NEW k \in 1..MaxBackups
  PROVE  UNION {Held(backups'[j]) : j \in 1..k} =
           Held(s) \cup UNION {Held(backups[j]) : j \in 1..(k - 1)}
<1>1. \A j \in 1..k : backups'[j] = IF j = 1 THEN s ELSE backups[j - 1]
  BY DEF Shift
<1>2. backups'[1] = s /\ \A j \in 1..(k - 1) : backups'[j + 1] = backups[j]
  BY <1>1
<1>3. ASSUME NEW n, NEW j \in 1..k, n \in Held(backups'[j])
      PROVE  n \in Held(s) \cup UNION {Held(backups[l]) : l \in 1..(k - 1)}
  <2>1. CASE j = 1
    BY <1>2, <1>3, <2>1
  <2>2. CASE j # 1
    <3>1. j - 1 \in 1..(k - 1) /\ backups'[j] = backups[j - 1]
      BY <1>1, <2>2
    <3> QED BY <1>3, <3>1
  <2> QED BY <2>1, <2>2
<1>4. ASSUME NEW n, NEW j \in 1..(k - 1), n \in Held(backups[j])
      PROVE  n \in UNION {Held(backups'[l]) : l \in 1..k}
  <2>1. j + 1 \in 1..k
    OBVIOUS
  <2> QED BY <1>2, <1>4, <2>1
<1>5. ASSUME NEW n, n \in Held(s)
      PROVE  n \in UNION {Held(backups'[l]) : l \in 1..k}
  BY <1>2, <1>5
<1> QED BY <1>3, <1>4, <1>5

(* What a sequence holds after something was appended to it.               *)
LEMMA HeldAppended ==
  ASSUME NEW S, NEW s \in Seq(S), NEW e \in S
  PROVE  Held(Append(s, e)) = Held(s) \cup {e}
<1> DEFINE t == Append(s, e)
<1>1. /\ t \in Seq(S) /\ Len(t) = Len(s) + 1 /\ t[Len(s) + 1] = e
      /\ \A n \in 1..Len(s) : t[n] = s[n]
  BY AppendProperties
<1>2. DOMAIN t = 1..(Len(s) + 1) /\ DOMAIN s = 1..Len(s) /\ Len(s) \in Nat
  BY <1>1, LenProperties
<1> HIDE DEF t
<1>3. DOMAIN t = DOMAIN s \cup {Len(s) + 1}
  BY <1>2
<1> QED BY <1>1, <1>2, <1>3 DEF Held

(* A file holds lines that were written.                                   *)
LEMMA HeldAreLines ==
  ASSUME SinkType
  PROVE  \A k \in 0..MaxBackups : HeldBy(k) \subseteq Lines
<1>1. \A s \in Seq(Lines) : Held(s) \subseteq Lines
  BY DEF Held
<1> QED BY <1>1 DEF HeldBy, SinkType

(* What the files hold after a line was appended.                          *)
LEMMA AppendKeeps ==
  ASSUME SinkType, SinkInv, NEW i \in Item, Append1(i)
  PROVE  SinkType' /\ SinkInv'
<1> DEFINE L == Len(written)
<1>1. /\ L \in Nat /\ written' = Append(written, i) /\ written' \in Seq(Item)
      /\ Len(written') = L + 1 /\ written' # <<>>
  BY AppendProperties DEF Append1, SinkType
<1>2. Lines' = Lines \cup {L + 1} /\ Lines \subseteq Lines'
  BY <1>1 DEF Lines
<1>3. \A s \in Seq(Lines) : s \in Seq(Lines')
  BY <1>2, SeqMonotonic
<1>4. HeldBy(0) = Held(file) /\ HeldBy(0)' = Held(file')
  BY DEF HeldBy
<1>5. CASE Full
  <2>1. file' = <<L + 1>> /\ backups' = Shift(file)
    BY <1>5 DEF Append1
  <2>2. SinkType'
    <3>1. file' \in Seq(Lines')
      BY <1>2, <2>1
    <3>2. backups' \in [1..MaxBackups -> Seq(Lines')]
      BY <1>3, <2>1 DEF Shift, SinkType
    <3> QED BY <1>1, <3>1, <3>2 DEF SinkType
  <2>3. Held(file') = {L + 1}
    BY <2>1 DEF Held
  <2>4. \A k \in 1..MaxBackups : HeldBy(k)' = {L + 1} \cup HeldBy(k - 1)
    BY <2>1, <2>3, HeldShifted DEF HeldBy
  <2>5. ASSUME NEW k \in 0..MaxBackups, NEW n \in HeldBy(k)'
        PROVE  n..(L + 1) \subseteq HeldBy(k)'
    <3>1. CASE n = L + 1
      <4>1. n..(L + 1) = {n}
        BY <1>1, <3>1
      <4> QED BY <4>1
    <3>2. CASE n # L + 1
      <4>1. k \in 1..MaxBackups /\ n \in HeldBy(k - 1)
        BY <1>4, <2>3, <2>4, <2>5, <3>2
      <4>2. k - 1 \in 0..MaxBackups
        BY <4>1
      <4>3. n..L \subseteq HeldBy(k - 1) /\ n \in Nat
        BY <1>1, <4>1, <4>2, HeldAreLines DEF SinkInv, Lines
      <4>4. n..(L + 1) \subseteq n..L \cup {L + 1}
        BY <1>1, <4>3
      <4> QED BY <2>4, <4>1, <4>3, <4>4
    <3> QED BY <3>1, <3>2
  <2>6. MaxBackups > 0 => L + 1 \in HeldBy(1)'
    BY <2>4
  <2> QED BY <1>1, <2>2, <2>5, <2>6 DEF SinkInv
<1>6. CASE ~Full
  <2>1. file' = Append(file, L + 1) /\ backups' = backups
    BY <1>6 DEF Append1
  <2>2. SinkType'
    <3>1. file' \in Seq(Lines')
      BY <1>2, <1>3, <2>1, AppendProperties DEF SinkType
    <3>2. backups' \in [1..MaxBackups -> Seq(Lines')]
      BY <1>3, <2>1 DEF SinkType
    <3> QED BY <1>1, <3>1, <3>2 DEF SinkType
  <2>3. Held(file') = Held(file) \cup {L + 1}
    <3>1. file \in Seq(Lines') /\ L + 1 \in Lines'
      BY <1>2, <1>3 DEF SinkType
    <3> QED BY <2>1, <3>1, HeldAppended
  <2>4. \A k \in 0..MaxBackups : HeldBy(k)' = HeldBy(k) \cup {L + 1}
    BY <2>1, <2>3 DEF HeldBy
  <2>5. ASSUME NEW k \in 0..MaxBackups, NEW n \in HeldBy(k)'
        PROVE  n..(L + 1) \subseteq HeldBy(k)'
    <3>1. CASE n = L + 1
      <4>1. n..(L + 1) = {n}
        BY <1>1, <3>1
      <4> QED BY <4>1
    <3>2. CASE n # L + 1
      <4>1. n \in HeldBy(k)
        BY <2>4, <2>5, <3>2
      <4>2. n..L \subseteq HeldBy(k) /\ n \in Nat
        BY <1>1, <4>1, HeldAreLines DEF SinkInv, Lines
      <4>3. n..(L + 1) \subseteq n..L \cup {L + 1}
        BY <1>1, <4>2
      <4> QED BY <2>4, <4>2, <4>3
    <3> QED BY <3>1, <3>2
  <2>6. MaxBackups > 0 => L + 1 \in HeldBy(1)'
    BY <2>4
  <2> QED BY <1>1, <2>2, <2>5, <2>6 DEF SinkInv
<1> QED BY <1>5, <1>6

(* A full file holds the last line.                                        *)
LEMMA FullHoldsLast ==
  ASSUME SinkType, SinkInv, Full
  PROVE  Len(written) \in Held(file)
<1>1. 1 \in DOMAIN file /\ file[1] \in Lines
  BY DEF Full, SinkType
<1>2. file[1] \in HeldBy(0) /\ 0 \in 0..MaxBackups
  BY <1>1 DEF HeldBy, Held
<1>3. file[1]..Len(written) \subseteq HeldBy(0)
  BY <1>2 DEF SinkInv
<1>4. Len(written) \in file[1]..Len(written)
  BY <1>1, LenProperties DEF Lines, SinkType
<1>5. HeldBy(0) = Held(file)
  BY DEF HeldBy
<1> QED BY <1>3, <1>4, <1>5

(* And after a rotation that did not get to its line.                      *)
LEMMA RotationKeeps ==
  ASSUME SinkType, SinkInv, FailedRotation, UNCHANGED written
  PROVE  SinkType' /\ SinkInv'
<1>1. PICK s \in Seq(Lines) :
        /\ Full /\ MaxBackups > 0 /\ backups' = Shift(s)
        /\ Held(s) \subseteq Held(file)
        /\ \/ file' = file
           \/ s = file /\ file' = <<>>
  <2>1. CASE RotatedOnly
    BY <2>1 DEF RotatedOnly, SinkType
  <2>2. ASSUME NEW n \in 0..Len(file), TornRotation(n)
        PROVE  /\ SubSeq(file, 1, n) \in Seq(Lines)
               /\ Held(SubSeq(file, 1, n)) \subseteq Held(file)
    BY <2>2, SubSeqProperties DEF Held, SinkType
  <2> QED BY <2>1, <2>2 DEF FailedRotation, TornRotation
<1>2. Lines' = Lines
  BY DEF Lines
<1>3. SinkType'
  <2>1. file' \in Seq(Lines)
    <3>1. file \in Seq(Lines) /\ <<>> \in Seq(Lines)
      BY EmptySeq DEF SinkType
    <3> QED BY <1>1, <3>1
  <2>2. backups' \in [1..MaxBackups -> Seq(Lines)]
    BY <1>1 DEF Shift, SinkType
  <2> QED BY <1>2, <2>1, <2>2 DEF SinkType
<1>4. Held(<<>>) = {}
  BY DEF Held
<1>5. \A k \in 1..MaxBackups : HeldBy(k)' = HeldBy(k - 1)
  <2> TAKE k \in 1..MaxBackups
  <2>1. UNION {Held(backups'[j]) : j \in 1..k} =
          Held(s) \cup UNION {Held(backups[j]) : j \in 1..(k - 1)}
    BY <1>1, HeldShifted
  <2>2. Held(file') \cup Held(s) = Held(file)
    BY <1>1, <1>4
  <2> QED BY <2>1, <2>2 DEF HeldBy
<1>6. HeldBy(0)' = {} \/ HeldBy(0)' = HeldBy(0)
  BY <1>1, <1>4 DEF HeldBy
<1>7. \A k \in 0..MaxBackups : \A n \in HeldBy(k)' :
        n..Len(written) \subseteq HeldBy(k)'
  <2> TAKE k \in 0..MaxBackups
  <2>1. CASE k = 0
    BY <1>6, <2>1 DEF SinkInv
  <2>2. CASE k # 0
    BY <1>5, <2>2 DEF SinkInv
  <2> QED BY <2>1, <2>2
<1>8. Len(written) \in HeldBy(1)'
  <2>1. HeldBy(0) = Held(file) /\ 1 \in 1..MaxBackups
    BY <1>1 DEF HeldBy
  <2> QED BY <1>1, <1>5, <2>1, FullHoldsLast
<1> QED BY <1>3, <1>7, <1>8 DEF SinkInv

(* Whatever a step does to the files keeps the lines in order.             *)
LEMMA SinkKept ==
  ASSUME SinkType, SinkInv, SinkMove
  PROVE  SinkType' /\ SinkInv' /\ \A i : Reported(i) => Reported(i)'
<1>1. CASE UNCHANGED sink
  <2>1. UNCHANGED <<file, backups, written>>
    BY <1>1 DEF sink
  <2>2. UNCHANGED Lines /\ \A k : HeldBy(k)' = HeldBy(k)
    BY <2>1 DEF Lines, HeldBy
  <2> QED BY <2>1, <2>2 DEF SinkType, SinkInv, Reported
<1>2. CASE \E i \in Item : Append1(i)
  <2>1. PICK i \in Item : written' = Append(written, i)
    BY <1>2 DEF Append1
  <2>2. Held(written) \subseteq Held(written')
    BY <2>1, HeldAppended DEF SinkType
  <2>3. \A j : Reported(j) => Reported(j)'
    BY <2>2 DEF Held, Reported
  <2> QED BY <1>2, <2>3, AppendKeeps
<1>3. CASE FailedRotation /\ UNCHANGED written
  BY <1>3, RotationKeeps DEF Reported
<1> QED BY <1>1, <1>2, <1>3 DEF SinkMove

---------------------------------------------------------------------------
(* Types                                                                   *)

(* What is on its way to a project.                                        *)
Wire == Seq(Item \cup {Greeting})

LEMMA WireItems ==
  ASSUME NEW s \in Wire
  PROVE  /\ ItemsOf(s) \subseteq Item
         /\ \A i \in Item : /\ Append(s, i) \in Wire
                            /\ ItemsOf(Append(s, i)) = ItemsOf(s) \cup {i}
         /\ s # <<>> =>
              /\ Tail(s) \in Wire /\ Head(s) \in Item \cup {Greeting}
              /\ ItemsOf(s) \subseteq ItemsOf(Tail(s)) \cup {Head(s)}
<1> DEFINE T == Item \cup {Greeting}
<1>1. ItemsOf(s) \subseteq Item
  BY DEF ItemsOf, Wire
<1>2. ASSUME NEW i \in Item
      PROVE  /\ Append(s, i) \in Wire
             /\ ItemsOf(Append(s, i)) = ItemsOf(s) \cup {i}
  <2>1. Append(s, i) \in Wire
    BY AppendProperties DEF Wire
  <2>2. Held(Append(s, i)) = Held(s) \cup {i}
    <3>1. s \in Seq(T) /\ i \in T
      BY DEF Wire
    <3> HIDE DEF T
    <3> QED BY <3>1, HeldAppended
  <2>3. i # Greeting
    OBVIOUS
  <2> QED BY <2>1, <2>2, <2>3 DEF ItemsOf, Held
<1>3. ASSUME s # <<>>
      PROVE  /\ Tail(s) \in Wire /\ Head(s) \in Item \cup {Greeting}
             /\ ItemsOf(s) \subseteq ItemsOf(Tail(s)) \cup {Head(s)}
  <2>1. /\ Head(s) \in T /\ Tail(s) \in Seq(T) /\ Len(Tail(s)) = Len(s) - 1
        /\ \A n \in 1..Len(Tail(s)) : Tail(s)[n] = s[n + 1]
    BY <1>3, HeadTailProperties DEF Wire
  <2>2. DOMAIN s = 1..Len(s) /\ Len(s) \in Nat /\ Head(s) = s[1]
    BY <1>3, LenProperties DEF Wire
  <2>3. DOMAIN Tail(s) = 1..(Len(s) - 1)
    BY <2>1, LenProperties
  <2>4. ASSUME NEW n \in DOMAIN s, n # 1
        PROVE  n - 1 \in DOMAIN Tail(s) /\ Tail(s)[n - 1] = s[n]
    BY <2>1, <2>2, <2>3, <2>4
  <2> QED BY <2>1, <2>2, <2>4 DEF ItemsOf, Wire
<1> QED BY <1>1, <1>2, <1>3

(* What stays on its way when the connection breaks, and what does not.    *)
LEMMA WireBroken ==
  ASSUME NEW s \in Wire, NEW n \in 0..Len(s)
  PROVE  /\ SubSeq(s, 1, n) \in Wire /\ SubSeq(s, n + 1, Len(s)) \in Wire
         /\ ItemsOf(s) \subseteq ItemsOf(SubSeq(s, 1, n))
                                   \cup ItemsOf(SubSeq(s, n + 1, Len(s)))
<1> DEFINE T == Item \cup {Greeting}
           a == SubSeq(s, 1, n)
           b == SubSeq(s, n + 1, Len(s))
<1>1. DOMAIN s = 1..Len(s) /\ Len(s) \in Nat /\ \A m \in 1..Len(s) : s[m] \in T
  BY LenProperties DEF Wire
<1>2. /\ a \in Seq(T) /\ Len(a) = n
      /\ \A m \in 1..n : a[m] = s[m]
  BY <1>1, SubSeqProperties
<1>3. /\ b \in Seq(T) /\ Len(b) = Len(s) - n
      /\ \A m \in 1..(Len(s) - n) : b[m] = s[n + m]
  <2> DEFINE l == Len(s)
  <2>1. /\ l \in Nat /\ n \in 0..l /\ n + 1 \in Int
        /\ \A m \in (n + 1)..l : s[m] \in T
    BY <1>1
  <2> HIDE DEF l, T
  <2>2. /\ SubSeq(s, n + 1, l) \in Seq(T)
        /\ Len(SubSeq(s, n + 1, l)) = IF n + 1 <= l THEN l - (n + 1) + 1 ELSE 0
        /\ \A m \in 1..(l - (n + 1) + 1) :
             SubSeq(s, n + 1, l)[m] = s[n + 1 + m - 1]
    BY <2>1, SubSeqProperties
  <2>3. ASSUME NEW m \in 1..(l - n)
        PROVE  SubSeq(s, n + 1, l)[m] = s[n + m]
    <3>1. m \in 1..(l - (n + 1) + 1) /\ n + 1 + m - 1 = n + m
      BY <2>1
    <3> QED BY <2>2, <3>1
  <2>4. Len(SubSeq(s, n + 1, l)) = l - n
    <3>1. /\ n + 1 <= l => l - (n + 1) + 1 = l - n
          /\ ~(n + 1 <= l) => l - n = 0
      BY <2>1
    <3> QED BY <2>2, <3>1
  <2> QED BY <2>2, <2>3, <2>4 DEF l
<1>4. DOMAIN a = 1..n /\ DOMAIN b = 1..(Len(s) - n)
  BY <1>2, <1>3, LenProperties
<1> HIDE DEF a, b
<1>5. ASSUME NEW m \in DOMAIN s
      PROVE  s[m] \in Held(a) \cup Held(b)
  <2>1. CASE m <= n
    BY <1>1, <1>2, <1>4, <2>1 DEF Held
  <2>2. CASE m > n
    <3>1. m - n \in DOMAIN b /\ b[m - n] = s[m]
      BY <1>1, <1>3, <1>4, <2>2
    <3> QED BY <3>1 DEF Held
  <2> QED BY <1>1, <2>1, <2>2
<1>6. ItemsOf(s) \subseteq ItemsOf(a) \cup ItemsOf(b)
  BY <1>5 DEF ItemsOf, Held
<1> QED BY <1>2, <1>3, <1>6 DEF Wire, a, b

(* The types of the server, the connections and the command.               *)
ServerType ==
  /\ stored \subseteq Item /\ handled \subseteq stored
  /\ published \subseteq stored /\ excused \subseteq Item

NetType ==
  /\ link \in [Project -> {"down", "up", "broken"}]
  /\ wire \in [Project -> Wire]

ProcType ==
  /\ main \in {"identity", "catchup", "starting", "proving", "watching",
               "failing", "ended"}
  /\ ready \in [Project -> {Nil, "connected", "failed"}]
  /\ stop \in BOOLEAN /\ greeted \in BOOLEAN
  /\ starts \in 1..MaxStarts

Stage == {"none", "mentions", "emitMentions", "tasks", "emitTasks", "caught",
          "dial", "read", "backoff", "closed"}
Id == {StreamId(i) : i \in Item} \cup {CatchupId(i) : i \in Item}
LoopType ==
  /\ goroutine \in [Project -> Stage]
  /\ listed \in [Project -> SUBSET Item] /\ seen \subseteq Id
  /\ faults \in 0..MaxFaults

LEMMA TypeParts ==
  WatchTypeOK <=> ServerType /\ NetType /\ ProcType /\ LoopType /\ SinkType
BY DEF WatchTypeOK, ServerType, NetType, ProcType, LoopType, SinkType, Wire,
       Stage, Id

(* A line is written, or the item is excused.                              *)
LEMMA EmitStep ==
  ASSUME WatchTypeOK, NEW i \in Item, EmitItem(i)
  PROVE  /\ SinkMove
         /\ excused \subseteq excused' /\ excused' \subseteq excused \cup {i}
         /\ faults' \in 0..MaxFaults
         /\ Reported(i)' \/ i \in excused'
<1>1. CASE Append1(i) /\ UNCHANGED <<faults, excused>>
  <2>1. written' = Append(written, i)
    BY <1>1 DEF Append1
  <2>2. written \in Seq(Item)
    BY DEF WatchTypeOK
  <2>3. Held(written') = Held(written) \cup {i}
    BY <2>1, <2>2, HeldAppended
  <2>4. Reported(i)'
    BY <2>3 DEF Held, Reported
  <2> QED BY <1>1, <2>4 DEF SinkMove, WatchTypeOK
<1>2. CASE /\ faults < MaxFaults /\ faults' = faults + 1
           /\ excused' = excused \cup {i}
           /\ \/ UNCHANGED sink
              \/ FailedRotation /\ UNCHANGED written
  BY <1>2 DEF SinkMove, WatchTypeOK
<1> QED BY <1>1, <1>2 DEF EmitItem

(* An item is dealt with once per id.                                      *)
Dealt(id, i) ==
  \/ id \in seen /\ UNCHANGED <<seen, sink, faults, excused>>
  \/ seen' = seen \cup {id} /\ EmitItem(i)

LEMMA ReadStep ==
  ASSUME WatchTypeOK, NEW p \in Project, Read(p)
  PROVE  LET i == Head(wire[p]) IN
         /\ goroutine[p] = "read" /\ wire[p] # <<>> /\ wire[p] \in Wire
         /\ wire' = [wire EXCEPT ![p] = Tail(@)]
         /\ UNCHANGED <<server, link, main, stop, starts, goroutine, listed>>
         /\ \/ /\ i = Greeting
               /\ MarkReady(p, "connected") /\ greeted' = TRUE
               /\ UNCHANGED <<seen, sink, faults, excused>>
            \/ /\ i \in Item /\ UNCHANGED <<ready, greeted>>
               /\ \/ Kind(i) # Nil /\ Dealt(StreamId(i), i)
                  \/ /\ Kind(i) = Nil /\ UNCHANGED <<sink, faults, excused>>
                     /\ seen' = seen \cup {StreamId(i)}
<1>1. goroutine[p] = "read" /\ wire[p] # <<>> /\ wire[p] \in Wire
  BY DEF Read, WatchTypeOK, Wire
<1>2. Head(wire[p]) \in Item \cup {Greeting}
  BY <1>1, WireItems
<1>3. ASSUME NEW i \in Item, Arrives(p, i)
      PROVE  \/ Kind(i) # Nil /\ Dealt(StreamId(i), i)
             \/ /\ Kind(i) = Nil /\ UNCHANGED <<sink, faults, excused>>
                /\ seen' = seen \cup {StreamId(i)}
  BY <1>3 DEF Arrives, Dealt
<1>4. /\ wire' = [wire EXCEPT ![p] = Tail(@)]
      /\ UNCHANGED <<server, link, main, stop, starts, goroutine, listed>>
  BY DEF Read
<1>5. CASE Head(wire[p]) = Greeting
  BY <1>1, <1>4, <1>5 DEF Read
<1>6. CASE Head(wire[p]) # Greeting
  BY <1>1, <1>2, <1>3, <1>4, <1>6 DEF Read
<1> QED BY <1>5, <1>6

(* Every step appends a line, stops in a rotation or leaves the files.     *)
LEMMA SinkStep ==
  ASSUME WatchTypeOK, [WatchNext]_watchVars
  PROVE  SinkMove
<1>1. CASE UNCHANGED sink
  BY <1>1 DEF SinkMove
<1>2. CASE ServerStep \/ Signal \/ GivesUp \/ MainStep \/ Start
             \/ UNCHANGED watchVars
  <2>1. UNCHANGED sink
    BY <1>2 DEF ServerStep, Store, Handle, Publish, Signal, GivesUp, MainGoes,
       MainStep, Identify, Refused, StartStreams, AllReady, Connected, Fails,
       Shutdown, Start, watchVars
  <2> QED BY <1>1, <2>1
<1>3. CASE Killed
  <2>1. UNCHANGED written
    BY <1>3 DEF Killed, ProcessEnds
  <2> QED BY <1>3, <2>1 DEF Killed, SinkMove
<1>4. ASSUME NEW p \in Project, CatchupStep(p)
      PROVE  SinkMove
  <2>1. CASE ListWaiting(p) \/ ListNothing(p) \/ ListingDone(p)
    BY <1>1, <2>1 DEF ListWaiting, ListNothing, ListingDone
  <2>2. ASSUME NEW i \in listed[p], EmitListed(p, i)
        PROVE  SinkMove
    <3>1. i \in Item
      BY DEF WatchTypeOK
    <3> QED BY <1>1, <2>2, <3>1, EmitStep DEF EmitListed
  <2> QED BY <1>4, <2>1, <2>2 DEF CatchupStep
<1>5. ASSUME NEW p \in Project, StreamStep(p) \/ LinkBreaks(p)
      PROVE  SinkMove
  <2>1. CASE Read(p)
    <3>1. UNCHANGED sink \/ \E i \in Item : EmitItem(i)
      BY <2>1, ReadStep DEF Dealt
    <3> QED BY <1>1, <3>1, EmitStep
  <2>2. CASE \/ Dial(p) \/ DialFails(p) \/ ReadFails(p) \/ Backoff(p)
             \/ LinkBreaks(p)
    BY <1>1, <2>2 DEF Dial, DialFails, ReadFails, Disconnect, Backoff,
       LinkBreaks
  <2> QED BY <1>5, <2>1, <2>2 DEF StreamStep
<1> QED BY <1>2, <1>3, <1>4, <1>5 DEF WatchNext

(* The items the server knows of, and those excused.                       *)
LEMMA ServerTypeStep ==
  ASSUME WatchTypeOK, [WatchNext]_watchVars
  PROVE  ServerType'
<1> USE TypeParts DEF ServerType
<1>1. CASE UNCHANGED <<server, excused>>
  BY <1>1 DEF server
<1>2. CASE ServerStep
  BY <1>2 DEF ServerStep, Store, Handle, Publish
<1>3. CASE MainStep \/ GivesUp \/ Signal \/ Killed \/ UNCHANGED watchVars
  <2>1. UNCHANGED <<server, excused>>
    BY <1>3 DEF MainStep, Identify, Refused, ProcessEnds, StartStreams,
       AllReady, Connected, Fails, Shutdown, GivesUp, Signal, Killed,
       MainGoes, watchVars
  <2> QED BY <1>1, <2>1
<1>4. CASE Start
  BY <1>4 DEF Start, server
<1>5. ASSUME NEW p \in Project, CatchupStep(p)
      PROVE  ServerType'
  <2>1. CASE ListWaiting(p) \/ ListingDone(p)
    BY <1>1, <2>1 DEF ListWaiting, ListingDone
  <2>2. CASE ListNothing(p)
    <3>1. \A type : Waiting(p, type) \subseteq Item
      BY DEF Waiting
    <3>2. UNCHANGED server /\ excused' \subseteq Item
      BY <2>2, <3>1 DEF ListNothing
    <3> QED BY <3>2 DEF server
  <2>3. ASSUME NEW i \in listed[p], EmitListed(p, i)
        PROVE  ServerType'
    <3>1. i \in Item /\ UNCHANGED server
      BY <2>3 DEF LoopType, EmitListed
    <3>2. UNCHANGED excused \/ EmitItem(i)
      BY <2>3 DEF EmitListed
    <3>3. excused' \subseteq Item
      BY <3>1, <3>2, EmitStep
    <3> QED BY <3>1, <3>3 DEF server
  <2> QED BY <1>5, <2>1, <2>2, <2>3 DEF CatchupStep
<1>6. ASSUME NEW p \in Project, StreamStep(p) \/ LinkBreaks(p)
      PROVE  ServerType'
  <2>1. wire[p] \in Wire
    BY DEF NetType
  <2>2. CASE Read(p)
    <3>1. UNCHANGED server
      BY <2>2 DEF Read
    <3>2. UNCHANGED excused \/ \E i \in Item : EmitItem(i)
      BY <2>2, ReadStep DEF Dealt
    <3>3. excused' \subseteq Item
      BY <3>2, EmitStep
    <3> QED BY <3>1, <3>3 DEF server
  <2>3. CASE ReadFails(p)
    BY <2>1, <2>3, WireItems DEF ReadFails, Disconnect, server
  <2>4. CASE Dial(p) \/ DialFails(p) \/ Backoff(p)
    BY <1>1, <2>4 DEF Dial, DialFails, Backoff
  <2>5. CASE LinkBreaks(p)
    <3>1. PICK n \in 0..Len(wire[p]) :
            excused' = excused \cup
                         ItemsOf(SubSeq(wire[p], n + 1, Len(wire[p])))
      BY <2>5 DEF LinkBreaks
    <3>2. ItemsOf(SubSeq(wire[p], n + 1, Len(wire[p]))) \subseteq Item
      BY <2>1, WireBroken, WireItems
    <3> QED BY <2>5, <3>1, <3>2 DEF LinkBreaks, server
  <2> QED BY <1>6, <2>2, <2>3, <2>4, <2>5 DEF StreamStep
<1> QED BY <1>2, <1>3, <1>4, <1>5, <1>6 DEF WatchNext

(* The connections.                                                        *)
LEMMA NetTypeStep ==
  ASSUME WatchTypeOK, [WatchNext]_watchVars
  PROVE  NetType'
<1> USE TypeParts DEF NetType
<1>1. CASE UNCHANGED net
  BY <1>1 DEF net
<1>2. CASE ServerStep
  <2>1. ASSUME NEW i \in Item, Publish(i)
        PROVE  NetType'
    <3>1. i.project \in Project /\ wire[i.project] \in Wire
      OBVIOUS
    <3>2. Append(wire[i.project], i) \in Wire
      BY <3>1, WireItems
    <3> QED BY <2>1, <3>1, <3>2 DEF Publish
  <2> QED BY <1>1, <1>2, <2>1 DEF ServerStep, Store, Handle
<1>3. CASE ProcessEnds
  <2>1. <<>> \in Wire
    BY EmptySeq DEF Wire
  <2> QED BY <1>3, <2>1 DEF ProcessEnds, Lost, Nothing
<1>4. CASE MainStep \/ GivesUp \/ Signal \/ Killed \/ Start
             \/ UNCHANGED watchVars
  <2>1. UNCHANGED net \/ ProcessEnds
    BY <1>4 DEF MainStep, Identify, Refused, StartStreams, AllReady,
       Connected, Fails, Shutdown, GivesUp, Signal, Killed, Start, MainGoes,
       watchVars
  <2> QED BY <1>1, <1>3, <2>1
<1>5. ASSUME NEW p \in Project, CatchupStep(p)
      PROVE  NetType'
  <2>1. UNCHANGED net
    BY <1>5 DEF CatchupStep, ListWaiting, ListNothing, ListingDone, EmitListed
  <2> QED BY <1>1, <2>1
<1>6. ASSUME NEW p \in Project, StreamStep(p) \/ LinkBreaks(p)
      PROVE  NetType'
  <2>1. wire[p] \in Wire /\ <<>> \in Wire
    BY EmptySeq DEF Wire
  <2>2. CASE Dial(p)
    <3>1. <<Greeting>> \in Wire
      BY DEF Wire
    <3> QED BY <2>2, <3>1 DEF Dial
  <2>3. CASE Read(p)
    <3>1. Tail(wire[p]) \in Wire
      BY <2>1, <2>3, WireItems DEF Read
    <3> QED BY <2>3, <3>1 DEF Read
  <2>4. CASE ReadFails(p)
    BY <2>1, <2>4 DEF ReadFails, Disconnect
  <2>5. CASE DialFails(p) \/ Backoff(p)
    BY <1>1, <2>5 DEF DialFails, Backoff
  <2>6. CASE LinkBreaks(p)
    <3>1. \A n \in 0..Len(wire[p]) : SubSeq(wire[p], 1, n) \in Wire
      BY <2>1, WireBroken
    <3> QED BY <2>6, <3>1 DEF LinkBreaks
  <2> QED BY <1>6, <2>2, <2>3, <2>4, <2>5, <2>6 DEF StreamStep
<1> QED BY <1>2, <1>4, <1>5, <1>6 DEF WatchNext

(* The command.                                                            *)
LEMMA ProcTypeStep ==
  ASSUME WatchTypeOK, [WatchNext]_watchVars
  PROVE  ProcType'
<1> USE TypeParts DEF ProcType
<1>1. CASE UNCHANGED proc
  BY <1>1 DEF proc
<1>2. CASE ProcessEnds
  BY <1>2 DEF ProcessEnds
<1>3. CASE Start
  BY <1>3 DEF Start
<1>4. CASE \/ Identify \/ StartStreams \/ AllReady \/ Connected \/ GivesUp
           \/ Signal
  BY <1>4 DEF Identify, StartStreams, AllReady, Connected, GivesUp, Signal,
     MainGoes
<1>5. CASE Refused \/ Fails \/ Shutdown \/ Killed
  BY <1>2, <1>5 DEF Refused, Fails, Shutdown, Killed
<1>6. CASE ServerStep \/ UNCHANGED watchVars
  BY <1>1, <1>6 DEF ServerStep, Store, Handle, Publish, watchVars
<1>7. ASSUME NEW p \in Project, CatchupStep(p)
      PROVE  ProcType'
  BY <1>1, <1>7 DEF CatchupStep, ListWaiting, ListNothing, ListingDone,
     EmitListed
<1>8. ASSUME NEW p \in Project, StreamStep(p) \/ LinkBreaks(p)
      PROVE  ProcType'
  <2>1. CASE Read(p)
    <3>1. /\ UNCHANGED <<main, stop, starts>>
          /\ \/ UNCHANGED <<ready, greeted>>
             \/ MarkReady(p, "connected") /\ greeted' = TRUE
      BY <2>1, ReadStep
    <3> QED BY <3>1 DEF MarkReady
  <2>2. CASE DialFails(p)
    BY <2>2 DEF DialFails, MarkReady
  <2>3. CASE Dial(p) \/ ReadFails(p) \/ Backoff(p) \/ LinkBreaks(p)
    BY <1>1, <2>3 DEF Dial, ReadFails, Disconnect, Backoff, LinkBreaks
  <2> QED BY <1>8, <2>1, <2>2, <2>3 DEF StreamStep
<1> QED
  BY <1>3, <1>4, <1>5, <1>6, <1>7, <1>8 DEF WatchNext, MainStep

(* Its goroutines.                                                         *)
LEMMA LoopTypeStep ==
  ASSUME WatchTypeOK, [WatchNext]_watchVars
  PROVE  LoopType'
<1> USE TypeParts DEF LoopType
<1>1. CASE UNCHANGED <<goroutine, listed, seen, faults>>
  BY <1>1
<1>2. CASE ProcessEnds /\ faults' \in 0..MaxFaults
  BY <1>2 DEF ProcessEnds, Stage
<1>3. CASE Identify \/ StartStreams
  BY <1>3 DEF Identify, StartStreams, MainGoes, Stage
<1>4. CASE Refused \/ Fails \/ Shutdown \/ Killed
  BY <1>2, <1>4 DEF Refused, Fails, Shutdown, Killed
<1>5. CASE \/ AllReady \/ Connected \/ GivesUp \/ Signal \/ Start
           \/ ServerStep \/ UNCHANGED watchVars
  BY <1>1, <1>5 DEF AllReady, Connected, GivesUp, Signal, Start, MainGoes,
     ServerStep, Store, Handle, Publish, watchVars
<1>6. ASSUME NEW i \in Item, NEW id \in Id, Dealt(id, i),
             UNCHANGED goroutine, listed' \in [Project -> SUBSET Item]
      PROVE  LoopType'
  BY <1>6, EmitStep DEF Dealt
<1>7. \A i \in Item : StreamId(i) \in Id /\ CatchupId(i) \in Id
  BY DEF Id
<1>8. ASSUME NEW p \in Project, CatchupStep(p)
      PROVE  LoopType'
  <2>1. CASE ListWaiting(p)
    <3>1. \A type : Waiting(p, type) \subseteq Item
      BY DEF Waiting, ServerType
    <3> QED BY <2>1, <3>1 DEF ListWaiting, Goto, Stage
  <2>2. CASE ListNothing(p) \/ ListingDone(p)
    BY <2>2 DEF ListNothing, ListingDone, AfterListing, Goto, Stage
  <2>3. ASSUME NEW i \in listed[p], EmitListed(p, i)
        PROVE  LoopType'
    <3>1. i \in Item /\ Dealt(CatchupId(i), i)
      BY <2>3 DEF EmitListed, Dealt
    <3>2. UNCHANGED goroutine /\ listed' \in [Project -> SUBSET Item]
      BY <2>3 DEF EmitListed
    <3> QED BY <1>6, <1>7, <3>1, <3>2
  <2> QED BY <1>8, <2>1, <2>2, <2>3 DEF CatchupStep
<1>9. ASSUME NEW p \in Project, StreamStep(p) \/ LinkBreaks(p)
      PROVE  LoopType'
  <2>1. CASE Read(p)
    <3>1. /\ UNCHANGED <<goroutine, listed>>
          /\ \/ UNCHANGED <<seen, faults>>
             \/ \E i \in Item : Dealt(StreamId(i), i)
             \/ \E i \in Item : UNCHANGED faults
                                  /\ seen' = seen \cup {StreamId(i)}
      BY <2>1, ReadStep
    <3> QED BY <1>6, <1>7, <3>1
  <2>2. CASE Dial(p) \/ DialFails(p) \/ ReadFails(p) \/ Backoff(p)
    BY <2>2 DEF Dial, DialFails, ReadFails, Disconnect, Backoff, Goto, Stage
  <2>3. CASE LinkBreaks(p)
    BY <1>1, <2>3 DEF LinkBreaks
  <2> QED BY <1>9, <2>1, <2>2, <2>3 DEF StreamStep
<1> QED
  BY <1>3, <1>4, <1>5, <1>8, <1>9 DEF WatchNext, MainStep

(* All of them.                                                            *)
LEMMA WatchTypeStep ==
  WatchTypeOK /\ SinkInv /\ [WatchNext]_watchVars => WatchTypeOK' /\ SinkInv'
<1> SUFFICES ASSUME WatchTypeOK, SinkInv, [WatchNext]_watchVars
             PROVE  WatchTypeOK' /\ SinkInv'
  OBVIOUS
<1>1. SinkType' /\ SinkInv'
  BY SinkStep, SinkKept, TypeParts
<1>2. ServerType' /\ NetType' /\ ProcType' /\ LoopType'
  BY ServerTypeStep, NetTypeStep, ProcTypeStep, LoopTypeStep
<1> QED
  BY <1>1, <1>2
     DEF WatchTypeOK, ServerType, NetType, ProcType, LoopType, SinkType, Wire,
         Stage, Id

---------------------------------------------------------------------------
(* Steps of the command                                                    *)

(* The steps that move neither the command nor a goroutine.                *)
Still == UNCHANGED <<main, goroutine, listed, seen, link, wire>>

(* The command, its goroutines and their connections stay together.        *)
LEMMA PlaceStep ==
  ASSUME WatchTypeOK, PlaceInv, [WatchNext]_watchVars
  PROVE  PlaceInv'
<1> USE DEF PlaceInv
<1>1. CASE Still
  BY <1>1 DEF Still
<1>2. CASE ServerStep \/ Signal \/ UNCHANGED watchVars
  <2>1. ASSUME NEW i \in Item, Publish(i)
        PROVE  PlaceInv'
    <3>1. UNCHANGED <<main, goroutine, listed, seen, link>>
      BY <2>1 DEF Publish, proc
    <3>2. i.project \in Project /\ wire \in [Project -> Wire]
      BY DEF WatchTypeOK, Wire
    <3>3. \A p \in Project : wire'[p] = wire[p] \/ link[p] = "up"
      BY <2>1, <3>2 DEF Publish
    <3> QED BY <3>1, <3>3
  <2>2. CASE Signal \/ (\E i \in Item : Store(i) \/ Handle(i))
               \/ UNCHANGED watchVars
    BY <1>1, <2>2 DEF Signal, Store, Handle, watchVars, net, proc, Still
  <2> QED BY <1>2, <2>1, <2>2 DEF ServerStep
<1>3. CASE ProcessEnds
  BY <1>3 DEF ProcessEnds, Lost, Nothing
<1>4. CASE Refused \/ Fails \/ Shutdown \/ Killed
  BY <1>3, <1>4 DEF Refused, Fails, Shutdown, Killed
<1>5. CASE Identify
  <2>1. /\ main' = "catchup" /\ \A p \in Project : goroutine'[p] = "mentions"
        /\ UNCHANGED <<listed, link, wire>>
        /\ \A p \in Project : goroutine[p] = "none"
    BY <1>5 DEF Identify, net
  <2> QED BY <2>1
<1>6. CASE StartStreams
  <2>1. /\ main' = "starting" /\ \A p \in Project : goroutine'[p] = "dial"
        /\ UNCHANGED <<listed, link, wire>>
        /\ \A p \in Project : goroutine[p] = "caught"
    BY <1>6 DEF StartStreams, MainGoes, net
  <2> QED BY <2>1
<1>7. CASE AllReady \/ Connected \/ GivesUp
  <2>1. /\ UNCHANGED <<goroutine, listed, seen, link, wire>>
        /\ main \in {"starting", "proving"}
        /\ main' \in {"watching", "proving", "failing"}
    BY <1>7 DEF AllReady, Connected, GivesUp, MainGoes, net
  <2> QED BY <2>1
<1>8. CASE Start
  <2>1. /\ UNCHANGED <<goroutine, listed, seen, link, wire>>
        /\ main = "ended" /\ main' = "identity"
    BY <1>8 DEF Start, net
  <2> QED BY <2>1
<1>9. ASSUME NEW p \in Project, CatchupStep(p)
      PROVE  PlaceInv'
  <2>1. /\ UNCHANGED <<main, link, wire>>
        /\ goroutine[p] \in {"mentions", "emitMentions", "tasks", "emitTasks"}
        /\ \A o \in Project \ {p} :
             goroutine'[o] = goroutine[o] /\ listed'[o] = listed[o]
        /\ goroutine'[p] \in {"emitMentions", "tasks", "emitTasks", "caught"}
        /\ listed'[p] # {} => goroutine'[p] \in {"emitMentions", "emitTasks"}
    BY <1>9 DEF CatchupStep, ListWaiting, ListNothing, ListingDone, EmitListed,
       AfterListing, Goto, net, proc, WatchTypeOK
  <2>2. main = "catchup"
    BY <2>1 DEF WatchTypeOK
  <2> QED BY <2>1, <2>2
<1>10. ASSUME NEW p \in Project, StreamStep(p)
       PROVE  PlaceInv'
  <2>1. /\ UNCHANGED <<main, listed>>
        /\ goroutine[p] \in {"dial", "read", "backoff"}
        /\ goroutine'[p] \in {"dial", "read", "backoff", "closed"}
        /\ \A o \in Project \ {p} :
             UNCHANGED <<goroutine[o], link[o], wire[o]>>
        /\ link'[p] = "up" \/ wire'[p] # <<>> => goroutine'[p] = "read"
    <3>1. CASE Dial(p)
      BY <3>1 DEF Dial, Goto, proc, WatchTypeOK
    <3>2. CASE DialFails(p)
      BY <3>2 DEF DialFails, Goto, net, WatchTypeOK
    <3>3. CASE Read(p)
      BY <3>3 DEF Read, WatchTypeOK
    <3>4. CASE ReadFails(p)
      BY <3>4 DEF ReadFails, Disconnect, Goto, proc, WatchTypeOK
    <3>5. CASE Backoff(p)
      BY <3>5 DEF Backoff, Goto, net, proc, WatchTypeOK
    <3> QED BY <1>10, <3>1, <3>2, <3>3, <3>4, <3>5 DEF StreamStep
  <2>2. main \notin {"identity", "ended"}
    BY <2>1
  <2> QED BY <2>1, <2>2
<1>11. ASSUME NEW p \in Project, LinkBreaks(p)
       PROVE  PlaceInv'
  <2>1. /\ UNCHANGED <<main, goroutine, listed, seen>>
        /\ \A o \in Project \ {p} : UNCHANGED <<link[o], wire[o]>>
        /\ link[p] = "up"
    BY <1>11 DEF LinkBreaks, proc, WatchTypeOK
  <2> QED BY <2>1
<1> QED
  BY <1>2, <1>4, <1>5, <1>6, <1>7, <1>8, <1>9, <1>10, <1>11
     DEF WatchNext, MainStep

(* Nothing but the start of a command takes excuses back, and nothing      *)
(* takes lines back.                                                       *)
LEMMA KeepsReports ==
  ASSUME WatchTypeOK, SinkInv, [WatchNext]_watchVars
  PROVE  /\ \A i : Reported(i) => Reported(i)'
         /\ excused \subseteq excused' \/ Start
<1>1. \A i : Reported(i) => Reported(i)'
  BY SinkStep, SinkKept, TypeParts
<1>2. CASE ServerStep \/ Signal \/ GivesUp \/ MainStep \/ Killed
             \/ UNCHANGED watchVars
  <2>1. excused \subseteq excused'
    BY <1>2 DEF ServerStep, Store, Handle, Publish, Signal, GivesUp, MainGoes,
       MainStep, Identify, Refused, StartStreams, AllReady, Connected, Fails,
       Shutdown, Killed, ProcessEnds, watchVars
  <2> QED BY <1>1, <2>1
<1>3. ASSUME NEW p \in Project, CatchupStep(p)
      PROVE  excused \subseteq excused'
  <2>1. CASE ListWaiting(p) \/ ListNothing(p) \/ ListingDone(p)
    BY <2>1 DEF ListWaiting, ListNothing, ListingDone
  <2>2. ASSUME NEW i \in listed[p], EmitListed(p, i)
        PROVE  excused \subseteq excused'
    <3>1. i \in Item
      BY DEF WatchTypeOK
    <3> QED BY <2>2, <3>1, EmitStep DEF EmitListed
  <2> QED BY <1>3, <2>1, <2>2 DEF CatchupStep
<1>4. ASSUME NEW p \in Project, StreamStep(p) \/ LinkBreaks(p)
      PROVE  excused \subseteq excused'
  <2>1. CASE Read(p)
    <3>1. UNCHANGED excused \/ \E i \in Item : EmitItem(i)
      BY <2>1, ReadStep DEF Dealt
    <3> QED BY <3>1, EmitStep
  <2>2. CASE \/ Dial(p) \/ DialFails(p) \/ ReadFails(p) \/ Backoff(p)
             \/ LinkBreaks(p)
    BY <2>2 DEF Dial, DialFails, ReadFails, Disconnect, Backoff, LinkBreaks
  <2> QED BY <1>4, <2>1, <2>2 DEF StreamStep
<1> QED BY <1>1, <1>2, <1>3, <1>4 DEF WatchNext

(* An id stands for one item, and for one of its two ways.                 *)
LEMMA DistinctIds ==
  ASSUME NEW i \in Item, NEW j \in Item
  PROVE  /\ CatchupId(i) = CatchupId(j) => i = j
         /\ StreamId(i) = StreamId(j) => i = j
         /\ CatchupId(i) # StreamId(j)
BY DEF CatchupId, StreamId

(* What is marked was written or lost.                                     *)
LEMMA SeenStep ==
  ASSUME WatchTypeOK, SinkInv, PlaceInv, SeenInv, [WatchNext]_watchVars
  PROVE  SeenInv'
<1> USE DEF SeenInv
<1>1. \A i : Reported(i) => Reported(i)'
  BY KeepsReports
<1>2. CASE seen' = {}
  BY <1>2
<1>3. CASE Start
  <2>1. seen' = {}
    BY <1>3 DEF Start, PlaceInv
  <2> QED BY <1>2, <2>1
<1>4. ASSUME NEW i \in Item, NEW id \in {CatchupId(i), StreamId(i)},
             Dealt(id, i)
      PROVE  SeenInv'
  <2>1. excused \subseteq excused'
    BY <1>4, EmitStep DEF Dealt
  <2>2. \/ UNCHANGED seen
        \/ seen' = seen \cup {id} /\ (Reported(i)' \/ i \in excused')
    BY <1>4, EmitStep DEF Dealt
  <2>3. \A j \in Item \ {i} :
          /\ CatchupId(j) \in seen' => CatchupId(j) \in seen
          /\ StreamId(j) \in seen' => StreamId(j) \in seen
    BY <2>2, DistinctIds
  <2> QED BY <1>1, <2>1, <2>2, <2>3
<1>5. ASSUME NEW i \in Item, Kind(i) = Nil, UNCHANGED excused,
             seen' = seen \cup {StreamId(i)}
      PROVE  SeenInv'
  <2>1. \A j \in Item : /\ CatchupId(j) \in seen' => CatchupId(j) \in seen
                        /\ StreamId(j) \in seen' =>
                             StreamId(j) \in seen \/ Kind(j) = Nil
    BY <1>5, DistinctIds
  <2> QED BY <1>1, <1>5, <2>1
<1>6. CASE ServerStep \/ Signal \/ GivesUp \/ UNCHANGED watchVars
  <2>1. UNCHANGED <<seen, excused>> \/ (ServerStep /\ UNCHANGED seen)
    BY <1>6 DEF ServerStep, Store, Handle, Publish, Signal, GivesUp, MainGoes,
       watchVars
  <2>2. excused \subseteq excused'
    BY <2>1 DEF ServerStep, Store, Handle, Publish
  <2> QED BY <1>1, <2>1, <2>2
<1>7. CASE Identify \/ StartStreams \/ AllReady \/ Connected
  <2>1. UNCHANGED <<seen, excused>>
    BY <1>7 DEF Identify, StartStreams, AllReady, Connected, MainGoes
  <2> QED BY <1>1, <2>1
<1>8. CASE Refused \/ Fails \/ Shutdown \/ Killed
  <2>1. seen' = {}
    BY <1>8 DEF Refused, Fails, Shutdown, Killed, ProcessEnds
  <2> QED BY <1>2, <2>1
<1>9. ASSUME NEW p \in Project, CatchupStep(p)
      PROVE  SeenInv'
  <2>1. CASE ListWaiting(p) \/ ListNothing(p) \/ ListingDone(p)
    <3>1. UNCHANGED seen /\ excused \subseteq excused'
      BY <2>1 DEF ListWaiting, ListNothing, ListingDone
    <3> QED BY <1>1, <3>1
  <2>2. ASSUME NEW i \in listed[p], EmitListed(p, i)
        PROVE  SeenInv'
    <3>1. i \in Item /\ Dealt(CatchupId(i), i)
      BY <2>2 DEF EmitListed, Dealt, WatchTypeOK
    <3> QED BY <1>4, <3>1
  <2> QED BY <1>9, <2>1, <2>2 DEF CatchupStep
<1>10. ASSUME NEW p \in Project, StreamStep(p) \/ LinkBreaks(p)
       PROVE  SeenInv'
  <2>1. CASE Read(p)
    <3>1. \/ UNCHANGED <<seen, excused>>
          \/ \E i \in Item : Dealt(StreamId(i), i)
          \/ \E i \in Item : /\ Kind(i) = Nil /\ UNCHANGED excused
                             /\ seen' = seen \cup {StreamId(i)}
      BY <2>1, ReadStep
    <3> QED BY <1>1, <1>4, <1>5, <3>1
  <2>2. CASE \/ Dial(p) \/ DialFails(p) \/ ReadFails(p) \/ Backoff(p)
             \/ LinkBreaks(p)
    <3>1. UNCHANGED seen /\ excused \subseteq excused'
      BY <2>2 DEF Dial, DialFails, ReadFails, Disconnect, Backoff, LinkBreaks
    <3> QED BY <1>1, <3>1
  <2> QED BY <1>10, <2>1, <2>2 DEF StreamStep
<1> QED
  BY <1>3, <1>6, <1>7, <1>8, <1>9, <1>10 DEF WatchNext, MainStep

---------------------------------------------------------------------------
(* What waits for the agent                                                *)

(* The stream reports whatever catch-up would.                             *)
LEMMA ForMeHasAKind ==
  ASSUME NEW i \in Item, ForMe(i)
  PROVE  Kind(i) # Nil
<1>1. i.type \in {"room.message", "task.updated"}
  OBVIOUS
<1>2. CASE "all" \in Filter
  BY <1>2 DEF Kind
<1>3. CASE "all" \notin Filter /\ i.type = "room.message"
  BY <1>3 DEF Kind, MessageKind, ForMe, CatchupKind
<1>4. CASE "all" \notin Filter /\ i.type = "task.updated"
  <2>1. i.event = "task.delegated"
    BY <1>4 DEF ForMe
  <2> QED BY <1>4, <2>1 DEF Kind, TaskKind, ForMe, CatchupKind
<1> QED BY <1>1, <1>2, <1>3, <1>4

(* What WaitInv speaks of, and what it promises.                           *)
Owed(i) == i \in published \ handled /\ ForMe(i)
OnItsWay(i) == i \in ItemsOf(wire[i.project])
Accounted(i) == Reported(i) \/ i \in excused \/ OnItsWay(i)

(* A step that publishes nothing keeps WaitInv if it accounts for what it  *)
(* takes away from catch-up and from the connections.                      *)
LEMMA WaitKept ==
  ASSUME WatchTypeOK, WaitInv, \A i : Reported(i) => Reported(i)',
         excused \subseteq excused', published' = published,
         handled \subseteq handled', main # "ended",
         \A i \in Item : Owed(i) /\ CatchupCovers(i) =>
                           CatchupCovers(i)' \/ Accounted(i)',
         \A i \in Item : Owed(i) /\ OnItsWay(i) => Accounted(i)'
  PROVE  WaitInv'
<1> SUFFICES ASSUME NEW i \in published' \ handled', ForMe(i)'
             PROVE  CatchupCovers(i)' \/ Accounted(i)'
  BY DEF WaitInv, Accounted, OnItsWay
<1>1. i \in Item /\ ForMe(i) /\ i \in published \ handled
  BY DEF WatchTypeOK, ForMe, Allows, CatchupKind
<1>2. CatchupCovers(i) \/ Reported(i) \/ i \in excused \/ OnItsWay(i)
  BY <1>1 DEF WaitInv, OnItsWay
<1> QED BY <1>1, <1>2 DEF Owed, Accounted

(* The server and the main goroutine.                                      *)
LEMMA WaitMainStep ==
  ASSUME WatchTypeOK, SinkInv, PlaceInv, WaitInv,
         \/ ServerStep \/ MainStep \/ GivesUp \/ Signal \/ Killed \/ Start
         \/ UNCHANGED watchVars
  PROVE  WaitInv'
<1>1. /\ [WatchNext]_watchVars
      /\ \A i : Reported(i) => Reported(i)'
  BY KeepsReports DEF WatchNext
<1>2. \A i \in Item : i.project \in Project
  OBVIOUS
<1>3. CASE \/ Signal \/ (\E i \in Item : Store(i) \/ Handle(i))
           \/ UNCHANGED watchVars
  <2>1. /\ UNCHANGED <<main, goroutine, listed, wire, excused, published>>
        /\ handled \subseteq handled'
    BY <1>3 DEF Signal, Store, Handle, watchVars, server, net, proc
  <2> QED BY <1>1, <2>1
          DEF WaitInv, CatchupCovers, WatchTypeOK, ForMe, Allows, CatchupKind
<1>4. ASSUME NEW i \in Item, Publish(i)
      PROVE  WaitInv'
  <2>1. /\ UNCHANGED <<main, goroutine, listed, handled>>
        /\ published' = published \cup {i} /\ excused \subseteq excused'
    BY <1>4 DEF Publish, proc
  <2>2. \A j \in Item : CatchupCovers(j) => CatchupCovers(j)'
    BY <2>1 DEF CatchupCovers
  <2>3. wire \in [Project -> Wire]
    BY DEF WatchTypeOK, Wire
  <2>4. CASE link[i.project] = "up"
    <3>1. wire' = [wire EXCEPT ![i.project] = Append(@, i)]
      BY <1>4, <2>4 DEF Publish
    <3>2. /\ ItemsOf(wire'[i.project]) = ItemsOf(wire[i.project]) \cup {i}
          /\ \A p \in Project \ {i.project} : wire'[p] = wire[p]
      BY <1>2, <2>3, <3>1, WireItems
    <3>3. \A j \in Item : OnItsWay(j) => OnItsWay(j)'
      BY <1>2, <3>2 DEF OnItsWay
    <3>4. OnItsWay(i)'
      BY <3>2 DEF OnItsWay
    <3> QED BY <1>1, <2>1, <2>2, <3>3, <3>4
            DEF WaitInv, OnItsWay, WatchTypeOK, ForMe, Allows, CatchupKind
  <2>5. CASE link[i.project] # "up"
    <3>1. /\ wire' = wire
          /\ CatchupCovers(i) \/ Reported(i) \/ i \in excused'
      BY <1>4, <2>5 DEF Publish
    <3> QED BY <1>1, <2>1, <2>2, <3>1
            DEF WaitInv, WatchTypeOK, ForMe, Allows, CatchupKind
  <2> QED BY <2>4, <2>5
<1>5. CASE Refused \/ Fails \/ Shutdown \/ Killed
  <2>1. main' = "ended"
    BY <1>5 DEF Refused, Fails, Shutdown, Killed, ProcessEnds
  <2> QED BY <2>1 DEF WaitInv
<1>6. CASE Start
  <2>1. main' = "identity"
    BY <1>6 DEF Start
  <2> QED BY <2>1 DEF WaitInv, CatchupCovers
<1>7. CASE Identify
  <2>1. /\ \A p \in Project : goroutine'[p] = "mentions"
        /\ published' \subseteq Item
    BY <1>7 DEF Identify, server, WatchTypeOK
  <2> QED BY <1>2, <2>1 DEF WaitInv, CatchupCovers
<1>8. CASE StartStreams \/ AllReady \/ Connected \/ GivesUp
  <2>1. /\ UNCHANGED <<excused, wire, published, handled>>
        /\ main \in {"catchup", "starting", "proving"}
    BY <1>8 DEF StartStreams, AllReady, Connected, GivesUp, MainGoes, server,
       net
  <2>2. \A p \in Project : goroutine[p] \in {"caught", "dial", "read",
                                             "backoff", "closed"}
    BY <1>8 DEF StartStreams, AllReady, Connected, GivesUp, PlaceInv
  <2>3. \A i \in Item : ~CatchupCovers(i)
    BY <1>2, <2>1, <2>2 DEF CatchupCovers, PlaceInv
  <2>4. \A i \in Item : OnItsWay(i) => Accounted(i)'
    BY <2>1 DEF OnItsWay, Accounted
  <2> QED BY <1>1, <2>1, <2>3, <2>4, WaitKept
<1> QED
  BY <1>3, <1>4, <1>5, <1>6, <1>7, <1>8 DEF MainStep, ServerStep

(* Catch-up.                                                               *)
LEMMA WaitCatchupStep ==
  ASSUME WatchTypeOK, SinkInv, PlaceInv, SeenInv, WaitInv,
         NEW p \in Project, CatchupStep(p)
  PROVE  WaitInv'
<1>1. /\ [WatchNext]_watchVars
      /\ \A i : Reported(i) => Reported(i)'
  BY KeepsReports DEF WatchNext
<1>2. /\ UNCHANGED <<wire, published, handled, main>>
      /\ \A o \in Project \ {p} : UNCHANGED <<goroutine[o], listed[o]>>
      /\ goroutine[p] \in {"mentions", "emitMentions", "tasks", "emitTasks"}
  BY DEF CatchupStep, ListWaiting, ListNothing, ListingDone, EmitListed, Goto,
     server, net, proc, PlaceInv, WatchTypeOK
<1>3. excused \subseteq excused' /\ main \notin {"identity", "ended"}
  <2>1. main \notin {"identity", "ended"}
    BY <1>2 DEF PlaceInv
  <2>2. ~Start
    BY <2>1 DEF Start
  <2> QED BY <1>1, <2>1, <2>2, KeepsReports
<1>4. ASSUME NEW i \in Item, i.project # p, CatchupCovers(i)
      PROVE  CatchupCovers(i)'
  <2>1. i.project \in Project \ {p}
    BY <1>4
  <2> QED BY <1>2, <1>4, <2>1 DEF CatchupCovers
<1>5. \A i \in Item : OnItsWay(i) => Accounted(i)'
  BY <1>2 DEF OnItsWay, Accounted
<1>6. ASSUME \A i \in Item : Owed(i) /\ i.project = p /\ CatchupCovers(i) =>
               CatchupCovers(i)' \/ Accounted(i)'
      PROVE  WaitInv'
  <2>1. \A i \in Item : Owed(i) /\ CatchupCovers(i) =>
                          CatchupCovers(i)' \/ Accounted(i)'
    BY <1>4, <1>6
  <2> QED BY <1>1, <1>2, <1>3, <1>5, <2>1, WaitKept
<1>7. \A i \in Item : Owed(i) /\ i.project = p => i \in Waiting(p, i.type)
  BY DEF Owed, ForMe, Waiting, WatchTypeOK
<1>8. ASSUME NEW i \in Item, i.project = p, CatchupCovers(i)
      PROVE  /\ goroutine[p] \in {"tasks", "emitMentions"} =>
                  i \in listed[p] \/ i.type = "task.updated"
             /\ goroutine[p] = "emitTasks" => i \in listed[p]
             /\ goroutine[p] \in {"tasks", "mentions"} => listed[p] = {}
  BY <1>2, <1>3, <1>8 DEF CatchupCovers, PlaceInv
<1>9. \A i \in Item : i.type \in {"room.message", "task.updated"}
  OBVIOUS
<1>10. CASE ListWaiting(p)
  <2>1. CASE goroutine[p] = "mentions"
    <3>1. /\ goroutine'[p] = "emitMentions"
          /\ listed'[p] = Waiting(p, "room.message")
      BY <1>10, <2>1 DEF ListWaiting, Goto, ListedType, WatchTypeOK
    <3> QED BY <1>6, <1>7, <1>9, <3>1 DEF CatchupCovers
  <2>2. CASE goroutine[p] = "tasks"
    <3>1. listed'[p] = Waiting(p, "task.updated")
      BY <1>10, <2>2 DEF ListWaiting, ListedType, WatchTypeOK
    <3> QED BY <1>6, <1>7, <1>8, <2>2, <3>1 DEF CatchupCovers
  <2> QED BY <1>10, <2>1, <2>2 DEF ListWaiting
<1>11. CASE ListNothing(p)
  <2>1. CASE goroutine[p] = "mentions"
    <3>1. /\ goroutine'[p] = "tasks"
          /\ Waiting(p, "room.message") \subseteq excused'
      BY <1>11, <2>1 DEF ListNothing, Goto, ListedType, AfterListing,
         WatchTypeOK
    <3> QED BY <1>6, <1>7, <1>9, <3>1 DEF CatchupCovers, Accounted
  <2>2. CASE goroutine[p] = "tasks"
    <3>1. Waiting(p, "task.updated") \subseteq excused'
      BY <1>11, <2>2 DEF ListNothing, ListedType
    <3> QED BY <1>6, <1>7, <1>8, <2>2, <3>1 DEF Accounted
  <2> QED BY <1>11, <2>1, <2>2 DEF ListNothing
<1>12. CASE ListingDone(p)
  <2>1. /\ listed[p] = {} /\ goroutine[p] \in {"emitMentions", "emitTasks"}
        /\ goroutine[p] = "emitMentions" => goroutine'[p] = "tasks"
    BY <1>12 DEF ListingDone, Goto, WatchTypeOK
  <2> QED BY <1>6, <1>8, <2>1 DEF CatchupCovers
<1>13. ASSUME NEW i \in listed[p], EmitListed(p, i)
       PROVE  WaitInv'
  <2>1. i \in Item /\ Dealt(CatchupId(i), i)
    BY <1>13 DEF EmitListed, Dealt, WatchTypeOK
  <2>2. Reported(i)' \/ i \in excused'
    BY <1>1, <1>3, <2>1, EmitStep DEF Dealt, SeenInv
  <2>3. UNCHANGED goroutine /\ listed'[p] = listed[p] \ {i}
    BY <1>13 DEF EmitListed, WatchTypeOK
  <2>4. \A j \in Item \ {i} : j.project = p /\ CatchupCovers(j) =>
                                CatchupCovers(j)'
    BY <1>2, <2>3 DEF CatchupCovers
  <2> QED BY <1>6, <2>2, <2>4 DEF Accounted
<1> QED BY <1>10, <1>11, <1>12, <1>13 DEF CatchupStep

(* The streams.                                                            *)
LEMMA WaitStreamStep ==
  ASSUME WatchTypeOK, SinkInv, PlaceInv, SeenInv, WaitInv,
         NEW p \in Project, StreamStep(p) \/ LinkBreaks(p)
  PROVE  WaitInv'
<1>1. /\ [WatchNext]_watchVars
      /\ \A i : Reported(i) => Reported(i)'
  BY KeepsReports DEF WatchNext
<1>2. /\ UNCHANGED <<published, handled, main, listed>>
      /\ \A o \in Project \ {p} : UNCHANGED <<goroutine[o], wire[o]>>
  <2>1. CASE Read(p)
    BY <2>1 DEF Read, server, WatchTypeOK
  <2>2. CASE \/ Dial(p) \/ DialFails(p) \/ ReadFails(p) \/ Backoff(p)
             \/ LinkBreaks(p)
    BY <2>2 DEF Dial, DialFails, ReadFails, Disconnect, Backoff, LinkBreaks,
       Goto, server, net, proc, WatchTypeOK
  <2> QED BY <2>1, <2>2 DEF StreamStep
<1>3. /\ goroutine[p] \in {"dial", "read", "backoff"}
      /\ goroutine' = goroutine \/ LinkBreaks(p) \/ StreamStep(p)
  <2>1. CASE LinkBreaks(p)
    BY <2>1 DEF LinkBreaks, PlaceInv
  <2>2. CASE StreamStep(p)
    BY <2>2 DEF StreamStep, Dial, DialFails, Read, ReadFails, Backoff
  <2> QED BY <2>1, <2>2
<1>4. excused \subseteq excused' /\ main \notin {"identity", "ended"}
  <2>1. main \notin {"identity", "ended"}
    BY <1>3 DEF PlaceInv
  <2>2. ~Start
    BY <2>1 DEF Start
  <2> QED BY <1>1, <2>1, <2>2, KeepsReports
<1>5. ASSUME NEW i \in Item, CatchupCovers(i)
      PROVE  CatchupCovers(i)'
  <2>1. i.project \in Project
    OBVIOUS
  <2>2. CASE i.project = p
    BY <1>2, <1>3, <1>4, <1>5, <2>2 DEF CatchupCovers
  <2>3. CASE i.project # p
    <3>1. UNCHANGED goroutine[i.project]
      BY <1>2, <2>1, <2>3
    <3> QED BY <1>2, <1>5, <3>1 DEF CatchupCovers
  <2> QED BY <2>2, <2>3
<1>6. ASSUME NEW i \in Item, i.project # p, OnItsWay(i)
      PROVE  OnItsWay(i)'
  <2>1. i.project \in Project \ {p}
    BY <1>6
  <2> QED BY <1>2, <1>6, <2>1 DEF OnItsWay
<1>7. ASSUME \A i \in Item : Owed(i) /\ i \in ItemsOf(wire[p]) =>
               Reported(i)' \/ i \in excused' \/ i \in ItemsOf(wire'[p])
      PROVE  WaitInv'
  <2>1. \A i \in Item : Owed(i) /\ OnItsWay(i) => Accounted(i)'
    BY <1>6, <1>7 DEF OnItsWay, Accounted
  <2> QED BY <1>1, <1>2, <1>4, <1>5, <2>1, WaitKept
<1>8. wire[p] \in Wire
  BY DEF WatchTypeOK, Wire
<1>9. CASE Dial(p)
  <2>1. wire[p] = <<>>
    BY <1>9 DEF Dial, PlaceInv
  <2>2. ItemsOf(wire[p]) = {}
    BY <2>1 DEF ItemsOf
  <2> QED BY <1>7, <2>2
<1>10. CASE DialFails(p) \/ Backoff(p)
  <2>1. wire' = wire
    BY <1>10 DEF DialFails, Backoff, net
  <2> QED BY <1>7, <2>1
<1>11. CASE ReadFails(p)
  <2>1. ItemsOf(wire[p]) \subseteq excused'
    BY <1>11 DEF ReadFails, Disconnect
  <2> QED BY <1>7, <2>1
<1>12. CASE LinkBreaks(p)
  <2>1. PICK n \in 0..Len(wire[p]) :
          /\ wire' = [wire EXCEPT ![p] = SubSeq(@, 1, n)]
          /\ excused' = excused \cup
                          ItemsOf(SubSeq(wire[p], n + 1, Len(wire[p])))
    BY <1>12 DEF LinkBreaks
  <2>2. wire'[p] = SubSeq(wire[p], 1, n)
    BY <2>1 DEF WatchTypeOK
  <2>3. ItemsOf(wire[p]) \subseteq ItemsOf(wire'[p]) \cup excused'
    BY <1>8, <2>1, <2>2, WireBroken
  <2> QED BY <1>7, <2>3
<1>13. CASE Read(p)
  <2>1. PICK i : i = Head(wire[p])
    OBVIOUS
  <2>2. wire[p] # <<>> /\ wire' = [wire EXCEPT ![p] = Tail(@)]
    BY <1>13 DEF Read
  <2>3. \/ i = Greeting
        \/ i \in Item /\ Kind(i) # Nil /\ Dealt(StreamId(i), i)
        \/ i \in Item /\ Kind(i) = Nil
    BY <1>13, <2>1, ReadStep
  <2>4. wire'[p] = Tail(wire[p])
    BY <2>2 DEF WatchTypeOK
  <2>5. ItemsOf(wire[p]) \subseteq ItemsOf(wire'[p]) \cup {i}
    BY <1>8, <2>1, <2>2, <2>4, WireItems
  <2>6. ASSUME Owed(i), i \in Item
        PROVE  Reported(i)' \/ i \in excused'
    <3>1. Kind(i) # Nil
      BY <2>6, ForMeHasAKind DEF Owed
    <3>2. Dealt(StreamId(i), i)
      BY <2>3, <2>6, <3>1
    <3>3. CASE StreamId(i) \in seen
      <4>1. Reported(i) \/ i \in excused
        BY <2>6, <3>1, <3>3 DEF SeenInv
      <4> QED BY <1>1, <1>4, <4>1
    <3>4. CASE EmitItem(i)
      BY <2>6, <3>4, EmitStep
    <3> QED BY <3>2, <3>3, <3>4 DEF Dealt
  <2> QED BY <1>7, <2>5, <2>6
<1> QED
  BY <1>9, <1>10, <1>11, <1>12, <1>13 DEF StreamStep

---------------------------------------------------------------------------
(* Theorems about the event watch                                          *)

(* The inductive invariant.                                                *)
WatchInv == WatchTypeOK /\ SinkInv /\ PlaceInv /\ SeenInv /\ WaitInv

(* The first process finds no file and has nothing to do yet.              *)
LEMMA WatchInitInv == WatchInit => WatchInv
<1> SUFFICES ASSUME WatchInit
             PROVE  WatchInv
  OBVIOUS
<1> USE DEF WatchInit
<1>1. /\ written \in Seq(Item) /\ file \in Seq(Lines)
      /\ backups \in [1..MaxBackups -> Seq(Lines)]
  BY EmptySeq
<1>2. WatchTypeOK
  <2>1. ServerType /\ ProcType
    <3>1. /\ stored = Backlog /\ published = Backlog /\ Backlog \subseteq Item
          /\ handled = {} /\ excused = {}
      OBVIOUS
    <3>2. /\ main = "identity" /\ stop = FALSE /\ greeted = FALSE
          /\ starts = 1 /\ ready = [p \in Project |-> Nil]
      OBVIOUS
    <3>3. ServerType
      BY <3>1 DEF ServerType
    <3>4. 1 \in 1..MaxStarts
      BY SinkAssumption
    <3> QED BY <3>2, <3>3, <3>4 DEF ProcType
  <2>2. NetType
    <3>1. <<>> \in Wire
      BY EmptySeq DEF Wire
    <3> QED BY <3>1 DEF NetType, Lost, Nothing
  <2>3. LoopType
    BY DEF LoopType, Stage
  <2> QED BY <1>1, <2>1, <2>2, <2>3, TypeParts DEF SinkType
<1>3. SinkInv
  <2>1. Held(file) = {} /\ \A j \in 1..MaxBackups : Held(backups[j]) = {}
    BY DEF Held
  <2>2. \A k \in 0..MaxBackups : HeldBy(k) = {}
    BY <2>1 DEF HeldBy
  <2> QED BY <2>2 DEF SinkInv
<1>4. PlaceInv
  BY DEF PlaceInv, Lost, Nothing
<1>5. SeenInv /\ WaitInv
  BY DEF SeenInv, WaitInv, CatchupCovers
<1> QED BY <1>2, <1>3, <1>4, <1>5 DEF WatchInv

(* Every step keeps it.                                                    *)
LEMMA WatchInvStep == WatchInv /\ [WatchNext]_watchVars => WatchInv'
<1> SUFFICES ASSUME WatchInv, [WatchNext]_watchVars
             PROVE  WatchInv'
  OBVIOUS
<1> USE DEF WatchInv
<1>1. WatchTypeOK' /\ SinkInv' /\ PlaceInv' /\ SeenInv'
  BY WatchTypeStep, PlaceStep, SeenStep
<1>2. WaitInv'
  BY WaitMainStep, WaitCatchupStep, WaitStreamStep DEF WatchNext
<1> QED BY <1>1, <1>2

(* Every state of the command and its files satisfies it.                  *)
THEOREM WatchInvariant == WatchSpec => []WatchInv
BY WatchInitInv, WatchInvStep, PTL DEF WatchSpec

(* The variables of the command have their types: an archive holds lines   *)
(* that were written, and the deduper ids of items.                        *)
THEOREM WatchTypeCorrect == WatchSpec => []WatchTypeOK
<1>1. WatchInv => WatchTypeOK
  BY DEF WatchInv
<1> QED BY <1>1, WatchInvariant, PTL

(* Whatever writes and rotations fail, at whatever point, and however many *)
(* archives are kept, the files lose their oldest lines first and never    *)
(* the newest.                                                             *)
THEOREM OldestLinesLostFirst == WatchSpec => []OldestLostFirst
<1>1. WatchInv => OldestLostFirst
  <2> SUFFICES ASSUME WatchInv
               PROVE  OldestLostFirst
    OBVIOUS
  <2>1. SinkType /\ SinkInv
    BY TypeParts DEF WatchInv
  <2>2. OnDisk = HeldBy(MaxBackups)
    <3>1. DOMAIN backups = 1..MaxBackups
      BY <2>1 DEF SinkType
    <3>2. OnDisk = HeldBy(MaxBackups) \cap Lines
      BY <3>1 DEF OnDisk, HeldBy, Held
    <3> QED BY <2>1, <3>2, HeldAreLines
  <2>3. MaxBackups > 0 => HeldBy(1) \subseteq HeldBy(MaxBackups)
    BY DEF HeldBy
  <2> QED BY <2>1, <2>2, <2>3 DEF SinkInv, OldestLostFirst
<1> QED BY <1>1, WatchInvariant, PTL

(* While the command watches, an item that waits for the agent has been    *)
(* written, is on its way, or was lost in one of the known ways: of any    *)
(* number of items, projects and streams, with catch-up and streams racing *)
(* one another and connections that break at any point.                    *)
THEOREM WaitingReported == WatchSpec => []WaitingIsReported
<1>1. WatchInv => WaitingIsReported
  <2> SUFFICES ASSUME WatchInv, main = "watching",
                      NEW i \in published \ handled, ForMe(i)
               PROVE  Reported(i) \/ i \in excused
                      \/ i \in ItemsOf(wire[i.project])
    BY DEF WaitingIsReported
  <2>1. i \in Item
    BY DEF WatchInv, WatchTypeOK
  <2>2. i.project \in Project
    BY <2>1
  <2>3. ~CatchupCovers(i)
    BY <2>2 DEF WatchInv, PlaceInv, CatchupCovers
  <2> QED BY <2>3 DEF WatchInv, WaitInv
<1> QED BY <1>1, WatchInvariant, PTL

================================================================================
