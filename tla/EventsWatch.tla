---------------------------- MODULE EventsWatch ----------------------------
(***************************************************************************)
(* "aitask events watch": cli/internal/cli/command_events.go, and the file *)
(* it writes, cli/internal/cli/events_runtime.go.                          *)
(*                                                                         *)
(* The command first asks the server for what waits for the agent          *)
(* (catch-up, one goroutine per project) and then keeps one websocket per  *)
(* project.  Its events go, through one mutex, to a file that is rotated   *)
(* by size into at most MaxBackups archives.                               *)
(*                                                                         *)
(* An item is a room message or a task event of the server; it is stored   *)
(* first and published later.  Catch-up and stream give it different event *)
(* ids, so an item may be written once from each.                          *)
(***************************************************************************)
EXTENDS Naturals, Sequences, FiniteSets

CONSTANTS
  Item,        \* records [name, project, type, from, to, event], see below
  Backlog,     \* those published before the first process starts
  Project,     \* the projects the command watches
  Filter,      \* the kinds of --filter
  IncludeSelf, \* --include-self
  FileCap,     \* lines that fit in the file (--rotate-size)
  MaxBackups,  \* --rotate-backups
  MaxStarts,   \* bound: processes started
  MaxFaults,   \* bound: writes that fail and processes killed
  Greeting,    \* the envelope room.connected
  Nil          \* no event, nothing sent to readyCh

ASSUME SinkAssumption ==
  /\ FileCap \in Nat \ {0} /\ MaxBackups \in Nat
  /\ MaxStarts \in Nat \ {0} /\ MaxFaults \in Nat
ASSUME ItemAssumption ==
  /\ Backlog \subseteq Item /\ Greeting \notin Item
  /\ \A i \in Item :
       /\ i.project \in Project /\ i.type \in {"room.message", "task.updated"}
       /\ i.type = "task.updated" =>
            i.event \in {"task.delegated", "task.updated"}
  /\ \A i, j \in Item : i.name = j.name => i = j
ASSUME NilAssumption ==
  Nil \notin {"mention", "system_event", "room_message", "task_delegated",
              "task_updated", "event", "connected", "failed"}

VARIABLES
  stored, published, handled,   \* the server's side of the items
  link, wire,       \* the websocket of a project and what is on its way
  main, goroutine,  \* where the command and its goroutines are
  stop,             \* SIGINT or SIGTERM came
  ready, greeted,   \* what went into readyCh; connectedCh is not empty
  listed, seen,     \* catch-up items still to emit; ids of the deduper
  file, backups,    \* the sink: numbers of the lines each file holds
  starts, faults,
  (* history: the items of all lines ever written, and the items the       *)
  (* command of the moment need not report (see Excuse below)              *)
  written, excused

server == <<stored, published, handled>>
net == <<link, wire>>
sink == <<file, backups, written>>
proc == <<main, stop, ready, greeted, starts>>
watchVars ==
  <<server, net, sink, proc, goroutine, listed, seen, faults, excused>>

Lost == [p \in Project |-> "down"]
Nothing == [p \in Project |-> <<>>]

WatchInit ==
  /\ stored = Backlog /\ published = Backlog /\ handled = {}
  /\ link = Lost /\ wire = Nothing
  /\ main = "identity" /\ goroutine = [p \in Project |-> "none"]
  /\ stop = FALSE /\ greeted = FALSE
  /\ ready = [p \in Project |-> Nil]
  /\ listed = [p \in Project |-> {}] /\ seen = {}
  /\ file = <<>> /\ backups = [k \in 1..MaxBackups |-> <<>>]
  /\ starts = 1 /\ faults = 0
  /\ written = <<>> /\ excused = {}

---------------------------------------------------------------------------
(* Event ids and filters                                                   *)

StreamId(i) == <<"stream", i.name>>

(* Bug variant of CatchupId: the id names the project.                     *)
CatchupIdOfProject(i) == <<"catchup", i.project>>

CatchupId(i) == <<"catchup", i.name>>

Allows(kind) == kind \in Filter \/ "all" \in Filter

(* eventFromRoomMessage: a mention of the agent by somebody else, else a   *)
(* system event, else a message, as far as the filters allow.              *)
MessageKind(i) ==
  IF Allows("mention") /\ i.to = "me" /\ (IncludeSelf \/ i.from # "me")
    THEN "mention"
  ELSE IF Allows("system_event") /\ i.event = "system_event"
    THEN "system_event"
  ELSE IF Allows("room_message") THEN "room_message" ELSE Nil

(* eventFromTaskUpdated: only tasks assigned to the agent.                 *)
TaskKind(i) ==
  IF i.to # "me" THEN Nil
  ELSE IF i.event = "task.delegated"
    THEN IF Allows("task_delegated") THEN "task_delegated" ELSE Nil
    ELSE IF Allows("task_updated") THEN "task_updated" ELSE Nil

(* eventFromEnvelope.                                                      *)
Kind(i) ==
  IF "all" \in Filter THEN "event"
  ELSE IF i.type = "room.message" THEN MessageKind(i) ELSE TaskKind(i)

(* What the two catch-up requests return: unhandled mentions of the agent, *)
(* its own ones among them, and the tasks delegated to it.                 *)
Waiting(p, type) ==
  {i \in stored \ handled : /\ i.project = p /\ i.type = type /\ i.to = "me"
                            /\ i.event # "task.updated"}

CatchupKind(type) ==
  IF type = "room.message" THEN "mention" ELSE "task_delegated"

---------------------------------------------------------------------------
(* eventsFileSink                                                          *)

Full == Len(file) >= FileCap

(* Every archive moves up by one, the oldest is removed.                   *)
Shift(newest) ==
  [k \in 1..MaxBackups |-> IF k = 1 THEN newest ELSE backups[k - 1]]

Append1(i) ==
  /\ written' = Append(written, i)
  /\ IF Full
       THEN file' = <<Len(written) + 1>> /\ backups' = Shift(file)
       ELSE file' = Append(file, Len(written) + 1) /\ UNCHANGED backups

(* Bug variant of TornRotation: the file is removed all the same.          *)
TornRotationRemoves(n) ==
  /\ Full /\ MaxBackups > 0
  /\ backups' = Shift(SubSeq(file, 1, n))
  /\ file' = <<>>

(* The archives have moved up, but the file was compressed only in part,   *)
(* or was compressed and could not be removed.                             *)
TornRotation(n) ==
  /\ Full /\ MaxBackups > 0
  /\ backups' = Shift(SubSeq(file, 1, n))
  /\ UNCHANGED file

(* The rotation was done, but not the write.                               *)
RotatedOnly ==
  Full /\ MaxBackups > 0 /\ backups' = Shift(file) /\ file' = <<>>

FailedRotation == RotatedOnly \/ \E n \in 0..Len(file) : TornRotation(n)

(* emitStdout of an item, its error ignored by all callers.                *)
EmitItem(i) ==
  \/ Append1(i) /\ UNCHANGED <<faults, excused>>
  \/ /\ faults < MaxFaults /\ faults' = faults + 1
     /\ excused' = excused \cup {i}
     /\ \/ UNCHANGED sink
        \/ FailedRotation /\ UNCHANGED written

---------------------------------------------------------------------------
(* The server and the network                                              *)

Store(i) ==
  /\ i \in Item \ stored
  /\ stored' = stored \cup {i}
  /\ UNCHANGED <<published, handled, net, sink, proc, goroutine, listed, seen,
                 faults, excused>>

Handle(i) ==
  /\ i \in stored \ handled
  /\ handled' = handled \cup {i}
  /\ UNCHANGED <<stored, published, net, sink, proc, goroutine, listed, seen,
                 faults, excused>>

(* The catch-up request that would return i has not been answered yet, or  *)
(* its answer is being emitted.                                            *)
CatchupCovers(i) ==
  LET p == i.project IN
  \/ main = "identity"
  \/ goroutine[p] = "mentions"
  \/ goroutine[p] \in {"emitMentions", "tasks"} /\ i.type = "task.updated"
  \/ i \in listed[p]

Reported(i) == \E n \in DOMAIN written : written[n] = i

(* What is published while the project has no subscription reaches nobody. *)
Publish(i) ==
  LET p == i.project IN
  /\ i \in stored \ published
  /\ published' = published \cup {i}
  /\ IF link[p] = "up"
       THEN wire' = [wire EXCEPT ![p] = Append(@, i)] /\ UNCHANGED excused
       ELSE /\ UNCHANGED wire
            /\ excused' = excused \cup
                            IF CatchupCovers(i) \/ Reported(i) THEN {} ELSE {i}
  /\ UNCHANGED <<stored, handled, link, sink, proc, goroutine, listed, seen,
                 faults>>

ItemsOf(s) == {s[n] : n \in DOMAIN s} \ {Greeting}

(* The connection breaks: what has not arrived is lost.                    *)
LinkBreaks(p) ==
  /\ link[p] = "up"
  /\ link' = [link EXCEPT ![p] = "broken"]
  /\ \E n \in 0..Len(wire[p]) :
       /\ wire' = [wire EXCEPT ![p] = SubSeq(@, 1, n)]
       /\ excused' = excused \cup
                       ItemsOf(SubSeq(wire[p], n + 1, Len(wire[p])))
  /\ UNCHANGED <<server, sink, proc, goroutine, listed, seen, faults>>

---------------------------------------------------------------------------
(* runEventsCommand                                                        *)

(* Token, identity and projects are there, or the command ends.            *)
Identify ==
  /\ main = "identity"
  /\ main' = "catchup"
  /\ goroutine' = [p \in Project |-> "mentions"]
  /\ UNCHANGED <<server, net, sink, stop, ready, greeted, starts, listed,
                 seen, faults, excused>>

(* The process is gone, and with it its connections.                       *)
ProcessEnds ==
  /\ main' = "ended"
  /\ goroutine' = [p \in Project |-> "none"]
  /\ link' = Lost /\ wire' = Nothing
  /\ listed' = [p \in Project |-> {}] /\ seen' = {}
  /\ stop' = FALSE /\ greeted' = FALSE
  /\ ready' = [p \in Project |-> Nil]
  /\ UNCHANGED <<server, starts, written, excused>>

Refused == main = "identity" /\ ProcessEnds /\ UNCHANGED <<sink, faults>>

(* Killed, perhaps in the middle of a rotation.                            *)
Killed ==
  /\ main # "ended" /\ faults < MaxFaults /\ faults' = faults + 1
  /\ ProcessEnds
  /\ \/ UNCHANGED sink
     \/ /\ \E p \in Project : listed[p] # {} \/ wire[p] # <<>>
        /\ FailedRotation

(* The next process lists again whatever still waits.                      *)
Start ==
  /\ main = "ended" /\ starts < MaxStarts
  /\ main' = "identity" /\ starts' = starts + 1 /\ excused' = {}
  /\ UNCHANGED <<server, net, sink, stop, ready, greeted, goroutine, listed,
                 seen, faults>>

Signal ==
  /\ main \notin {"identity", "ended"} /\ ~stop
  /\ stop' = TRUE
  /\ UNCHANGED <<server, net, sink, main, ready, greeted, starts, goroutine,
                 listed, seen, faults, excused>>

MainGoes(to) ==
  /\ main' = to
  /\ UNCHANGED <<server, net, sink, stop, ready, greeted, starts, listed, seen,
                 faults, excused>>

StartStreams ==
  /\ main = "catchup" /\ \A p \in Project : goroutine[p] = "caught"
  /\ MainGoes("starting")
  /\ goroutine' = [p \in Project |-> "dial"]

(* waitEventsReady has an answer of every project and the ready line could *)
(* be written, or not.                                                     *)
AllReady ==
  /\ main = "starting" /\ \A p \in Project : ready[p] # Nil
  /\ \/ MainGoes(IF \E p \in Project : ready[p] = "connected"
                   THEN "watching" ELSE "proving")
     \/ MainGoes("failing")
  /\ UNCHANGED goroutine

(* waitAnyEventsProjectConnected.                                          *)
Connected ==
  main = "proving" /\ greeted /\ MainGoes("watching") /\ UNCHANGED goroutine

AllClosed == \A p \in Project : goroutine[p] = "closed"

(* The startup timer may fire, or the context end, at any moment of the    *)
(* two waits; a project that has closed its stream does not hold up the    *)
(* second one.                                                             *)
GivesUp ==
  /\ main \in {"starting", "proving"}
  /\ MainGoes("failing") /\ UNCHANGED goroutine

Cancelled == stop \/ main = "failing"

(* After cancel() the command waits for its goroutines.                    *)
Fails ==
  /\ \/ main = "failing" /\ AllClosed
     \/ main = "watching" /\ AllClosed
  /\ ProcessEnds /\ UNCHANGED <<sink, faults>>

(* Shutdown does not wait for them.                                        *)
Shutdown ==
  main = "watching" /\ stop /\ ProcessEnds /\ UNCHANGED <<sink, faults>>

---------------------------------------------------------------------------
(* runEventsCatchup                                                        *)

Goto(p, l) == goroutine' = [goroutine EXCEPT ![p] = l]

AfterListing(l) == IF l = "mentions" THEN "tasks" ELSE "caught"
ListedType(l) ==
  IF l \in {"mentions", "emitMentions"} THEN "room.message"
  ELSE "task.updated"

(* The answer arrives; it is emitted item by item.                         *)
ListWaiting(p) ==
  LET l == goroutine[p] IN
  /\ l \in {"mentions", "tasks"} /\ Allows(CatchupKind(ListedType(l)))
  /\ listed' = [listed EXCEPT ![p] = Waiting(p, ListedType(l))]
  /\ Goto(p, IF l = "mentions" THEN "emitMentions" ELSE "emitTasks")
  /\ UNCHANGED <<server, net, sink, proc, seen, faults, excused>>

(* The kind is filtered out, or the request fails: an error line, and on.  *)
ListNothing(p) ==
  LET l == goroutine[p] IN
  /\ l \in {"mentions", "tasks"}
  /\ Goto(p, AfterListing(l))
  /\ excused' = excused \cup Waiting(p, ListedType(l))
  /\ UNCHANGED <<server, net, sink, proc, listed, seen, faults>>

EmitListed(p, i) ==
  /\ i \in listed[p]
  /\ listed' = [listed EXCEPT ![p] = @ \ {i}]
  /\ IF CatchupId(i) \in seen
       THEN UNCHANGED <<seen, sink, faults, excused>>
       ELSE seen' = seen \cup {CatchupId(i)} /\ EmitItem(i)
  /\ UNCHANGED <<server, net, proc, goroutine>>

ListingDone(p) ==
  /\ goroutine[p] \in {"emitMentions", "emitTasks"} /\ listed[p] = {}
  /\ Goto(p, IF goroutine[p] = "emitMentions" THEN "tasks" ELSE "caught")
  /\ UNCHANGED <<server, net, sink, proc, listed, seen, faults, excused>>

---------------------------------------------------------------------------
(* watchEventsProject and readEventsConnection                             *)

MarkReady(p, how) ==
  ready' = IF ready[p] = Nil THEN [ready EXCEPT ![p] = how] ELSE ready

(* The server subscribes the connection and greets it.                     *)
Dial(p) ==
  /\ goroutine[p] = "dial" /\ ~Cancelled
  /\ link' = [link EXCEPT ![p] = "up"]
  /\ wire' = [wire EXCEPT ![p] = <<Greeting>>]
  /\ Goto(p, "read")
  /\ UNCHANGED <<server, sink, proc, listed, seen, faults, excused>>

(* No URL, or a 4xx other than 408 and 429, closes the stream for good.    *)
DialFails(p) ==
  /\ goroutine[p] = "dial"
  /\ MarkReady(p, "failed")
  /\ Goto(p, "closed") \/ Goto(p, "backoff")
  /\ UNCHANGED <<server, net, sink, main, stop, greeted, starts, listed, seen,
                 faults, excused>>

Arrives(p, i) ==
  IF StreamId(i) \in seen
    THEN UNCHANGED <<seen, sink, faults, excused>>
    ELSE /\ seen' = seen \cup {StreamId(i)}
         /\ IF Kind(i) = Nil THEN UNCHANGED <<sink, faults, excused>>
            ELSE EmitItem(i)

Read(p) ==
  /\ goroutine[p] = "read" /\ wire[p] # <<>>
  /\ wire' = [wire EXCEPT ![p] = Tail(@)]
  /\ IF Head(wire[p]) = Greeting
       THEN /\ MarkReady(p, "connected") /\ greeted' = TRUE
            /\ UNCHANGED <<seen, sink, faults, excused>>
       ELSE Arrives(p, Head(wire[p])) /\ UNCHANGED <<ready, greeted>>
  /\ UNCHANGED <<server, link, main, stop, starts, goroutine, listed>>

Disconnect(p) ==
  /\ link' = [link EXCEPT ![p] = "down"] /\ wire' = [wire EXCEPT ![p] = <<>>]
  /\ excused' = excused \cup ItemsOf(wire[p])
  /\ UNCHANGED <<server, sink, proc, listed, seen, faults>>

(* Bug variant of ReadFails: nothing closes the connection on cancel.      *)
ReadFailsByItself(p) ==
  /\ goroutine[p] = "read" /\ link[p] = "broken" /\ wire[p] = <<>>
  /\ Goto(p, "backoff") /\ Disconnect(p)

(* The connection broke, or the context ended and closed it.               *)
ReadFails(p) ==
  /\ goroutine[p] = "read"
  /\ \/ link[p] = "broken" /\ wire[p] = <<>> /\ Goto(p, "backoff")
     \/ Cancelled /\ Goto(p, "closed")
  /\ Disconnect(p)

(* sleepEventsBackoff, and the test of the loop.                           *)
Backoff(p) ==
  /\ \/ goroutine[p] = "backoff" /\ Goto(p, IF Cancelled THEN "closed"
                                            ELSE "dial")
     \/ goroutine[p] = "dial" /\ Cancelled /\ Goto(p, "closed")
  /\ UNCHANGED <<server, net, sink, proc, listed, seen, faults, excused>>

---------------------------------------------------------------------------
CatchupStep(p) ==
  \/ ListWaiting(p) \/ ListNothing(p) \/ ListingDone(p)
  \/ \E i \in listed[p] : EmitListed(p, i)

StreamStep(p) ==
  Dial(p) \/ DialFails(p) \/ Read(p) \/ ReadFails(p) \/ Backoff(p)

MainStep ==
  \/ Identify \/ Refused \/ StartStreams \/ AllReady \/ Connected \/ Fails
  \/ Shutdown

ServerStep == \E i \in Item : Store(i) \/ Handle(i) \/ Publish(i)

WatchNext ==
  \/ ServerStep \/ MainStep \/ GivesUp \/ Signal \/ Killed \/ Start
  \/ \E p \in Project : CatchupStep(p) \/ StreamStep(p) \/ LinkBreaks(p)

(* Goroutines run, timers fire, and a cancelled connection is closed.      *)
WatchFairness ==
  /\ WF_watchVars(MainStep) /\ WF_watchVars(GivesUp)
  /\ \A p \in Project :
       /\ WF_watchVars(CatchupStep(p)) /\ WF_watchVars(StreamStep(p))
       /\ WF_watchVars(ReadFails(p)) /\ WF_watchVars(Backoff(p))

WatchSpec == WatchInit /\ [][WatchNext]_watchVars
FairWatchSpec == WatchSpec /\ WatchFairness

=============================================================================
