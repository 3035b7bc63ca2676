------------------------- MODULE EventsWatchSafety -------------------------
(* What the agent may rely on when the command writes its events.          *)
EXTENDS EventsWatch

Lines == 1..Len(written)

WatchTypeOK ==
  /\ stored \subseteq Item /\ handled \subseteq stored
  /\ published \subseteq stored /\ excused \subseteq Item
  /\ link \in [Project -> {"down", "up", "broken"}]
  /\ wire \in [Project -> Seq(Item \cup {Greeting})]
  /\ main \in {"identity", "catchup", "starting", "proving", "watching",
               "failing", "ended"}
  /\ goroutine \in [Project ->
       {"none", "mentions", "emitMentions", "tasks", "emitTasks", "caught",
        "dial", "read", "backoff", "closed"}]
  /\ ready \in [Project -> {Nil, "connected", "failed"}]
  /\ stop \in BOOLEAN /\ greeted \in BOOLEAN
  /\ listed \in [Project -> SUBSET Item]
  /\ seen \subseteq {StreamId(i) : i \in Item} \cup {CatchupId(i) : i \in Item}
  /\ written \in Seq(Item)
  /\ file \in Seq(Lines) /\ backups \in [1..MaxBackups -> Seq(Lines)]
  /\ starts \in 1..MaxStarts /\ faults \in 0..MaxFaults

(* The lines some file still holds.                                        *)
OnDisk ==
  {n \in Lines :
    \E s \in {file} \cup {backups[k] : k \in DOMAIN backups} :
      \E m \in DOMAIN s : s[m] = n}

(* Rotation loses the oldest lines first, also when a compression fails or *)
(* the process dies between compressing the file and removing it: a line   *)
(* is never gone while an older one is still there, and the newest never.  *)
OldestLostFirst ==
  /\ \A n \in OnDisk : n..Len(written) \subseteq OnDisk
  /\ written # <<>> /\ MaxBackups > 0 => Len(written) \in OnDisk

(* What catch-up asks for: the kinds an agent acts on.                     *)
ForMe(i) ==
  /\ i.to = "me" /\ i.from # "me" /\ Allows(CatchupKind(i.type))
  /\ i.event # "task.updated"

(* While the command watches, whatever waits for the agent has been        *)
(* written, is on its way, or got lost in one of three known ways: the     *)
(* catch-up request or the write failed, it was published while the stream *)
(* of its project was down, or it was in a connection that broke.          *)
WaitingIsReported ==
  main = "watching" =>
    \A i \in published \ handled :
      ForMe(i) =>
        Reported(i) \/ i \in excused \/ i \in ItemsOf(wire[i.project])

(* The command never hangs: it starts watching or ends, a signal ends it,  *)
(* and it does not go on once every stream is closed for good.             *)
CommandSettles ==
  /\ main = "identity" ~> main \in {"watching", "ended"}
  /\ stop ~> main = "ended"
  /\ (main = "watching" /\ AllClosed) ~> main = "ended"

=============================================================================
