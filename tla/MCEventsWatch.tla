--------------------------- MODULE MCEventsWatch ---------------------------
(* Instances of the event watch for TLC.                                   *)
EXTENDS EventsWatchSafety

It(n, p, type, from, event) ==
  [name |-> n, project |-> p, type |-> type, from |-> from, to |-> "me",
   event |-> event]

MCProject == {"p"}
MCItem ==
  {It("mention", "p", "room.message", "peer", "text"),
   It("task", "p", "task.updated", "peer", "task.delegated")}
MCBacklog == {i \in MCItem : i.name = "mention"}

=============================================================================
