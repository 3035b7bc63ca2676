-------------------------- MODULE AgentWatchSafety --------------------------
(* What an agent may rely on for the events in its inbox.                  *)
EXTENDS AgentWatch

Copy == [event : Event, status : Open, retries : Nat]

TypeOK ==
  /\ row \in [Event -> [status : Status, retries : Nat, stale : BOOLEAN]]
  /\ result \subseteq Event /\ recorded \subseteq Event
  /\ lock \in Watcher \cup {None}
  /\ mode \in [Watcher -> Mode]
  /\ pc \in [Watcher -> {"off", "lock", "list", "next", "run", "done", "persist",
                         "fail", "skip", "sleep"}]
  /\ batch \in [Watcher -> SUBSET Copy]
  /\ \A w \in Watcher :
       pc[w] \in {"run", "done", "persist", "fail", "skip"} => batch[w] # {}
  /\ ackedNow \in [Watcher -> BOOLEAN]
  /\ stops \in 0..MaxStops

(* An event whose outcome a watcher has recorded is never run again, by    *)
(* any watcher, whatever is ingested again or marked by hand: a stale row  *)
(* is run from an old copy, and only the lock keeps that copy from being   *)
(* older than somebody else's run.                                         *)
RecordedNotRunAgain ==
  [][\A w \in Watcher, e \in Event :
       (~Runs(w, e) /\ Runs(w, e)') => e \notin recorded]_vars

(* Every event in the inbox is handled, failed or skipped in the end,      *)
(* although watchers are killed while they run it, somebody may ack it and *)
(* walk away, and rows that wait for their ack to grow stale fill the      *)
(* batch.                                                                  *)
EventSettles ==
  \A e \in Event :
    row[e].status \in Open
      ~> row[e].status \in {"handled", "failed", "skipped"}

=============================================================================
