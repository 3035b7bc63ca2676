---------------------------- MODULE MemoryQueue ----------------------------
(***************************************************************************)
(* What the memory worker promises for each event, without the file, the   *)
(* processes, the lock and the retries: an event is queued once, is stored *)
(* only while it is queued, and leaves the queue either stored or given    *)
(* up, for good.  MemoryWorker implements this: see MemorySafety!Queue.    *)
(***************************************************************************)
CONSTANT Event

VARIABLES state,   \* of each event: absent, queued, synced or skipped
          stored   \* the events the memory service has

vars == <<state, stored>>

Init == state = [e \in Event |-> "absent"] /\ stored = {}

Move(e, s) == state' = [state EXCEPT ![e] = s]

(* One transaction may queue several events.                               *)
Enqueue(S) ==
  /\ \A e \in S : state[e] = "absent"
  /\ state' = [e \in Event |-> IF e \in S THEN "queued" ELSE state[e]]
  /\ UNCHANGED stored

Store(e) == state[e] = "queued" /\ stored' = stored \cup {e} /\ UNCHANGED state
Settle(e) ==
  state[e] = "queued" /\ e \in stored /\ Move(e, "synced") /\ UNCHANGED stored
GiveUp(e) == state[e] = "queued" /\ Move(e, "skipped") /\ UNCHANGED stored

Next ==
  \/ \E S \in SUBSET Event : Enqueue(S)
  \/ \E e \in Event : Store(e) \/ Settle(e) \/ GiveUp(e)

Spec == Init /\ [][Next]_vars

=============================================================================
