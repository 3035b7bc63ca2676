---------------------------- MODULE MemorySafety ----------------------------
(* What the memory worker must guarantee, and what its documents say of it *)
(* that the code does not do.                                              *)
EXTENDS MemoryWorker

(* Every row, file and process variable keeps the values the code gives it. *)
TypeOK ==
  /\ file \in [Generation -> Seq(Event)] /\ gen \in Generation
  /\ cursor \in Nat
  /\ events \subseteq Event /\ remote \subseteq Event
  /\ sync \in [Event -> SyncStatus] /\ retry \in [Event -> Nat]
  /\ lock \in Worker \cup {None}
  /\ run \in [Proc -> Run]

(* Until the file is rotated, every line before the cursor has been        *)
(* ingested, although ingests of several processes overlap, one of them    *)
(* may write an offset older than the one it replaces, and each may be     *)
(* killed.                                                                 *)
NothingBehindCursor ==
  gen = 0 => /\ cursor <= Len(file[0])
             /\ \A k \in 1..cursor : file[0][k] \in events

(* The retry count of a row says how often it failed: none while pending,  *)
(* all of them once skipped, and never more, so that a row is neither      *)
(* given up early nor tried for ever.                                      *)
RetriesCounted ==
  \A e \in Event :
    /\ retry[e] <= MaxRetries
    /\ sync[e] \in {"absent", "pending"} => retry[e] = 0
    /\ sync[e] = "skipped" => retry[e] = MaxRetries

(* The memory of an event that is synced, or was given up, is not written  *)
(* again: the lock file keeps a second worker from a batch it has read.    *)
SettledNotRewritten ==
  [][\A w \in Worker, e \in Event, ok \in BOOLEAN :
       WriteMemory(w, e, ok) => sync[e] \notin {"synced", "skipped"}]_vars

(* Each event goes through the queue as MemoryQueue says.                  *)
QueueState ==
  [e \in Event |-> IF sync[e] \in {"pending", "failed"} THEN "queued" ELSE sync[e]]
Queue == INSTANCE MemoryQueue WITH state <- QueueState, stored <- remote
QueueSpec == Queue!Spec

(* A queued event does not stay in the queue with retries left: it is      *)
(* written, or its retries are used up, however often the writes fail.     *)
QueuedIsTried == \A e \in Event : (e \in Due) ~> (e \notin Due)

=============================================================================
