-------------------------- MODULE MemoryInvariant --------------------------
(* The inductive strengthening of the invariants of MemorySafety.          *)
EXTENDS MemorySafety

(* Whoever is in a run of the worker or a backfill holds the lock.         *)
RunsHoldLock == \A w \in Worker : run[w].step # "idle" => lock = w

(* A status command only ingests.                                          *)
CommandsIngest == \A c \in Command : run[c].step \in {"idle", "commit"}

(* The rows still to sync are due: nobody else changes them.               *)
BatchIsDue ==
  \A w \in Worker : LET r == run[w] IN
    /\ r.step \in {"sync", "mark"} => r.rows \subseteq Due
    /\ r.step \in {"mark", "skip"} => r.cur \in r.rows
    /\ r.step = "mark" /\ r.ok => r.cur \in remote
    /\ r.step = "skip" =>
         /\ r.rows \ {r.cur} \subseteq Due
         /\ sync[r.cur] = "failed" /\ retry[r.cur] = MaxRetries

QueueInv ==
  /\ TypeOK /\ RunsHoldLock /\ CommandsIngest /\ BatchIsDue /\ RetriesCounted

(* Until the file is rotated, a pending ingest reads the current file and  *)
(* what it skips has been ingested.                                        *)
SkippedIngested ==
  gen = 0 => \A p \in Proc : LET r == run[p] IN
    r.step = "commit" =>
      /\ r.of = 0 /\ r.from <= Len(file[0])
      /\ \A k \in 1..r.from : file[0][k] \in events

CursorInv == TypeOK /\ SkippedIngested /\ NothingBehindCursor

=============================================================================
