---------------------------- MODULE MemoryWorker ----------------------------
(***************************************************************************)
(* The memory worker of the command line (cli/internal/worker/worker.go):  *)
(* it ingests the lines of events.ndjson into state.db, queues the events  *)
(* worth remembering in the table memory_sync and writes them to the       *)
(* memory service, with retries.  The status commands ingest as well       *)
(* (cli/internal/cli/command_inbox.go), and they take no lock.             *)
(*                                                                         *)
(* Each process goes through one action per SQL statement, transaction or  *)
(* remote call.  Between two of them it may be killed, or a statement may  *)
(* fail (another process holds SQLite's write lock and no busy timeout is  *)
(* set): both end the run and release the lock file.                       *)
(*                                                                         *)
(* A line is one event and one unit long; the file holds FileCap of them   *)
(* before the event watch rotates it (cli/internal/cli/events_runtime.go). *)
(* A reader that opened the file keeps what it opened.                     *)
(***************************************************************************)
EXTENDS Naturals, Sequences, FiniteSets

CONSTANTS
  Event,         \* event ids
  Syncable,      \* the events whose kind is on the whitelist syncableKind
  Result,        \* the events an agent watch makes of the output of an agent
  Worker,        \* processes that run aitask worker (once, daemon, backfill)
  Command,       \* processes that run aitask inbox ack, done, fail or skip
  None,          \* no process, no event
  MaxRetries,    \* attempts before a row is skipped
  BatchSize,     \* rows of one run
  FileCap,       \* lines that fit into events.ndjson
  MaxRotations   \* bound of the model: rotations of the file

Proc == Worker \cup Command
Generation == 0..MaxRotations

ASSUME ProcAssumption == Worker \cap Command = {} /\ None \notin Proc \cup Event
ASSUME SyncableAssumption == Syncable \subseteq Event /\ Result \subseteq Syncable
ASSUME LimitAssumption ==
  /\ MaxRetries \in Nat \ {0} /\ BatchSize \in Nat \ {0}
  /\ FileCap \in Nat \ {0} /\ MaxRotations \in Nat

VARIABLES
  file, gen,     \* the lines of each generation of the file; the current one
  cursor,        \* cursors.offset of worker:indexer
  events,        \* ids in table events
  sync, retry,   \* status and retry_count of table memory_sync
  remote,        \* the events the memory service has stored
  lock,          \* who holds worker.lock
  run            \* what each process is doing

vars == <<file, gen, cursor, events, sync, retry, remote, lock, run>>
fileVars == <<file, gen>>
queueVars == <<sync, retry>>

SyncStatus == {"absent", "pending", "failed", "synced", "skipped"}
Steps == {"idle", "open", "commit", "new", "enqueue", "select", "sync",
          "mark", "skip", "backfill"}

Run ==
  [step : Steps,
   before : SUBSET Event,     \* knownEventIDs, read before the ingest
   of : Generation,           \* the file that was opened ...
   from : Nat,                \* ... the offset to read from ...
   atEnd : BOOLEAN,           \* ... and whether nothing followed it
   rows : SUBSET Event,       \* events to enqueue, or rows to sync
   cur : Event \cup {None},   \* the row being synced ...
   ok : BOOLEAN]              \* ... and what the memory service answered

Idle == [step |-> "idle", before |-> {}, of |-> 0, from |-> 0, atEnd |-> FALSE,
         rows |-> {}, cur |-> None, ok |-> FALSE]

Init ==
  /\ file = [g \in Generation |-> <<>>] /\ gen = 0 /\ cursor = 0
  /\ events = {} /\ remote = {}
  /\ sync = [e \in Event |-> "absent"] /\ retry = [e \in Event |-> 0]
  /\ lock = None
  /\ run = [p \in Proc |-> Idle]

Become(p, r) == run' = [run EXCEPT ![p] = r]
Goto(p, step) == Become(p, [run[p] EXCEPT !.step = step])

---------------------------------------------------------------------------
(* The event watch appends a line; a file that is full is moved away first *)
(* and the line is the first of a new one.                                 *)
WriteLine(e) ==
  /\ \/ /\ Len(file[gen]) < FileCap
        /\ file' = [file EXCEPT ![gen] = Append(@, e)]
        /\ UNCHANGED gen
     \/ /\ Len(file[gen]) = FileCap /\ gen < MaxRotations
        /\ gen' = gen + 1
        /\ file' = [file EXCEPT ![gen + 1] = <<e>>]
  /\ UNCHANGED <<cursor, events, queueVars, remote, lock, run>>

---------------------------------------------------------------------------
(* A run of the worker, from its lock to its release.                      *)

(* Bug variant of TakeLock: the lock file is not asked for (skipLock).     *)
SkipLock(w) == UNCHANGED lock

(* flock(LOCK_EX | LOCK_NB); a run that does not get it does nothing.      *)
TakeLock(w) == lock = None /\ lock' = w
Release(w) == lock' = IF lock = w THEN None ELSE lock

StartRun(w) ==
  /\ run[w] = Idle
  /\ TakeLock(w)
  /\ Become(w, [Idle EXCEPT !.step = "open", !.before = events])
  /\ UNCHANGED <<fileVars, cursor, events, queueVars, remote>>

FileExists == file[gen] # <<>>

(* A status command ingests if there is a file.                            *)
Opening(p) == IF p \in Worker THEN run[p].step = "open" ELSE run[p] = Idle

(* The file is opened and read from the cursor, or from the start if it is *)
(* shorter than that; only a rotation could come in between and tell.  The *)
(* transaction of the ingest begins with its first write, so a reader that *)
(* is at the end already may be overtaken.                                 *)
IngestOpen(p) ==
  /\ Opening(p) /\ FileExists
  /\ LET from == IF cursor <= Len(file[gen]) THEN cursor ELSE 0
     IN  Become(p, [run[p] EXCEPT !.step = "commit", !.of = gen, !.from = from,
                                  !.atEnd = (from = Len(file[gen]))])
  /\ UNCHANGED <<fileVars, cursor, events, queueVars, remote, lock>>

(* Where the scanner stops.                                                *)
ScanEnd(r) == IF r.atEnd THEN r.from ELSE Len(file[r.of])

(* Bug variant of IngestedEvents: the last line, which may not be complete *)
(* yet, is left out although the offset counts it.                         *)
IngestedButLast(r) == {file[r.of][k] : k \in (r.from + 1)..(ScanEnd(r) - 1)}

IngestedEvents(r) == {file[r.of][k] : k \in (r.from + 1)..ScanEnd(r)}

(* One transaction: the events of the lines read and the offset after them. *)
IngestCommit(p) ==
  /\ run[p].step = "commit"
  /\ events' = events \cup IngestedEvents(run[p])
  /\ cursor' = ScanEnd(run[p])
  /\ IF p \in Worker THEN Goto(p, "new") ELSE Become(p, Idle)
  /\ UNCHANGED <<fileVars, queueVars, remote, lock>>

(* Only what was not known before this run's own ingest is new.            *)
NewEvents(w) ==
  /\ run[w].step = "new"
  /\ LET fresh == events \ run[w].before
     IN  Become(w, [run[w] EXCEPT !.rows = fresh, !.before = {},
                      !.step = IF fresh = {} THEN "select" ELSE "enqueue"])
  /\ UNCHANGED <<fileVars, cursor, events, queueVars, remote, lock>>

(* INSERT ... ON CONFLICT(event_id) DO NOTHING                             *)
InsertPending(S) ==
  /\ sync' = [e \in Event |-> IF e \in S \cap Syncable /\ sync[e] = "absent"
                              THEN "pending" ELSE sync[e]]
  /\ UNCHANGED retry

Enqueue(w) ==
  /\ run[w].step = "enqueue"
  /\ InsertPending(run[w].rows)
  /\ Become(w, [run[w] EXCEPT !.step = "select", !.rows = {}])
  /\ UNCHANGED <<fileVars, cursor, events, remote, lock>>

---------------------------------------------------------------------------
(* syncPending                                                             *)

Due == {e \in Event : sync[e] \in {"pending", "failed"} /\ retry[e] < MaxRetries}

(* ORDER BY retry_count LIMIT: any rows with the fewest retries.           *)
Batch(S) ==
  /\ S \subseteq Due
  /\ Cardinality(S) <= BatchSize
  /\ S # Due => Cardinality(S) = BatchSize
  /\ \A e \in S, f \in Due \ S : retry[e] <= retry[f]

Select(w, S) ==
  /\ run[w].step = "select"
  /\ Batch(S)
  /\ Become(w, [run[w] EXCEPT !.step = "sync", !.rows = S])
  /\ UNCHANGED <<fileVars, cursor, events, queueVars, remote, lock>>

(* The memory service stores the event and says so, or the worker gets an  *)
(* error: nothing may have been stored, or only the answer was lost.       *)
WriteMemory(w, e, ok) ==
  /\ run[w].step = "sync" /\ e \in run[w].rows
  /\ \/ remote' = remote \cup {e}
     \/ ~ok /\ UNCHANGED remote
  /\ Become(w, [run[w] EXCEPT !.step = "mark", !.cur = e, !.ok = ok])
  /\ UNCHANGED <<fileVars, cursor, events, queueVars, lock>>

NextRow(w) ==
  Become(w, [run[w] EXCEPT !.step = "sync", !.rows = @ \ {run[w].cur},
                           !.cur = None, !.ok = FALSE])

(* Bug variant of MarkSynced: the error of the call is not looked at.      *)
MarkSyncedAnyway(w) ==
  /\ run[w].step = "mark"
  /\ sync' = [sync EXCEPT ![run[w].cur] = "synced"]
  /\ NextRow(w)
  /\ UNCHANGED <<fileVars, cursor, events, retry, remote, lock>>

MarkSynced(w) ==
  /\ run[w].step = "mark" /\ run[w].ok
  /\ sync' = [sync EXCEPT ![run[w].cur] = "synced"]
  /\ NextRow(w)
  /\ UNCHANGED <<fileVars, cursor, events, retry, remote, lock>>

(* Bug variant of CountRetry: the status alone is updated.                 *)
KeepRetry(e) == UNCHANGED retry
CountRetry(e) == retry' = [retry EXCEPT ![e] = @ + 1]

(* markSyncFailed; the count it returns tells whether to skip the row.     *)
MarkFailed(w) ==
  LET e == run[w].cur IN
  /\ run[w].step = "mark" /\ ~run[w].ok
  /\ sync' = [sync EXCEPT ![e] = "failed"]
  /\ CountRetry(e)
  /\ IF retry[e] + 1 >= MaxRetries THEN Goto(w, "skip") ELSE NextRow(w)
  /\ UNCHANGED <<fileVars, cursor, events, remote, lock>>

(* Bug variant of MarkSkipped: the reason is stored as the status.         *)
MarkSkippedReason(w) ==
  /\ run[w].step = "skip"
  /\ sync' = [sync EXCEPT ![run[w].cur] = "exceeded MaxRetries"]
  /\ NextRow(w)
  /\ UNCHANGED <<fileVars, cursor, events, retry, remote, lock>>

MarkSkipped(w) ==
  /\ run[w].step = "skip"
  /\ sync' = [sync EXCEPT ![run[w].cur] = "skipped"]
  /\ NextRow(w)
  /\ UNCHANGED <<fileVars, cursor, events, retry, remote, lock>>

(* The batch is done; or there is no file, which is an error.              *)
Finished(w) == \/ run[w].step = "sync" /\ run[w].rows = {}
               \/ run[w].step = "open" /\ ~FileExists

EndRun(w) ==
  /\ Finished(w)
  /\ Become(w, Idle) /\ Release(w)
  /\ UNCHANGED <<fileVars, cursor, events, queueVars, remote>>

---------------------------------------------------------------------------
(* aitask worker --backfill-since: under the lock, queue events that have  *)
(* no row.  Time and LIMIT make any set of them possible.                  *)
BackfillSelect(w, S) ==
  /\ run[w] = Idle
  /\ TakeLock(w)
  /\ S # {} /\ S \subseteq {e \in events \cap Syncable : sync[e] = "absent"}
  /\ Become(w, [Idle EXCEPT !.step = "backfill", !.rows = S])
  /\ UNCHANGED <<fileVars, cursor, events, queueVars, remote>>

BackfillInsert(w) ==
  /\ run[w].step = "backfill"
  /\ InsertPending(run[w].rows)
  /\ Become(w, Idle) /\ Release(w)
  /\ UNCHANGED <<fileVars, cursor, events, remote>>

---------------------------------------------------------------------------
(* The agent watch stores the output of an agent as an event with its row, *)
(* in one transaction and without this lock, once for an event it handled. *)
PersistResult(e) ==
  /\ e \notin events /\ events \ Result # {}
  /\ events' = events \cup {e}
  /\ InsertPending({e})
  /\ UNCHANGED <<fileVars, cursor, remote, lock, run>>

---------------------------------------------------------------------------
(* A process is killed or a statement fails.  The operating system drops   *)
(* the lock, SQLite rolls back, and a restart begins from Idle.            *)
Crash(p) ==
  /\ run[p] # Idle /\ ~Finished(p)
  /\ Become(p, Idle) /\ Release(p)
  /\ UNCHANGED <<fileVars, cursor, events, queueVars, remote>>

SyncStep(w) ==
  \/ \E S \in SUBSET Event : Select(w, S)
  \/ \E e \in Event, ok \in BOOLEAN : WriteMemory(w, e, ok)
  \/ MarkSynced(w) \/ MarkFailed(w) \/ MarkSkipped(w)
  \/ EndRun(w)

RunStep(w) ==
  \/ StartRun(w) \/ IngestOpen(w) \/ IngestCommit(w)
  \/ NewEvents(w) \/ Enqueue(w)
  \/ SyncStep(w)

BackfillStep(w) ==
  \/ \E S \in SUBSET Event : BackfillSelect(w, S)
  \/ BackfillInsert(w)

Next ==
  \/ \E e \in Event \ Result : WriteLine(e)
  \/ \E e \in Result : PersistResult(e)
  \/ \E w \in Worker : RunStep(w) \/ BackfillStep(w)
  \/ \E c \in Command : IngestOpen(c) \/ IngestCommit(c)
  \/ \E p \in Proc : Crash(p)

Spec == Init /\ [][Next]_vars

(* The worker is run again and again (the ticker of RunDaemon, or a user), *)
(* a backfill that has the lock goes on, and from some moment on the       *)
(* workers are not killed and meet no SQL error.  Nothing is assumed of    *)
(* the memory service, the event watch and the status commands.            *)
Fairness ==
  \A w \in Worker : /\ WF_vars(RunStep(w)) /\ WF_vars(BackfillInsert(w))
                    /\ <>[][~Crash(w)]_vars

FairSpec == Spec /\ Fairness

=============================================================================
