----------------------------- MODULE AgentWatch -----------------------------
(***************************************************************************)
(* "aitask watch --agent" (command_watch.go, agentwatch/agentwatch.go) over *)
(* the table agent_inbox (inbox/inbox.go), which "aitask inbox ack, done,   *)
(* fail, skip" change as well (command_inbox.go).                          *)
(*                                                                         *)
(* A pass of a watcher takes the lock of the agent, lists a batch of rows  *)
(* once, and then acks, runs and records them one by one.  What it does    *)
(* with a row it decides from the listed copy; only the WHERE of each      *)
(* UPDATE looks at the row again.  A row somebody acked and left is run    *)
(* again once its ack is stale (ten times the timeout of a run).           *)
(*                                                                         *)
(* A watcher is started in one of three modes: it loops, it makes one pass *)
(* and ends, or it only prints the prompt of the first row it would run.   *)
(* All three take the lock.  One started with flags that contradict each   *)
(* other, or with a handler that does not exist, ends without a step.      *)
(*                                                                         *)
(* The rows are those of one agent, which exclude its own events.  The     *)
(* status "seen" is read but never written.                                *)
(***************************************************************************)
EXTENDS Naturals, FiniteSets

CONSTANTS
  N,           \* events, numbered in the order of created_at
  Watcher,     \* processes; the shell may start each again when it ends
  MaxBatch,    \* rows listed per pass (10)
  MaxRetries,  \* --max-retries
  MaxStops,    \* bound: dry runs, and passes killed, cancelled or ended by
               \* an SQL error
  None

ASSUME CountAssumption ==
  /\ N \in Nat /\ MaxStops \in Nat
  /\ MaxBatch \in Nat \ {0} /\ MaxRetries \in Nat \ {0}
ASSUME NoneAssumption == None \notin Watcher

VARIABLES
  row,      \* agent_inbox: [status, retries, stale] of each event
  result,   \* events whose run result was stored for the memory worker
  lock,     \* the flock of the agent
  mode, pc, \* how a watcher was started and where it is
  batch,    \* copies of the listed rows it has not finished
  ackedNow, \* the row in work was acked by this pass
  stops,
  recorded  \* history: events whose outcome a watcher recorded

vars == <<row, result, lock, mode, pc, batch, ackedNow, stops,
          recorded>>
watchers == <<lock, mode, pc, batch, ackedNow>>

Event == 1..N
Mode == {"loop", "once", "dry"}
Open == {"unread", "acked"}
Status == Open \cup {"absent", "handled", "failed", "skipped"}

Init ==
  /\ row = [e \in Event |-> [status |-> "absent", retries |-> 0,
                              stale |-> FALSE]]
  /\ result = {} /\ lock = None
  /\ mode = [w \in Watcher |-> "once"]
  /\ pc = [w \in Watcher |-> "off"]
  /\ batch = [w \in Watcher |-> {}]
  /\ ackedNow = [w \in Watcher |-> FALSE]
  /\ stops = 0 /\ recorded = {}

---------------------------------------------------------------------------
(* updateStatus: the UPDATE names the statuses it applies to.              *)

Allowed(next) ==
  CASE next = "acked" -> {"unread"}
    [] next \in {"handled", "failed"} -> {"acked"}
    [] next = "skipped" -> {"acked", "failed"}

Applies(e, next) == row[e].status \in Allowed(next)

SetStatus(e, next) ==
  row' = [row EXCEPT ![e] =
            [status |-> next, stale |-> @.stale,
             retries |-> IF next = "failed" THEN @.retries + 1
                         ELSE @.retries]]

(* The events file is ingested, also lines that were ingested before: by   *)
(* the memory worker and, first of all, by the commands that mark a row.   *)
Ingest(e) ==
  /\ row' = IF row[e].status = "absent"
              THEN [row EXCEPT ![e].status = "unread"] ELSE row
  /\ UNCHANGED <<result, watchers, stops, recorded>>

(* "aitask inbox ack | done | fail | skip", by a person or by the agent    *)
(* while it runs; the prompt asks it to.                                   *)
Mark(e, next) ==
  /\ Applies(e, next) /\ SetStatus(e, next)
  /\ UNCHANGED <<result, watchers, stops, recorded>>

(* openInboxStatusDB ingests before the command marks.                     *)
MarkCommand(e, next) == Ingest(e) \/ Mark(e, next)

(* The oldest row of the batch is the one in work.                         *)
First(w) ==
  CHOOSE c \in batch[w] : \A d \in batch[w] : c.event <= d.event
InWork(w) == First(w).event
Runs(w, e) == pc[w] = "run" /\ InWork(w) = e
Holds(w, e) == pc[w] \in {"run", "done", "fail"} /\ InWork(w) = e

(* Time passes; a run and its recording do not take as long as that.       *)
GrowsStale(e) ==
  /\ row[e].status = "acked" /\ ~row[e].stale
  /\ \A w \in Watcher : ~Holds(w, e)
  /\ row' = [row EXCEPT ![e].stale = TRUE]
  /\ UNCHANGED <<result, watchers, stops, recorded>>

---------------------------------------------------------------------------
(* RunOnce                                                                 *)

Goto(w, l) == pc' = [pc EXCEPT ![w] = l]
StateVars == <<mode, row, result, stops, recorded>>

(* newWatchCommand: the flags and the terminal choose the mode.            *)
Launch(w, m) ==
  /\ pc[w] = "off"
  /\ m = "dry" => stops < MaxStops
  /\ stops' = IF m = "dry" THEN stops + 1 ELSE stops
  /\ mode' = [mode EXCEPT ![w] = m]
  /\ Goto(w, "lock")
  /\ UNCHANGED <<row, result, recorded, lock, batch, ackedNow>>

(* Bug variant of TakeLock: skipLock, which is meant for tests.            *)
TakeNoLock(w) ==
  /\ pc[w] \in {"lock", "sleep"}
  /\ Goto(w, "list")
  /\ UNCHANGED <<StateVars, lock, batch, ackedNow>>

(* LOCK_EX|LOCK_NB: a second watcher of the agent ends at once; so does a  *)
(* loop whose tick meets the pass of another one, be it a dry run.         *)
TakeLock(w) ==
  /\ pc[w] \in {"lock", "sleep"}
  /\ IF lock = None THEN lock' = w /\ Goto(w, "list")
     ELSE Goto(w, "off") /\ UNCHANGED lock
  /\ UNCHANGED <<StateVars, batch, ackedNow>>

(* ListAgentInbox: oldest first; the limit also counts rows whose ack is   *)
(* not stale, which shouldProcess passes over later.                       *)
Listed ==
  LET open == {e \in Event : row[e].status \in Open} IN
  {[event |-> e, status |-> row[e].status, retries |-> row[e].retries] :
     e \in {f \in open : Cardinality({g \in open : g < f}) < MaxBatch}}

List(w) ==
  /\ pc[w] = "list"
  /\ batch' = [batch EXCEPT ![w] = Listed]
  /\ Goto(w, "next")
  /\ UNCHANGED <<StateVars, lock, ackedNow>>

(* On to the next row of the batch.                                        *)
Advance(w) ==
  /\ batch' = [batch EXCEPT ![w] = @ \ {First(w)}]
  /\ ackedNow' = [ackedNow EXCEPT ![w] = FALSE]
  /\ Goto(w, "next")

(* Bug variant of IsStaleAck: a row once acked belongs to who acked it.    *)
IsStaleAckNever(e) == FALSE

IsStaleAck(e) == row[e].stale

ShouldProcess(r) == r.status = "unread" \/ IsStaleAck(r.event)

PassOver(w) ==
  /\ pc[w] = "next" /\ batch[w] # {} /\ ~ShouldProcess(First(w))
  /\ Advance(w)
  /\ UNCHANGED <<StateVars, lock>>

(* A stale row is run without looking at it again.                         *)
RunStale(w) ==
  /\ pc[w] = "next" /\ batch[w] # {} /\ First(w).status = "acked"
  /\ ShouldProcess(First(w)) /\ mode[w] # "dry"
  /\ Goto(w, "run")
  /\ UNCHANGED <<StateVars, lock, batch, ackedNow>>

AckAndRun(w) ==
  /\ pc[w] = "next" /\ batch[w] # {} /\ First(w).status = "unread"
  /\ mode[w] # "dry"
  /\ Applies(InWork(w), "acked") /\ SetStatus(InWork(w), "acked")
  /\ ackedNow' = [ackedNow EXCEPT ![w] = TRUE]
  /\ Goto(w, "run")
  /\ UNCHANGED <<mode, result, stops, recorded, lock, batch>>

(* ErrNotApplicable: somebody was faster.                                  *)
AckRefused(w) ==
  /\ pc[w] = "next" /\ batch[w] # {} /\ First(w).status = "unread"
  /\ mode[w] # "dry"
  /\ ~Applies(InWork(w), "acked")
  /\ Advance(w)
  /\ UNCHANGED <<StateVars, lock>>

(* The runner ends by itself or is killed after the timeout.               *)
RunEnds(w) ==
  /\ pc[w] = "run"
  /\ Goto(w, "done") \/ Goto(w, "fail")
  /\ UNCHANGED <<StateVars, lock, batch, ackedNow>>

Record(e) == recorded' = recorded \cup {e}

(* Bug variant of Done: the next row is taken up before the result of this *)
(* one is stored.                                                          *)
DoneAdvance(w) ==
  /\ pc[w] = "done" /\ Applies(InWork(w), "handled")
  /\ SetStatus(InWork(w), "handled") /\ Record(InWork(w))
  /\ batch' = [batch EXCEPT ![w] = @ \ {First(w)}]
  /\ Goto(w, "persist")
  /\ UNCHANGED <<mode, result, stops, lock, ackedNow>>

Done(w) ==
  /\ pc[w] = "done" /\ Applies(InWork(w), "handled")
  /\ SetStatus(InWork(w), "handled") /\ Record(InWork(w))
  /\ Goto(w, "persist")
  /\ UNCHANGED <<mode, result, stops, lock, batch, ackedNow>>

(* Marked by somebody, perhaps by the agent itself: its output is not      *)
(* stored.                                                                 *)
DoneRefused(w) ==
  /\ pc[w] = "done" /\ ~Applies(InWork(w), "handled")
  /\ Advance(w)
  /\ UNCHANGED <<StateVars, lock>>

(* persistRunResult; an error is logged, and an empty output not stored.   *)
Persist(w) ==
  /\ pc[w] = "persist"
  /\ \/ result' = result \cup {InWork(w)}
     \/ UNCHANGED result
  /\ Advance(w)
  /\ UNCHANGED <<mode, row, stops, recorded, lock>>

Fail(w) ==
  /\ pc[w] = "fail" /\ Applies(InWork(w), "failed")
  /\ SetStatus(InWork(w), "failed") /\ Record(InWork(w))
  /\ IF First(w).retries + 1 >= MaxRetries
       THEN Goto(w, "skip") /\ UNCHANGED <<batch, ackedNow>>
       ELSE Advance(w)
  /\ UNCHANGED <<mode, result, stops, lock>>

Release(w) ==
  /\ lock' = IF lock = w THEN None ELSE lock
  /\ batch' = [batch EXCEPT ![w] = {}]
  /\ ackedNow' = [ackedNow EXCEPT ![w] = FALSE]

(* The error is passed over only for a row this pass has acked; for a      *)
(* stale one it ends the watcher.                                          *)
FailRefused(w) ==
  /\ pc[w] = "fail" /\ ~Applies(InWork(w), "failed")
  /\ IF ackedNow[w] THEN Advance(w) /\ UNCHANGED lock
     ELSE Release(w) /\ Goto(w, "off")
  /\ UNCHANGED StateVars

Skip(w) ==
  /\ pc[w] = "skip"
  /\ IF Applies(InWork(w), "skipped") THEN SetStatus(InWork(w), "skipped")
     ELSE UNCHANGED row
  /\ Advance(w)
  /\ UNCHANGED <<mode, result, stops, recorded, lock>>

(* A dry run also ends at the first row it would run.                      *)
EndPass(w) ==
  /\ pc[w] = "next"
  /\ \/ batch[w] = {}
     \/ batch[w] # {} /\ mode[w] = "dry" /\ ShouldProcess(First(w))
  /\ Release(w) /\ Goto(w, IF mode[w] = "loop" THEN "sleep" ELSE "off")
  /\ UNCHANGED StateVars

(* Killed, cancelled, or ended by an SQL error: the row in work stays as   *)
(* it is, and the system releases the lock.                                *)
Stop(w) ==
  /\ pc[w] # "off" /\ stops < MaxStops
  /\ stops' = stops + 1
  /\ Release(w) /\ Goto(w, "off")
  /\ UNCHANGED <<mode, row, result, recorded>>

---------------------------------------------------------------------------
RowStep(w) ==
  \/ PassOver(w) \/ RunStale(w) \/ AckAndRun(w) \/ AckRefused(w) \/ RunEnds(w)
  \/ Done(w) \/ DoneRefused(w) \/ Persist(w) \/ Fail(w) \/ FailRefused(w)
  \/ Skip(w)

PassStep(w) == List(w) \/ RowStep(w) \/ EndPass(w)

Next ==
  \/ \E e \in Event :
       \/ GrowsStale(e)
       \/ \E s \in {"acked", "handled", "failed", "skipped"} :
            MarkCommand(e, s)
  \/ \E w \in Watcher : \/ \E m \in Mode : Launch(w, m)
                         \/ TakeLock(w) \/ PassStep(w) \/ Stop(w)

(* The loop ticks, a watcher that ended is started again with a handler,   *)
(* its statements return and its runs end (the timeout kills them), and    *)
(* time passes.                                                            *)
Fairness ==
  /\ \A w \in Watcher : /\ WF_vars(\E m \in Mode \ {"dry"} : Launch(w, m))
                         /\ WF_vars(TakeLock(w)) /\ WF_vars(PassStep(w))
  /\ \A e \in Event : WF_vars(GrowsStale(e))

Spec == Init /\ [][Next]_vars
FairSpec == Spec /\ Fairness

=============================================================================
