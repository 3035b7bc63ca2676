---------------------------- MODULE MemoryProofs ----------------------------
(***************************************************************************)
(* The theorems about the memory worker, for every value of the constants. *)
(***************************************************************************)
EXTENDS MemoryInvariant, TLAPS

USE ProcAssumption, SyncableAssumption, LimitAssumption

(* Rows that are inserted are of the right type, and no other row changes. *)
LEMMA InsertPendingType ==
  ASSUME TypeOK, NEW S \in SUBSET Event, InsertPending(S)
  PROVE  /\ sync' \in [Event -> SyncStatus] /\ retry' \in [Event -> Nat]
         /\ retry' = retry
         /\ \A e \in Event : sync'[e] # sync[e] =>
              sync[e] = "absent" /\ sync'[e] = "pending"
BY DEF TypeOK, InsertPending, SyncStatus

LEMMA IdleType == Idle \in Run
BY DEF Idle, Run, Steps, Generation

(* A process that moves on leaves the others alone.                        *)
LEMMA BecomeType ==
  ASSUME TypeOK, NEW p \in Proc, NEW r \in Run, Become(p, r)
  PROVE  /\ run' \in [Proc -> Run]
         /\ run'[p] = r
         /\ \A q \in Proc : q # p => run'[q] = run[q]
BY DEF TypeOK, Become

LEMMA InitType == Init => TypeOK
BY IdleType DEF Init, TypeOK, SyncStatus, Generation

(* What a process becomes is a process state.                              *)
LEMMA StepFields ==
  ASSUME TypeOK, NEW p \in Proc
  PROVE  /\ run[p] \in Run
         /\ \A s \in Steps : [run[p] EXCEPT !.step = s] \in Run
         /\ \A s \in Steps, S \in SUBSET Event : [run[p] EXCEPT !.step = s, !.rows = S] \in Run
         /\ \A e \in Event, ok \in BOOLEAN :
              [run[p] EXCEPT !.step = "mark", !.cur = e, !.ok = ok] \in Run
         /\ [run[p] EXCEPT !.step = "sync", !.rows = @ \ {run[p].cur},
                           !.cur = None, !.ok = FALSE] \in Run
         /\ \A S \in SUBSET Event : [Idle EXCEPT !.step = "open", !.before = S] \in Run
         /\ \A S \in SUBSET Event : [Idle EXCEPT !.step = "backfill", !.rows = S] \in Run
<1>1. run[p] \in Run
  BY DEF TypeOK
<1> QED BY <1>1, IdleType DEF Run, Steps

LEMMA StepType == TypeOK /\ [Next]_vars => TypeOK'
<1> SUFFICES ASSUME TypeOK, [Next]_vars PROVE TypeOK'
  OBVIOUS
<1>1. ASSUME NEW e \in Event, WriteLine(e) PROVE TypeOK'
  <2>1. file' \in [Generation -> Seq(Event)] /\ gen' \in Generation
    <3>1. CASE file' = [file EXCEPT ![gen] = Append(@, e)] /\ gen' = gen
      BY <3>1 DEF TypeOK
    <3>2. CASE gen < MaxRotations /\ gen' = gen + 1 /\ file' = [file EXCEPT ![gen + 1] = <<e>>]
      <4>1. gen + 1 \in Generation
        BY <3>2 DEF TypeOK, Generation
      <4>2. <<e>> \in Seq(Event)
        OBVIOUS
      <4> QED BY <3>2, <4>1, <4>2 DEF TypeOK
    <3> QED BY <1>1, <3>1, <3>2 DEF WriteLine
  <2> QED BY <1>1, <2>1 DEF WriteLine, queueVars, TypeOK
<1>2. ASSUME NEW w \in Worker, StartRun(w) PROVE TypeOK'
  <2>1. w \in Proc /\ events \in SUBSET Event
    BY DEF Proc, TypeOK
  <2>2. run' \in [Proc -> Run]
    BY <1>2, <2>1, StepFields, BecomeType DEF StartRun
  <2> QED BY <1>2, <2>2 DEF StartRun, TakeLock, fileVars, queueVars, TypeOK
<1>3. ASSUME NEW p \in Proc, IngestOpen(p) PROVE TypeOK'
  <2> DEFINE from == IF cursor <= Len(file[gen]) THEN cursor ELSE 0
             r == [run[p] EXCEPT !.step = "commit", !.of = gen, !.from = from,
                                 !.atEnd = (from = Len(file[gen]))]
  <2>1. from \in Nat /\ (from = Len(file[gen])) \in BOOLEAN /\ gen \in Generation
    BY DEF TypeOK
  <2>2. run[p] \in Run
    BY DEF TypeOK
  <2>3. r \in Run
    <3> HIDE DEF from
    <3> QED BY <2>1, <2>2 DEF Run, Steps
  <2>4. run' \in [Proc -> Run]
    BY <1>3, <2>3, BecomeType DEF IngestOpen
  <2> QED BY <1>3, <2>4 DEF IngestOpen, fileVars, queueVars, TypeOK
<1>4. ASSUME NEW p \in Proc, IngestCommit(p) PROVE TypeOK'
  <2>1. run[p] \in Run /\ file[run[p].of] \in Seq(Event)
    BY DEF TypeOK, Run
  <2>2. ScanEnd(run[p]) \in Nat
    BY <2>1 DEF ScanEnd, Run
  <2>3. IngestedEvents(run[p]) \subseteq Event
    <3>1. CASE run[p].atEnd
      BY <3>1, <2>1 DEF IngestedEvents, ScanEnd, Run
    <3>2. CASE ~run[p].atEnd
      BY <3>2, <2>1 DEF IngestedEvents, ScanEnd, Run
    <3> QED BY <3>1, <3>2
  <2>4. run' \in [Proc -> Run]
    BY <1>4, StepFields, IdleType, BecomeType DEF IngestCommit, Goto, Steps
  <2> QED BY <1>4, <2>2, <2>3, <2>4 DEF IngestCommit, fileVars, queueVars, TypeOK
<1>5. ASSUME NEW w \in Worker, NewEvents(w) PROVE TypeOK'
  <2> DEFINE fresh == events \ run[w].before
             r == [run[w] EXCEPT !.rows = fresh, !.before = {},
                      !.step = IF fresh = {} THEN "select" ELSE "enqueue"]
  <2>1. w \in Proc /\ run[w] \in Run /\ fresh \in SUBSET Event
    BY DEF Proc, TypeOK
  <2>2. r \in Run
    <3> HIDE DEF fresh
    <3> QED BY <2>1 DEF Run, Steps
  <2>3. run' \in [Proc -> Run]
    BY <1>5, <2>1, <2>2, BecomeType DEF NewEvents
  <2> QED BY <1>5, <2>3 DEF NewEvents, fileVars, queueVars, TypeOK
<1>6. ASSUME NEW w \in Worker, Enqueue(w) PROVE TypeOK'
  <2>1. w \in Proc /\ run[w].rows \in SUBSET Event
    BY DEF Run, Proc, TypeOK
  <2>2. run' \in [Proc -> Run]
    BY <1>6, <2>1, StepFields, BecomeType DEF Enqueue, Steps
  <2> QED BY <1>6, <2>1, <2>2, InsertPendingType DEF Enqueue, fileVars, TypeOK
<1>7. ASSUME NEW w \in Worker, NEW S \in SUBSET Event, Select(w, S) PROVE TypeOK'
  <2>1. w \in Proc
    BY DEF Proc
  <2>2. run' \in [Proc -> Run]
    BY <1>7, <2>1, StepFields, BecomeType DEF Select, Steps
  <2> QED BY <1>7, <2>2 DEF Select, fileVars, queueVars, TypeOK
<1>8. ASSUME NEW w \in Worker, NEW e \in Event, NEW ok \in BOOLEAN, WriteMemory(w, e, ok)
      PROVE TypeOK'
  <2>1. w \in Proc
    BY DEF Proc
  <2>2. run' \in [Proc -> Run]
    BY <1>8, <2>1, StepFields, BecomeType DEF WriteMemory
  <2> QED BY <1>8, <2>2 DEF WriteMemory, fileVars, queueVars, TypeOK
<1>9. ASSUME NEW w \in Worker, MarkSynced(w) \/ MarkFailed(w) \/ MarkSkipped(w)
      PROVE TypeOK'
  <2>1. w \in Proc
    BY DEF Proc
  <2>2. run' \in [Proc -> Run]
    BY <1>9, <2>1, StepFields, BecomeType
       DEF MarkSynced, MarkFailed, MarkSkipped, NextRow, Goto, Steps
  <2>3. CASE MarkSynced(w) \/ MarkSkipped(w)
    <3>1. sync' \in [Event -> SyncStatus]
      BY <2>3 DEF MarkSynced, MarkSkipped, SyncStatus, TypeOK
    <3> QED BY <2>2, <2>3, <3>1 DEF MarkSynced, MarkSkipped, fileVars, TypeOK
  <2>4. CASE MarkFailed(w)
    <3>1. sync' \in [Event -> SyncStatus]
      <4>1. sync' = [sync EXCEPT ![run[w].cur] = "failed"]
        BY <2>4 DEF MarkFailed
      <4> QED BY <4>1 DEF SyncStatus, TypeOK
    <3>2. retry' \in [Event -> Nat]
      <4> DEFINE e == run[w].cur
      <4>1. retry' = [retry EXCEPT ![e] = retry[e] + 1]
        BY <2>4 DEF MarkFailed, CountRetry
      <4>2. retry \in [Event -> Nat]
        BY DEF TypeOK
      <4>3. retry' = [x \in Event |-> IF x = e THEN retry[x] + 1 ELSE retry[x]]
        <5> HIDE DEF e
        <5> QED BY <4>1, <4>2
      <4>4. \A x \in Event : (IF x = e THEN retry[x] + 1 ELSE retry[x]) \in Nat
        BY <4>2
      <4> QED BY <4>3, <4>4
    <3> QED BY <2>2, <2>4, <3>1, <3>2 DEF MarkFailed, fileVars, TypeOK
  <2> QED BY <1>9, <2>3, <2>4
<1>10. ASSUME NEW p \in Proc, EndRun(p) \/ Crash(p) PROVE TypeOK'
  <2>1. run' \in [Proc -> Run]
    BY <1>10, IdleType, BecomeType DEF EndRun, Crash
  <2> QED BY <1>10, <2>1 DEF EndRun, Crash, Release, fileVars, queueVars, TypeOK
<1>11. ASSUME NEW w \in Worker, NEW S \in SUBSET Event, BackfillSelect(w, S) PROVE TypeOK'
  <2>1. w \in Proc
    BY DEF Proc
  <2>2. run' \in [Proc -> Run]
    BY <1>11, <2>1, StepFields, BecomeType DEF BackfillSelect
  <2> QED BY <1>11, <2>2 DEF BackfillSelect, TakeLock, fileVars, queueVars, TypeOK
<1>12. ASSUME NEW w \in Worker, BackfillInsert(w) PROVE TypeOK'
  <2>1. w \in Proc /\ run[w].rows \in SUBSET Event
    BY DEF Run, Proc, TypeOK
  <2>2. run' \in [Proc -> Run]
    BY <1>12, <2>1, IdleType, BecomeType DEF BackfillInsert
  <2> QED BY <1>12, <2>1, <2>2, InsertPendingType DEF BackfillInsert, Release, fileVars, TypeOK
<1>13. ASSUME NEW e \in Result, PersistResult(e) PROVE TypeOK'
  <2>1. {e} \in SUBSET Event
    OBVIOUS
  <2> QED BY <1>13, <2>1, InsertPendingType DEF PersistResult, fileVars, TypeOK
<1>14. CASE UNCHANGED vars
  BY <1>14 DEF vars, TypeOK
<1> QED
  BY <1>1, <1>2, <1>3, <1>4, <1>5, <1>6, <1>7, <1>8, <1>9, <1>10, <1>11, <1>12, <1>13, <1>14
     DEF Next, RunStep, SyncStep, BackfillStep, Proc

(* Every row, file and process variable keeps its type.                    *)
THEOREM TypeCorrect == Spec => []TypeOK
BY InitType, StepType, PTL DEF Spec

---------------------------------------------------------------------------
(* The lock.                                                               *)

(* The process that moves in a step is the only one that changes.          *)
LEMMA Moves ==
  ASSUME TypeOK, NEW p \in Proc, NEW r, Become(p, r)
  PROVE  /\ run'[p] = r
         /\ \A q \in Proc : q # p => run'[q] = run[q]
BY DEF TypeOK, Become

(* An ingest that opened the file goes on to commit.                       *)
LEMMA IngestOpenRun ==
  ASSUME TypeOK, NEW p \in Proc, IngestOpen(p)
  PROVE  \E r : Become(p, r) /\ r.step = "commit"
<1> DEFINE from == IF cursor <= Len(file[gen]) THEN cursor ELSE 0
           r == [run[p] EXCEPT !.step = "commit", !.of = gen, !.from = from,
                               !.atEnd = (from = Len(file[gen]))]
<1>1. Become(p, r)
  BY DEF IngestOpen
<1>2. run[p] \in Run
  BY DEF TypeOK
<1>3. r.step = "commit"
  <2> HIDE DEF from
  <2> QED BY <1>2 DEF Run
<1> HIDE DEF r
<1> QED BY <1>1, <1>3

(* While a worker runs no other does.                                      *)
LEMMA OthersIdle ==
  ASSUME RunsHoldLock, NEW w \in Worker, run[w].step # "idle" \/ lock = None
  PROVE  \A v \in Worker : v # w => run[v].step = "idle"
BY DEF RunsHoldLock, Proc

LEMMA StepLock ==
  TypeOK /\ RunsHoldLock /\ CommandsIngest /\ [Next]_vars
    => RunsHoldLock' /\ CommandsIngest'
<1> SUFFICES ASSUME TypeOK, RunsHoldLock, CommandsIngest, [Next]_vars
             PROVE  RunsHoldLock' /\ CommandsIngest'
  OBVIOUS
<1>1. ASSUME NEW w \in Worker, StartRun(w) \/ (\E S \in SUBSET Event : BackfillSelect(w, S))
      PROVE  RunsHoldLock' /\ CommandsIngest'
  <2>1. lock = None /\ lock' = w
    BY <1>1 DEF StartRun, BackfillSelect, TakeLock
  <2>2. \A q \in Proc : q # w => run'[q] = run[q]
    BY <1>1, Moves DEF StartRun, BackfillSelect, Proc
  <2>3. \A v \in Worker : v # w => run'[v].step = "idle"
    BY <2>1, <2>2, OthersIdle DEF Proc
  <2> QED BY <2>1, <2>2, <2>3 DEF RunsHoldLock, CommandsIngest, Proc
<1>2. ASSUME NEW c \in Command, IngestOpen(c) \/ IngestCommit(c)
      PROVE  RunsHoldLock' /\ CommandsIngest'
  <2>1. c \in Proc /\ c \notin Worker /\ run[c] \in Run
    BY DEF Proc, TypeOK
  <2>2. run'[c].step \in {"idle", "commit"} /\ \A q \in Proc : q # c => run'[q] = run[q]
    <3>1. CASE IngestOpen(c)
      <4>1. PICK r : Become(c, r) /\ r.step = "commit"
        BY <3>1, <2>1, IngestOpenRun
      <4> QED BY <4>1, <2>1, Moves
    <3>2. CASE IngestCommit(c)
      BY <3>2, <2>1, Moves DEF IngestCommit, Idle
    <3> QED BY <1>2, <3>1, <3>2
  <2>3. lock' = lock
    BY <1>2 DEF IngestOpen, IngestCommit
  <2> QED BY <2>1, <2>2, <2>3 DEF RunsHoldLock, CommandsIngest, Proc
<1>3. ASSUME NEW w \in Worker,
             \/ IngestOpen(w) \/ IngestCommit(w) \/ NewEvents(w) \/ Enqueue(w)
             \/ \E S \in SUBSET Event : Select(w, S)
             \/ \E e \in Event, ok \in BOOLEAN : WriteMemory(w, e, ok)
             \/ MarkSynced(w) \/ MarkFailed(w) \/ MarkSkipped(w)
      PROVE  RunsHoldLock' /\ CommandsIngest'
  <2>1. w \in Proc /\ w \notin Command /\ run[w].step # "idle" /\ lock' = lock
    BY <1>3 DEF Proc, IngestOpen, Opening, IngestCommit, NewEvents, Enqueue, Select, WriteMemory,
                MarkSynced, MarkFailed, MarkSkipped
  <2>2. \A q \in Proc : q # w => run'[q] = run[q]
    BY <1>3, <2>1, Moves DEF IngestOpen, IngestCommit, NewEvents, Enqueue, Select,
       WriteMemory, MarkSynced, MarkFailed, MarkSkipped, NextRow, Goto
  <2> QED BY <2>1, <2>2 DEF RunsHoldLock, CommandsIngest, Proc
<1>4. ASSUME NEW p \in Proc, Become(p, Idle), Release(p)
      PROVE  RunsHoldLock' /\ CommandsIngest'
  <2>1. run'[p].step = "idle" /\ \A q \in Proc : q # p => run'[q] = run[q]
    BY <1>4, Moves DEF Idle
  <2>2. lock' = lock \/ (lock = p /\ lock' = None)
    BY <1>4 DEF Release
  <2> QED BY <2>1, <2>2 DEF RunsHoldLock, CommandsIngest, Proc
<1>5. ASSUME UNCHANGED <<run, lock>> PROVE RunsHoldLock' /\ CommandsIngest'
  BY <1>5 DEF RunsHoldLock, CommandsIngest
<1>6. ASSUME NEW p \in Proc, EndRun(p) \/ BackfillInsert(p) \/ Crash(p)
      PROVE  RunsHoldLock' /\ CommandsIngest'
  BY <1>4, <1>6 DEF EndRun, BackfillInsert, Crash
<1>7. ASSUME (\E e \in Event \ Result : WriteLine(e)) \/ (\E e \in Result : PersistResult(e))
             \/ UNCHANGED vars
      PROVE  RunsHoldLock' /\ CommandsIngest'
  BY <1>5, <1>7 DEF WriteLine, PersistResult, vars
<1>8. ASSUME NEW w \in Worker, RunStep(w) \/ BackfillStep(w)
      PROVE  RunsHoldLock' /\ CommandsIngest'
  <2>1. w \in Proc
    BY DEF Proc
  <2> QED BY <1>1, <1>3, <1>6, <1>8, <2>1 DEF RunStep, SyncStep, BackfillStep
<1> QED BY <1>2, <1>6, <1>7, <1>8 DEF Next

---------------------------------------------------------------------------
(* The queue.                                                              *)

(* A step that leaves the queue alone, and brings no worker to its rows.   *)
LEMMA BatchFrame ==
  ASSUME BatchIsDue, sync' = sync, retry' = retry, remote \subseteq remote',
         \A w \in Worker : run'[w] = run[w] \/ run'[w].step \notin {"sync", "mark", "skip"}
  PROVE  BatchIsDue'
<1> SUFFICES ASSUME NEW w \in Worker
             PROVE LET r == run'[w] IN
               /\ r.step \in {"sync", "mark"} => r.rows \subseteq Due'
               /\ r.step \in {"mark", "skip"} => r.cur \in r.rows
               /\ r.step = "mark" /\ r.ok => r.cur \in remote'
               /\ r.step = "skip" =>
                    /\ r.rows \ {r.cur} \subseteq Due'
                    /\ sync'[r.cur] = "failed" /\ retry'[r.cur] = MaxRetries
  BY DEF BatchIsDue
<1>1. Due' = Due
  BY DEF Due
<1>2. CASE run'[w] = run[w]
  BY <1>1, <1>2 DEF BatchIsDue
<1>3. CASE run'[w].step \notin {"sync", "mark", "skip"}
  BY <1>3
<1> QED BY <1>2, <1>3

(* The rows of one worker, when no other has any.                          *)
LEMMA BatchOfOne ==
  ASSUME NEW w \in Worker, \A v \in Worker : v # w => run'[v].step = "idle",
         run'[w].step \in {"sync", "mark"} => run'[w].rows \subseteq Due',
         run'[w].step \in {"mark", "skip"} => run'[w].cur \in run'[w].rows,
         run'[w].step = "mark" /\ run'[w].ok => run'[w].cur \in remote',
         run'[w].step = "skip" =>
           /\ run'[w].rows \ {run'[w].cur} \subseteq Due'
           /\ sync'[run'[w].cur] = "failed" /\ retry'[run'[w].cur] = MaxRetries
  PROVE  BatchIsDue'
BY DEF BatchIsDue

(* What NextRow leaves to do.                                              *)
LEMMA NextRowRun ==
  ASSUME TypeOK, NEW w \in Worker, NextRow(w)
  PROVE  /\ run'[w].step = "sync" /\ run'[w].rows = run[w].rows \ {run[w].cur}
         /\ \A v \in Worker : v # w => run'[v] = run[v]
<1> DEFINE r == [run[w] EXCEPT !.step = "sync", !.rows = @ \ {run[w].cur},
                               !.cur = None, !.ok = FALSE]
<1>1. w \in Proc /\ run[w] \in Run
  BY DEF Proc, TypeOK
<1>2. r.step = "sync" /\ r.rows = run[w].rows \ {run[w].cur}
  BY <1>1 DEF Run
<1>3. Become(w, r)
  BY DEF NextRow
<1> HIDE DEF r
<1> QED BY <1>1, <1>2, <1>3, Moves DEF Proc

(* The row a worker marks is due, and so are the others it has left.       *)
LEMMA MarkedRow ==
  ASSUME QueueInv, NEW w \in Worker, run[w].step = "mark"
  PROVE  /\ run[w].cur \in run[w].rows /\ run[w].rows \subseteq Due
         /\ run[w].cur \in Event /\ retry[run[w].cur] < MaxRetries
         /\ sync[run[w].cur] \in {"pending", "failed"}
         /\ run[w].ok => run[w].cur \in remote
BY DEF QueueInv, BatchIsDue, Due

LEMMA MarkFailedRun ==
  ASSUME QueueInv, NEW w \in Worker, MarkFailed(w)
  PROVE  LET e == run[w].cur IN
         /\ sync' = [sync EXCEPT ![e] = "failed"]
         /\ retry' = [retry EXCEPT ![e] = retry[e] + 1]
         /\ \/ run'[w].step = "sync" /\ run'[w].rows = run[w].rows \ {e}
            \/ /\ run'[w].step = "skip" /\ run'[w].rows = run[w].rows /\ run'[w].cur = e
               /\ retry[e] + 1 = MaxRetries
<1>1. w \in Proc /\ run[w] \in Run /\ TypeOK
  BY DEF Proc, TypeOK, QueueInv
<1>2. retry[run[w].cur] \in Nat /\ retry[run[w].cur] < MaxRetries
  BY MarkedRow, <1>1 DEF MarkFailed, TypeOK
<1>3. CASE retry[run[w].cur] + 1 >= MaxRetries
  <2>1. run'[w] = [run[w] EXCEPT !.step = "skip"]
    BY <1>1, <1>3, Moves DEF MarkFailed, Goto
  <2>2. retry[run[w].cur] + 1 = MaxRetries
    BY <1>2, <1>3
  <2> QED BY <1>1, <2>1, <2>2 DEF MarkFailed, CountRetry, Run
<1>4. CASE ~(retry[run[w].cur] + 1 >= MaxRetries)
  BY <1>1, <1>4, NextRowRun DEF MarkFailed, CountRetry
<1> QED BY <1>3, <1>4

LEMMA StepBatch == QueueInv /\ [Next]_vars => BatchIsDue'
<1> SUFFICES ASSUME QueueInv, [Next]_vars PROVE BatchIsDue'
  OBVIOUS
<1>0. TypeOK /\ RunsHoldLock /\ CommandsIngest /\ BatchIsDue
  BY DEF QueueInv
<1>1. ASSUME NEW w \in Worker, run[w].step # "idle",
             \A v \in Proc : v # w => run'[v] = run[v]
      PROVE  \A v \in Worker : v # w => run'[v].step = "idle"
  BY <1>0, <1>1, OthersIdle DEF Proc
<1>2. ASSUME NEW w \in Worker, NEW S \in SUBSET Event, Select(w, S) PROVE BatchIsDue'
  <2>1. w \in Proc /\ run[w] \in Run
    BY <1>0 DEF Proc, TypeOK
  <2>2. run'[w].step = "sync" /\ run'[w].rows = S
    <3>1. run'[w] = [run[w] EXCEPT !.step = "sync", !.rows = S]
      BY <1>0, <1>2, <2>1, Moves DEF Select
    <3> QED BY <2>1, <3>1 DEF Run
  <2>3. S \subseteq Due /\ Due' = Due
    BY <1>2 DEF Select, Batch, Due, queueVars
  <2>4. \A v \in Worker : v # w => run'[v].step = "idle"
    BY <1>0, <1>1, <1>2, <2>1, Moves DEF Select
  <2> QED BY <2>2, <2>3, <2>4, BatchOfOne
<1>3. ASSUME NEW w \in Worker, NEW e \in Event, NEW ok \in BOOLEAN, WriteMemory(w, e, ok)
      PROVE BatchIsDue'
  <2>1. w \in Proc /\ run[w] \in Run
    BY <1>0 DEF Proc, TypeOK
  <2>2. /\ run'[w].step = "mark" /\ run'[w].rows = run[w].rows
        /\ run'[w].cur = e /\ run'[w].ok = ok
    <3>1. run'[w] = [run[w] EXCEPT !.step = "mark", !.cur = e, !.ok = ok]
      BY <1>0, <1>3, <2>1, Moves DEF WriteMemory
    <3> QED BY <2>1, <3>1 DEF Run
  <2>3. e \in run[w].rows /\ run[w].rows \subseteq Due /\ Due' = Due
    BY <1>0, <1>3 DEF WriteMemory, BatchIsDue, Due, queueVars
  <2>4. ok => e \in remote'
    BY <1>3 DEF WriteMemory
  <2>5. \A v \in Worker : v # w => run'[v].step = "idle"
    BY <1>0, <1>1, <1>3, <2>1, Moves DEF WriteMemory
  <2> QED BY <2>2, <2>3, <2>4, <2>5, BatchOfOne
<1>4. ASSUME NEW w \in Worker, MarkSynced(w) PROVE BatchIsDue'
  <2>1. w \in Proc
    BY DEF Proc
  <2>2. run'[w].step = "sync" /\ run'[w].rows = run[w].rows \ {run[w].cur}
    BY <1>0, <1>4, NextRowRun DEF MarkSynced
  <2>3. run[w].rows \subseteq Due
    BY <1>4, MarkedRow DEF MarkSynced
  <2>4. run[w].rows \ {run[w].cur} \subseteq Due'
    BY <1>0, <1>4, <2>3 DEF MarkSynced, Due, TypeOK
  <2>5. \A v \in Worker : v # w => run'[v].step = "idle"
    BY <1>0, <1>1, <1>4, <2>1, Moves DEF MarkSynced, NextRow
  <2> QED BY <2>2, <2>4, <2>5, BatchOfOne
<1>5. ASSUME NEW w \in Worker, MarkFailed(w) PROVE BatchIsDue'
  <2> DEFINE e == run[w].cur
  <2>1. w \in Proc
    BY DEF Proc
  <2>2. /\ e \in run[w].rows /\ run[w].rows \subseteq Due /\ e \in Event
    BY <1>5, MarkedRow DEF MarkFailed
  <2>3. run[w].rows \ {e} \subseteq Due'
    BY <1>0, <1>5, <2>2, MarkFailedRun DEF Due, TypeOK
  <2>4. sync'[e] = "failed" /\ retry'[e] = retry[e] + 1
    BY <1>0, <1>5, <2>2, MarkFailedRun DEF TypeOK
  <2>5. \A v \in Worker : v # w => run'[v].step = "idle"
    BY <1>0, <1>1, <1>5, <2>1, Moves DEF MarkFailed, NextRow, Goto
  <2> QED BY <1>5, <2>2, <2>3, <2>4, <2>5, BatchOfOne, MarkFailedRun
<1>6. ASSUME NEW w \in Worker, MarkSkipped(w) PROVE BatchIsDue'
  <2>1. w \in Proc
    BY DEF Proc
  <2>2. run'[w].step = "sync" /\ run'[w].rows = run[w].rows \ {run[w].cur}
    BY <1>0, <1>6, NextRowRun DEF MarkSkipped
  <2>3. run[w].rows \ {run[w].cur} \subseteq Due
    BY <1>0, <1>6 DEF MarkSkipped, BatchIsDue
  <2>4. run[w].rows \ {run[w].cur} \subseteq Due'
    BY <1>0, <1>6, <2>3 DEF MarkSkipped, Due, TypeOK
  <2>5. \A v \in Worker : v # w => run'[v].step = "idle"
    BY <1>0, <1>1, <1>6, <2>1, Moves DEF MarkSkipped, NextRow
  <2> QED BY <2>2, <2>4, <2>5, BatchOfOne
<1>7. ASSUME NEW w \in Worker, Enqueue(w) \/ BackfillInsert(w) PROVE BatchIsDue'
  <2>1. w \in Proc /\ run[w] \in Run /\ run[w].step # "idle"
    BY <1>0, <1>7 DEF Proc, TypeOK, Enqueue, BackfillInsert
  <2>2. run'[w].step \in {"select", "idle"}
    <3>1. CASE Enqueue(w)
      <4>1. run'[w] = [run[w] EXCEPT !.step = "select", !.rows = {}]
        BY <1>0, <2>1, <3>1, Moves DEF Enqueue
      <4> QED BY <2>1, <4>1 DEF Run
    <3>2. CASE BackfillInsert(w)
      BY <1>0, <2>1, <3>2, Moves DEF BackfillInsert, Idle
    <3> QED BY <1>7, <3>1, <3>2
  <2>3. \A v \in Worker : v # w => run'[v].step = "idle"
    BY <1>0, <1>1, <1>7, <2>1, Moves DEF Enqueue, BackfillInsert
  <2> QED BY <2>2, <2>3, BatchOfOne
<1>8. ASSUME NEW e \in Result, PersistResult(e) PROVE BatchIsDue'
  <2>1. run' = run /\ remote' = remote
    BY <1>8 DEF PersistResult
  <2>2. retry' = retry /\ \A x \in Event : sync'[x] # sync[x] => sync[x] = "absent"
    BY <1>0, <1>8, InsertPendingType DEF PersistResult
  <2>3. Due \subseteq Due'
    BY <2>2 DEF Due
  <2>4. \A w \in Worker : run[w].step = "skip" => sync'[run[w].cur] = "failed"
    BY <1>0, <2>2 DEF BatchIsDue, TypeOK, Run, Proc
  <2> QED BY <1>0, <2>1, <2>2, <2>3, <2>4 DEF BatchIsDue
<1>9. ASSUME NEW w \in Worker,
             \/ StartRun(w) \/ IngestOpen(w) \/ IngestCommit(w) \/ NewEvents(w)
             \/ \E S \in SUBSET Event : BackfillSelect(w, S)
      PROVE  BatchIsDue'
  <2>1. w \in Proc /\ run[w] \in Run
    BY <1>0 DEF Proc, TypeOK
  <2>2. run'[w].step \notin {"sync", "mark", "skip"}
    <3>1. CASE IngestOpen(w)
      BY <1>0, <2>1, <3>1, IngestOpenRun, Moves
    <3>2. CASE NewEvents(w)
      <4> DEFINE fresh == events \ run[w].before
                 next == IF fresh = {} THEN "select" ELSE "enqueue"
      <4>1. run'[w] = [run[w] EXCEPT !.rows = fresh, !.before = {}, !.step = next]
        BY <1>0, <2>1, <3>2, Moves DEF NewEvents
      <4>2. next \in {"select", "enqueue"}
        OBVIOUS
      <4> HIDE DEF fresh, next
      <4> QED BY <2>1, <4>1, <4>2 DEF Run
    <3>3. CASE StartRun(w)
      <4>1. run'[w] = [Idle EXCEPT !.step = "open", !.before = events]
        BY <1>0, <2>1, <3>3, Moves DEF StartRun
      <4> QED BY <4>1 DEF Idle
    <3>4. CASE IngestCommit(w)
      <4>1. run'[w] = [run[w] EXCEPT !.step = "new"]
        BY <1>0, <2>1, <3>4, Moves DEF IngestCommit, Goto
      <4> QED BY <2>1, <4>1 DEF Run
    <3>5. ASSUME NEW S \in SUBSET Event, BackfillSelect(w, S)
          PROVE  run'[w].step \notin {"sync", "mark", "skip"}
      <4>1. run'[w] = [Idle EXCEPT !.step = "backfill", !.rows = S]
        BY <1>0, <2>1, <3>5, Moves DEF BackfillSelect
      <4> QED BY <4>1 DEF Idle
    <3> QED BY <1>9, <3>1, <3>2, <3>3, <3>4, <3>5
  <2>3. \A v \in Worker : v # w => run'[v] = run[v]
    BY <1>0, <1>9, <2>1, Moves DEF StartRun, IngestOpen, IngestCommit, NewEvents,
       BackfillSelect, Goto, Proc
  <2>4. sync' = sync /\ retry' = retry /\ remote' = remote
    BY <1>9 DEF StartRun, IngestOpen, IngestCommit, NewEvents, BackfillSelect, queueVars
  <2> QED BY <1>0, <2>2, <2>3, <2>4, BatchFrame
<1>10. ASSUME NEW c \in Command, IngestOpen(c) \/ IngestCommit(c) PROVE BatchIsDue'
  <2>1. c \in Proc /\ c \notin Worker
    BY DEF Proc
  <2>2. \A v \in Worker : run'[v] = run[v]
    BY <1>0, <1>10, <2>1, Moves DEF IngestOpen, IngestCommit, Proc
  <2>3. sync' = sync /\ retry' = retry /\ remote' = remote
    BY <1>10 DEF IngestOpen, IngestCommit, queueVars
  <2> QED BY <1>0, <2>2, <2>3, BatchFrame
<1>11. ASSUME NEW p \in Proc, EndRun(p) \/ Crash(p) PROVE BatchIsDue'
  <2>1. run'[p].step = "idle" /\ \A v \in Worker : v # p => run'[v] = run[v]
    BY <1>0, <1>11, Moves DEF EndRun, Crash, Idle, Proc
  <2>2. sync' = sync /\ retry' = retry /\ remote' = remote
    BY <1>11 DEF EndRun, Crash, queueVars
  <2> QED BY <1>0, <2>1, <2>2, BatchFrame
<1>12. ASSUME (\E e \in Event \ Result : WriteLine(e)) \/ UNCHANGED vars PROVE BatchIsDue'
  <2>1. sync' = sync /\ retry' = retry /\ remote' = remote /\ run' = run
    BY <1>12 DEF WriteLine, vars, queueVars
  <2> QED BY <1>0, <2>1, BatchFrame
<1>13. ASSUME NEW w \in Worker, RunStep(w) \/ BackfillStep(w) PROVE BatchIsDue'
  <2>1. w \in Proc
    BY DEF Proc
  <2> QED BY <1>2, <1>3, <1>4, <1>5, <1>6, <1>7, <1>9, <1>11, <1>13, <2>1
          DEF RunStep, SyncStep, BackfillStep
<1> QED BY <1>8, <1>10, <1>11, <1>12, <1>13 DEF Next

(* Only the rows of the queue decide whether the retries are counted.      *)
LEMMA RetriesFrame ==
  ASSUME RetriesCounted, sync' = sync, retry' = retry
  PROVE  RetriesCounted'
BY DEF RetriesCounted

(* A row that leaves "absent" has failed as often as before: never.        *)
LEMMA InsertRetries ==
  ASSUME TypeOK, RetriesCounted, NEW S \in SUBSET Event, InsertPending(S)
  PROVE  RetriesCounted'
BY InsertPendingType DEF RetriesCounted

LEMMA StepRetries == QueueInv /\ [Next]_vars => RetriesCounted'
<1> SUFFICES ASSUME QueueInv, [Next]_vars PROVE RetriesCounted'
  OBVIOUS
<1>0. TypeOK /\ RetriesCounted /\ BatchIsDue
  BY DEF QueueInv
<1>1. ASSUME NEW w \in Worker, Enqueue(w) \/ BackfillInsert(w) PROVE RetriesCounted'
  <2>1. run[w].rows \in SUBSET Event
    BY <1>0 DEF TypeOK, Run, Proc
  <2> QED BY <1>0, <1>1, <2>1, InsertRetries DEF Enqueue, BackfillInsert
<1>2. ASSUME NEW e \in Result, PersistResult(e) PROVE RetriesCounted'
  <2>1. {e} \in SUBSET Event
    OBVIOUS
  <2> QED BY <1>0, <1>2, <2>1, InsertRetries DEF PersistResult
<1>3. ASSUME NEW w \in Worker, MarkSynced(w) PROVE RetriesCounted'
  BY <1>0, <1>3 DEF MarkSynced, RetriesCounted, TypeOK
<1>4. ASSUME NEW w \in Worker, MarkFailed(w) PROVE RetriesCounted'
  <2> DEFINE e == run[w].cur
  <2>1. e \in Event /\ retry[e] < MaxRetries
    BY <1>4, MarkedRow DEF MarkFailed
  <2>2. sync' = [sync EXCEPT ![e] = "failed"] /\ retry' = [retry EXCEPT ![e] = retry[e] + 1]
    BY <1>4, MarkFailedRun
  <2> HIDE DEF e
  <2> QED BY <1>0, <2>1, <2>2 DEF RetriesCounted, TypeOK
<1>5. ASSUME NEW w \in Worker, MarkSkipped(w) PROVE RetriesCounted'
  <2> DEFINE e == run[w].cur
  <2>1. e \in Event /\ retry[e] = MaxRetries
    BY <1>0, <1>5 DEF MarkSkipped, BatchIsDue, TypeOK, Run, Proc
  <2>2. sync' = [sync EXCEPT ![e] = "skipped"] /\ retry' = retry
    BY <1>5 DEF MarkSkipped
  <2> HIDE DEF e
  <2> QED BY <1>0, <2>1, <2>2 DEF RetriesCounted, TypeOK
<1>6. ASSUME UNCHANGED queueVars PROVE RetriesCounted'
  BY <1>0, <1>6, RetriesFrame DEF queueVars
<1> QED
  BY <1>1, <1>2, <1>3, <1>4, <1>5, <1>6
     DEF Next, RunStep, SyncStep, BackfillStep, WriteLine, StartRun, IngestOpen, IngestCommit,
         NewEvents, Select, WriteMemory, EndRun, BackfillSelect, Crash, vars, queueVars

LEMMA QueueInvInit == Init => QueueInv
<1> SUFFICES ASSUME Init PROVE QueueInv
  OBVIOUS
<1>1. TypeOK
  BY InitType
<1>2. \A p \in Proc : run[p].step = "idle"
  BY DEF Init, Idle
<1>3. RetriesCounted
  BY DEF Init, RetriesCounted
<1> QED BY <1>1, <1>2, <1>3 DEF QueueInv, RunsHoldLock, CommandsIngest, BatchIsDue, Proc

LEMMA QueueInvInvariant == Spec => []QueueInv
<1>1. QueueInv /\ [Next]_vars => QueueInv'
  BY StepType, StepLock, StepBatch, StepRetries DEF QueueInv
<1> QED BY <1>1, QueueInvInit, PTL DEF Spec

(* The retry count of a row says how often it failed; it is never more     *)
(* than MaxRetries, and a row is skipped only once it has used them all.   *)
THEOREM RetriesAreCounted == Spec => []RetriesCounted
<1>1. QueueInv => RetriesCounted
  BY DEF QueueInv
<1> QED BY <1>1, QueueInvInvariant, PTL

(* With the lock, no run writes the memory of an event that is synced, or  *)
(* was given up, whatever ran since the batch was read.                    *)
THEOREM SettledStaysSettled == Spec => SettledNotRewritten
<1>1. QueueInv /\ [Next]_vars =>
        [\A w \in Worker, e \in Event, ok \in BOOLEAN :
           WriteMemory(w, e, ok) => sync[e] \notin {"synced", "skipped"}]_vars
  BY DEF QueueInv, BatchIsDue, WriteMemory, Due
<1> QED BY <1>1, QueueInvInvariant, PTL DEF Spec, SettledNotRewritten

---------------------------------------------------------------------------
(* The queue that MemoryQueue promises.                                    *)

(* A step that changes neither rows nor the memory is invisible there.     *)
LEMMA QueueStutter ==
  ASSUME sync' = sync, remote' = remote
  PROVE  UNCHANGED Queue!vars
BY DEF Queue!vars, QueueState

LEMMA InsertQueues ==
  ASSUME TypeOK, NEW S \in SUBSET Event, InsertPending(S), remote' = remote
  PROVE  Queue!Next
<1> DEFINE A == {e \in S \cap Syncable : sync[e] = "absent"}
<1>1. A \in SUBSET Event /\ \A e \in A : QueueState[e] = "absent"
  BY DEF QueueState
<1>2. QueueState' = [e \in Event |-> IF e \in A THEN "queued" ELSE QueueState[e]]
  BY DEF InsertPending, QueueState
<1>3. Queue!Enqueue(A)
  <2> HIDE DEF A
  <2> QED BY <1>1, <1>2 DEF Queue!Enqueue
<1> HIDE DEF A
<1> QED BY <1>1, <1>3 DEF Queue!Next

LEMMA StepQueue == QueueInv /\ [Next]_vars => [Queue!Next]_(Queue!vars)
<1> SUFFICES ASSUME QueueInv, [Next]_vars PROVE Queue!Next \/ UNCHANGED Queue!vars
  OBVIOUS
<1>0. TypeOK /\ BatchIsDue
  BY DEF QueueInv
<1>1. ASSUME NEW w \in Worker, Enqueue(w) \/ BackfillInsert(w) PROVE Queue!Next
  <2>1. run[w].rows \in SUBSET Event
    BY <1>0 DEF TypeOK, Run, Proc
  <2> QED BY <1>0, <1>1, <2>1, InsertQueues DEF Enqueue, BackfillInsert
<1>2. ASSUME NEW e \in Result, PersistResult(e) PROVE Queue!Next
  <2>1. {e} \in SUBSET Event
    OBVIOUS
  <2> QED BY <1>0, <1>2, <2>1, InsertQueues DEF PersistResult
<1>3. ASSUME NEW w \in Worker, NEW e \in Event, NEW ok \in BOOLEAN, WriteMemory(w, e, ok)
      PROVE  Queue!Next \/ UNCHANGED Queue!vars
  <2>1. CASE remote' = remote
    BY <1>3, <2>1, QueueStutter DEF WriteMemory, queueVars
  <2>2. CASE remote' = remote \cup {e}
    <3>1. QueueState[e] = "queued"
      BY <1>0, <1>3 DEF QueueState, WriteMemory, BatchIsDue, Due
    <3>2. QueueState' = QueueState
      BY <1>3 DEF QueueState, WriteMemory, queueVars
    <3> QED BY <2>2, <3>1, <3>2 DEF Queue!Next, Queue!Store
  <2> QED BY <1>3, <2>1, <2>2 DEF WriteMemory
<1>4. ASSUME NEW w \in Worker, MarkSynced(w) PROVE Queue!Next
  <2> DEFINE e == run[w].cur
  <2>1. e \in Event /\ sync[e] \in {"pending", "failed"} /\ e \in remote
    BY <1>4, MarkedRow DEF MarkSynced
  <2>2. sync' = [sync EXCEPT ![e] = "synced"] /\ remote' = remote
    BY <1>4 DEF MarkSynced
  <2> HIDE DEF e
  <2>3. QueueState' = [QueueState EXCEPT ![e] = "synced"] /\ QueueState[e] = "queued"
    BY <1>0, <2>1, <2>2 DEF QueueState, TypeOK
  <2> QED BY <2>1, <2>2, <2>3 DEF Queue!Next, Queue!Settle, Queue!Move
<1>5. ASSUME NEW w \in Worker, MarkFailed(w) PROVE UNCHANGED Queue!vars
  <2> DEFINE e == run[w].cur
  <2>1. e \in Event /\ sync[e] \in {"pending", "failed"}
    BY <1>5, MarkedRow DEF MarkFailed
  <2>2. sync' = [sync EXCEPT ![e] = "failed"] /\ remote' = remote
    BY <1>5 DEF MarkFailed
  <2> HIDE DEF e
  <2>3. QueueState' = QueueState
    BY <1>0, <2>1, <2>2 DEF QueueState, TypeOK
  <2> QED BY <2>2, <2>3 DEF Queue!vars
<1>6. ASSUME NEW w \in Worker, MarkSkipped(w) PROVE Queue!Next
  <2> DEFINE e == run[w].cur
  <2>1. e \in Event /\ sync[e] = "failed"
    BY <1>0, <1>6 DEF MarkSkipped, BatchIsDue, TypeOK, Run, Proc
  <2>2. sync' = [sync EXCEPT ![e] = "skipped"] /\ remote' = remote
    BY <1>6 DEF MarkSkipped
  <2> HIDE DEF e
  <2>3. QueueState' = [QueueState EXCEPT ![e] = "skipped"] /\ QueueState[e] = "queued"
    BY <1>0, <2>1, <2>2 DEF QueueState, TypeOK
  <2> QED BY <2>1, <2>2, <2>3 DEF Queue!Next, Queue!GiveUp, Queue!Move
<1>7. ASSUME sync' = sync, remote' = remote PROVE UNCHANGED Queue!vars
  BY <1>7, QueueStutter
<1> QED
  BY <1>1, <1>2, <1>3, <1>4, <1>5, <1>6, <1>7
     DEF Next, RunStep, SyncStep, BackfillStep, WriteLine, StartRun, IngestOpen, IngestCommit,
         NewEvents, Select, EndRun, BackfillSelect, Crash, vars, queueVars

(* The worker implements the queue: whatever processes overlap, are killed *)
(* or lose an answer, an event is queued once, is stored only while it is  *)
(* queued, and leaves the queue for good, stored or given up.              *)
THEOREM ImplementsQueue == Spec => QueueSpec
<1>1. Init => Queue!Init
  BY DEF Init, Queue!Init, QueueState
<1> QED BY <1>1, StepQueue, QueueInvInvariant, PTL DEF Spec, QueueSpec, Queue!Spec

---------------------------------------------------------------------------
(* The cursor, until the file is rotated.                                  *)

(* A step that ingests nothing, and leaves every line where it is.         *)
LEMMA CursorFrame ==
  ASSUME CursorInv, gen = 0, cursor' = cursor, events \subseteq events',
         file[0] \in Seq(Event), file'[0] \in Seq(Event),
         Len(file[0]) <= Len(file'[0]),
         \A k \in 1..Len(file[0]) : file'[0][k] = file[0][k],
         \A p \in Proc : run'[p] = run[p] \/ run'[p].step # "commit"
  PROVE  SkippedIngested' /\ NothingBehindCursor'
<1>1. NothingBehindCursor'
  <2>1. cursor \in Nat /\ Len(file[0]) \in Nat /\ Len(file'[0]) \in Nat
    BY DEF CursorInv, TypeOK, Generation
  <2>2. cursor <= Len(file[0]) /\ \A k \in 1..cursor : file[0][k] \in events
    BY DEF CursorInv, NothingBehindCursor
  <2>3. cursor <= Len(file'[0]) /\ \A k \in 1..cursor : file'[0][k] \in events'
    <3>1. \A k \in 1..cursor : k \in 1..Len(file[0])
      BY <2>1, <2>2
    <3> QED BY <2>1, <2>2, <3>1
  <2> QED BY <2>3 DEF NothingBehindCursor
<1>2. ASSUME NEW p \in Proc, run'[p].step = "commit"
      PROVE  run'[p].of = 0 /\ run'[p].from <= Len(file'[0])
             /\ \A k \in 1..run'[p].from : file'[0][k] \in events'
  <2>1. run'[p] = run[p] /\ run[p].from \in Nat
    BY <1>2 DEF CursorInv, TypeOK, Run
  <2>2. run[p].of = 0 /\ run[p].from <= Len(file[0])
        /\ \A k \in 1..run[p].from : file[0][k] \in events
    BY <1>2, <2>1 DEF CursorInv, SkippedIngested
  <2> QED BY <2>1, <2>2
<1> QED BY <1>1, <1>2 DEF SkippedIngested

(* A file that was rotated stays so.                                       *)
LEMMA GenerationsGrow == TypeOK /\ [Next]_vars /\ gen' = 0 => gen = 0
<1> SUFFICES ASSUME TypeOK, [Next]_vars, gen' = 0 PROVE gen = 0
  OBVIOUS
<1>1. gen \in Nat
  BY DEF TypeOK, Generation
<1>2. gen' = gen \/ gen' = gen + 1
  BY DEF Next, RunStep, SyncStep, BackfillStep, WriteLine, PersistResult, StartRun, IngestOpen,
         IngestCommit, NewEvents, Enqueue, Select, WriteMemory, MarkSynced, MarkFailed,
         MarkSkipped, EndRun, BackfillSelect, BackfillInsert, Crash, vars, fileVars
<1> QED BY <1>1, <1>2

LEMMA StepCursor == CursorInv /\ [Next]_vars => CursorInv'
<1> SUFFICES ASSUME CursorInv, [Next]_vars, gen' = 0
             PROVE  SkippedIngested' /\ NothingBehindCursor'
  <2>1. CursorInv /\ [Next]_vars => TypeOK'
    BY StepType DEF CursorInv
  <2> QED BY <2>1 DEF CursorInv, SkippedIngested, NothingBehindCursor
<1>0. TypeOK /\ gen = 0 /\ 0 \in Generation
  BY GenerationsGrow DEF CursorInv, TypeOK, Generation
<1>1. file[0] \in Seq(Event) /\ cursor \in Nat /\ Len(file[0]) \in Nat
  BY <1>0 DEF TypeOK
<1>2. ASSUME NEW e \in Event \ Result, WriteLine(e)
      PROVE  SkippedIngested' /\ NothingBehindCursor'
  <2>1. file' = [file EXCEPT ![0] = Append(file[0], e)]
    BY <1>0, <1>2 DEF WriteLine
  <2>2. file'[0] = Append(file[0], e)
    BY <1>0, <2>1 DEF TypeOK
  <2>3. /\ file'[0] \in Seq(Event) /\ Len(file[0]) <= Len(file'[0])
        /\ \A k \in 1..Len(file[0]) : file'[0][k] = file[0][k]
    BY <1>1, <2>2
  <2>4. cursor' = cursor /\ events' = events /\ run' = run
    BY <1>2 DEF WriteLine
  <2> QED BY <1>0, <1>1, <2>3, <2>4, CursorFrame
<1>3. ASSUME NEW p \in Proc, IngestOpen(p)
      PROVE  SkippedIngested' /\ NothingBehindCursor'
  <2> DEFINE from == IF cursor <= Len(file[gen]) THEN cursor ELSE 0
             r == [run[p] EXCEPT !.step = "commit", !.of = gen, !.from = from,
                                 !.atEnd = (from = Len(file[gen]))]
  <2>1. run'[p] = r /\ \A q \in Proc : q # p => run'[q] = run[q]
    BY <1>0, <1>3, Moves DEF IngestOpen
  <2>2. run[p] \in Run
    BY <1>0 DEF TypeOK
  <2>3. r.of = 0 /\ r.from = from
    <3> HIDE DEF from
    <3> QED BY <1>0, <2>2 DEF Run
  <2>4. from <= Len(file[0]) /\ \A k \in 1..from : file[0][k] \in events
    BY <1>0, <1>1 DEF CursorInv, NothingBehindCursor
  <2>5. UNCHANGED <<file, gen, cursor, events>>
    BY <1>3 DEF IngestOpen, fileVars
  <2> HIDE DEF r, from
  <2> QED BY <1>0, <2>1, <2>3, <2>4, <2>5 DEF CursorInv, SkippedIngested, NothingBehindCursor
<1>4. ASSUME NEW p \in Proc, IngestCommit(p)
      PROVE  SkippedIngested' /\ NothingBehindCursor'
  <2> DEFINE r == run[p]
  <2>1. r \in Run /\ r.of = 0 /\ r.step = "commit"
    BY <1>0, <1>4 DEF TypeOK, CursorInv, SkippedIngested, IngestCommit
  <2>2. r.from \in Nat /\ r.from <= Len(file[0]) /\ \A k \in 1..r.from : file[0][k] \in events
    BY <1>0, <2>1 DEF CursorInv, SkippedIngested, Run
  <2>3. events' = events \cup IngestedEvents(r) /\ cursor' = ScanEnd(r)
        /\ file' = file
    BY <1>4 DEF IngestCommit, fileVars
  <2>4. ScanEnd(r) \in Nat /\ ScanEnd(r) <= Len(file[0])
    BY <1>1, <2>1, <2>2 DEF ScanEnd
  <2>5. ASSUME NEW k \in 1..ScanEnd(r) PROVE file[0][k] \in events'
    <3>1. CASE k <= r.from
      BY <2>2, <2>3, <2>4, <3>1
    <3>2. CASE k > r.from
      <4>1. k \in (r.from + 1)..ScanEnd(r)
        BY <2>2, <2>4, <3>2
      <4> QED BY <2>1, <2>3, <4>1 DEF IngestedEvents
    <3> QED BY <2>2, <2>4, <3>1, <3>2
  <2>6. NothingBehindCursor'
    BY <2>3, <2>4, <2>5 DEF NothingBehindCursor
  <2>7. run'[p].step # "commit" /\ \A q \in Proc : q # p => run'[q] = run[q]
    <3>1. CASE p \in Worker
      <4>1. run'[p] = [r EXCEPT !.step = "new"] /\ \A q \in Proc : q # p => run'[q] = run[q]
        BY <1>0, <1>4, <3>1, Moves DEF IngestCommit, Goto
      <4> QED BY <2>1, <4>1 DEF Run
    <3>2. CASE p \notin Worker
      BY <1>0, <1>4, <3>2, Moves DEF IngestCommit, Idle
    <3> QED BY <3>1, <3>2
  <2>8. SkippedIngested'
    BY <1>0, <2>3, <2>7 DEF SkippedIngested, CursorInv
  <2> QED BY <2>6, <2>8
<1>5. ASSUME UNCHANGED <<file, cursor>>, events \subseteq events',
             \A p \in Proc : run'[p] = run[p] \/ run'[p].step # "commit"
      PROVE  SkippedIngested' /\ NothingBehindCursor'
  BY <1>0, <1>1, <1>5, CursorFrame
<1>6. ASSUME NEW p \in Proc, NEW r, Become(p, r), r.step # "commit",
             UNCHANGED <<fileVars, cursor, events>>
      PROVE  SkippedIngested' /\ NothingBehindCursor'
  BY <1>0, <1>5, <1>6, Moves DEF fileVars
<1>7. ASSUME NEW w \in Worker, RunStep(w) \/ BackfillStep(w)
      PROVE  SkippedIngested' /\ NothingBehindCursor'
  <2>1. w \in Proc /\ run[w] \in Run
    BY <1>0 DEF TypeOK, Proc
  <2>2. CASE StartRun(w) \/ \E S \in SUBSET Event : BackfillSelect(w, S)
    <3>1. /\ [Idle EXCEPT !.step = "open", !.before = events].step # "commit"
          /\ \A S : [Idle EXCEPT !.step = "backfill", !.rows = S].step # "commit"
      BY DEF Idle
    <3> QED BY <1>6, <2>1, <2>2, <3>1 DEF StartRun, BackfillSelect, fileVars
  <2>3. CASE NewEvents(w)
    <3> DEFINE fresh == events \ run[w].before
               next == IF fresh = {} THEN "select" ELSE "enqueue"
               r == [run[w] EXCEPT !.rows = fresh, !.before = {}, !.step = next]
    <3>1. r.step # "commit"
      <4>1. next # "commit"
        OBVIOUS
      <4> HIDE DEF fresh, next
      <4> QED BY <2>1, <4>1 DEF Run
    <3>2. Become(w, r) /\ UNCHANGED <<fileVars, cursor, events>>
      BY <2>3 DEF NewEvents
    <3> HIDE DEF r
    <3> QED BY <1>6, <2>1, <3>1, <3>2
  <2>4. CASE Enqueue(w) \/ \E S \in SUBSET Event : Select(w, S)
    <3>1. \A S : /\ [run[w] EXCEPT !.step = "select", !.rows = S].step # "commit"
                /\ [run[w] EXCEPT !.step = "sync", !.rows = S].step # "commit"
      BY <2>1 DEF Run
    <3> QED BY <1>6, <2>1, <2>4, <3>1 DEF Enqueue, Select, fileVars
  <2>5. CASE \E e \in Event, ok \in BOOLEAN : WriteMemory(w, e, ok)
    <3>1. \A e, ok : [run[w] EXCEPT !.step = "mark", !.cur = e, !.ok = ok].step # "commit"
      BY <2>1 DEF Run
    <3> QED BY <1>6, <2>1, <2>5, <3>1 DEF WriteMemory, fileVars
  <2>6. CASE MarkSynced(w) \/ MarkFailed(w) \/ MarkSkipped(w)
    <3>1. /\ [run[w] EXCEPT !.step = "sync", !.rows = @ \ {run[w].cur},
                             !.cur = None, !.ok = FALSE].step # "commit"
          /\ [run[w] EXCEPT !.step = "skip"].step # "commit"
      BY <2>1 DEF Run
    <3> QED BY <1>6, <2>1, <2>6, <3>1
            DEF MarkSynced, MarkFailed, MarkSkipped, NextRow, Goto, fileVars
  <2>7. CASE EndRun(w) \/ BackfillInsert(w)
    BY <1>6, <2>1, <2>7 DEF EndRun, BackfillInsert, Idle, fileVars
  <2> QED BY <1>3, <1>4, <1>7, <2>1, <2>2, <2>3, <2>4, <2>5, <2>6, <2>7
          DEF RunStep, SyncStep, BackfillStep
<1>8. ASSUME NEW p \in Proc, Crash(p) PROVE SkippedIngested' /\ NothingBehindCursor'
  BY <1>6, <1>8 DEF Crash, Idle, fileVars
<1>9. CASE (\E e \in Result : PersistResult(e)) \/ UNCHANGED vars
  BY <1>5, <1>9 DEF PersistResult, vars, fileVars
<1> QED
  BY <1>2, <1>3, <1>4, <1>7, <1>8, <1>9 DEF Next, Proc

(* Until the file is rotated, no line before the cursor is lost:           *)
(* whichever ingests of workers and status commands overlap, whichever of  *)
(* them writes an offset older than the one it replaces or is killed.      *)
THEOREM NoLineIsLost == Spec => []NothingBehindCursor
<1>1. Init => CursorInv
  <2> SUFFICES ASSUME Init PROVE CursorInv
    OBVIOUS
  <2>1. TypeOK
    BY InitType
  <2>2. SkippedIngested
    BY DEF Init, SkippedIngested, Idle
  <2>3. NothingBehindCursor
    BY <2>1 DEF Init, NothingBehindCursor, TypeOK
  <2> QED BY <2>1, <2>2, <2>3 DEF CursorInv
<1>2. CursorInv => NothingBehindCursor
  BY DEF CursorInv
<1> QED BY <1>1, <1>2, StepCursor, PTL DEF Spec

=============================================================================
