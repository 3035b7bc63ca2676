-------------------------- MODULE TaskServiceProofs --------------------------
(***************************************************************************)
(* Theorems about the task service: each safety property that the runs     *)
(* check on small instances, for every value of the constants.             *)
(*                                                                         *)
(* First, which steps write which table: the case splits that the proofs   *)
(* of the invariants share.  Then the inductive invariant IInv of          *)
(* TaskInvariant: one lemma for each of its parts, one step of the lemma   *)
(* for each write.  The theorems come last.                                *)
(***************************************************************************)
EXTENDS TaskInvariant, TLAPS

---------------------------------------------------------------------------
(* Which steps write which table.                                          *)

(* The columns of table tasks without the heartbeat.                       *)
taskRows == <<status, assignee, activeRun, parent, deps, system, timedOut,
              attempts>>

(* The writes of a request to table tasks.                                 *)
RowWrite(p) ==
  \/ \E t \in Task, a \in Agent \cup {None}, par \in ParentInputs,
        ds \in DepInputs : CreateWrite(p, t, a, par, ds)
  \/ DelegateWrite(p) \/ CancelWrite(p)
  \/ StartWrite(p) \/ ResumeWrite(p)
  \/ \E v \in Task : SubmitCommit(p, v)
  \/ \E approve \in BOOLEAN : ReviewWrite(p, approve)
  \/ FailWrite(p)

(* The steps after which a request is still in flight.                     *)
RequestMove(p) ==
  \/ CreateRead(p)
  \/ \E t \in Task, a \in Agent : DelegateRead(p, t, a) \/ HandoffRead(p, t, a)
  \/ \E t \in Task : CancelRead(p, t) \/ ReviewRead(p, t)
  \/ \E t \in Task, a \in Agent, r \in Run :
        \/ StartRead(p, t, a, r) \/ HeartbeatRead(p, t, a, r)
        \/ SubmitRead(p, t, a, r) \/ FailRead(p, t, a, r)
        \/ \E h \in Handoff \cup {None} : ResumeRead(p, t, a, r, h)
  \/ \E a \in Agent, r \in Run, c \in Ctx : ReportRead(p, a, r, c)
  \/ EnsureRun(p) \/ SubmitUpdate(p) \/ SubmitFind(p) \/ FailCount(p)

(* Only a request's write and the timeout job's UPDATE change a task row.  *)
LEMMA RowFrame ==
  ASSUME [Next]_vars
  PROVE  \/ UNCHANGED taskRows
         \/ \E p \in Proc : RowWrite(p)
         \/ \E j \in Job, t \in Task, r \in Run \cup {None} : WatchdogBlock(j, t, r)
<1> USE DEF taskRows, taskVars
<1>1. ASSUME NEW p \in Proc, OperatorStep(p) PROVE UNCHANGED taskRows \/ RowWrite(p)
  BY <1>1 DEF OperatorStep, RowWrite, CreateRead, DelegateRead, CancelRead
<1>2. ASSUME NEW p \in Proc, RunStep(p) PROVE UNCHANGED taskRows \/ RowWrite(p)
  BY <1>2, ZenonT(30) DEF RunStep, RowWrite, StartRead, ResumeRead, EnsureRun, StartWriteNoRow
<1>3. ASSUME NEW p \in Proc, AgentStep(p) PROVE UNCHANGED taskRows
  BY <1>3 DEF AgentStep, HeartbeatRead, HeartbeatWrite, ReportRead, ReportWrite,
     HandoffRead, HandoffWrite
<1>4. ASSUME NEW p \in Proc, OutcomeStep(p) PROVE UNCHANGED taskRows \/ RowWrite(p)
  BY <1>4 DEF OutcomeStep, RowWrite, SubmitRead, SubmitUpdate, SubmitFind,
     ReviewRead, FailRead, FailCount
<1>5. ASSUME NEW p \in Proc, Abort(p) PROVE UNCHANGED taskRows
  BY <1>5 DEF Abort
<1>6. CASE Archive
  BY <1>6 DEF Archive
<1>7. CASE \E j \in Job : WatchdogStep(j)
  BY <1>7 DEF WatchdogStep, WatchdogScan, WatchdogEndRun, WatchdogStop
<1>8. CASE (\E t \in Task : AgeTask(t)) \/ (\E r \in Run : AgeRun(r))
  BY <1>8 DEF AgeTask, AgeRun
<1>9. CASE UNCHANGED vars
  BY <1>9 DEF vars
<1> QED
  BY <1>1, <1>2, <1>3, <1>4, <1>5, <1>6, <1>7, <1>8, <1>9 DEF Next

(* Only ensureRunExists gives a run its agent; a resume and the timeout    *)
(* job change its status.                                                  *)
LEMMA RunFrame ==
  ASSUME [Next]_vars
  PROVE  \/ UNCHANGED <<runAgent, runStatus>>
         \/ \E p \in Proc : EnsureRun(p)
         \/ UNCHANGED runAgent /\ ((\E p \in Proc : ResumeWrite(p)) \/ \E j \in Job : WatchdogEndRun(j))
<1> USE DEF runVars
<1>1. ASSUME NEW p \in Proc, OperatorStep(p) PROVE UNCHANGED <<runAgent, runStatus>>
  BY <1>1 DEF OperatorStep, CreateRead, CreateWrite, DelegateRead, DelegateWrite,
     CancelRead, CancelWrite
<1>2. ASSUME NEW p \in Proc, RunStep(p)
      PROVE  \/ UNCHANGED <<runAgent, runStatus>> \/ EnsureRun(p)
             \/ UNCHANGED runAgent /\ ResumeWrite(p)
  BY <1>2 DEF RunStep, StartRead, ResumeRead, StartWrite, StartWriteNoRow, ResumeWrite
<1>3. ASSUME NEW p \in Proc, AgentStep(p) PROVE UNCHANGED <<runAgent, runStatus>>
  BY <1>3 DEF AgentStep, HeartbeatRead, HeartbeatWrite, ReportRead, ReportWrite,
     HandoffRead, HandoffWrite
<1>4. ASSUME NEW p \in Proc, OutcomeStep(p) PROVE UNCHANGED <<runAgent, runStatus>>
  BY <1>4 DEF OutcomeStep, SubmitRead, SubmitUpdate, SubmitFind, SubmitCommit,
     ReviewRead, ReviewWrite, FailRead, FailCount, FailWrite
<1>5. ASSUME NEW p \in Proc, Abort(p) PROVE UNCHANGED <<runAgent, runStatus>>
  BY <1>5 DEF Abort
<1>6. CASE Archive
  BY <1>6 DEF Archive
<1>7. CASE \E j \in Job : WatchdogStep(j)
  BY <1>7 DEF WatchdogStep, WatchdogScan, WatchdogBlock, WatchdogEndRun, WatchdogStop
<1>8. CASE (\E t \in Task : AgeTask(t)) \/ (\E r \in Run : AgeRun(r))
  BY <1>8 DEF AgeTask, AgeRun
<1>9. CASE UNCHANGED vars
  BY <1>9 DEF vars
<1> QED
  BY <1>1, <1>2, <1>3, <1>4, <1>5, <1>6, <1>7, <1>8, <1>9 DEF Next

(* Only the timeout job's own steps change its list.                       *)
LEMMA JobFrame ==
  ASSUME [Next]_vars
  PROVE  UNCHANGED jobVars \/ \E j \in Job : WatchdogStep(j)
<1>1. ASSUME NEW p \in Proc, OperatorStep(p) PROVE UNCHANGED jobVars
  BY <1>1 DEF OperatorStep, CreateRead, CreateWrite, DelegateRead, DelegateWrite,
     CancelRead, CancelWrite
<1>2. ASSUME NEW p \in Proc, RunStep(p) PROVE UNCHANGED jobVars
  BY <1>2 DEF RunStep, StartRead, ResumeRead, EnsureRun, StartWrite,
     StartWriteNoRow, ResumeWrite
<1>3. ASSUME NEW p \in Proc, AgentStep(p) PROVE UNCHANGED jobVars
  BY <1>3 DEF AgentStep, HeartbeatRead, HeartbeatWrite, ReportRead, ReportWrite,
     HandoffRead, HandoffWrite
<1>4. ASSUME NEW p \in Proc, OutcomeStep(p) PROVE UNCHANGED jobVars
  BY <1>4 DEF OutcomeStep, SubmitRead, SubmitUpdate, SubmitFind, SubmitCommit,
     ReviewRead, ReviewWrite, FailRead, FailCount, FailWrite
<1>5. ASSUME NEW p \in Proc, Abort(p) PROVE UNCHANGED jobVars
  BY <1>5 DEF Abort
<1>6. CASE Archive
  BY <1>6 DEF Archive
<1>7. CASE (\E t \in Task : AgeTask(t)) \/ (\E r \in Run : AgeRun(r))
  BY <1>7 DEF AgeTask, AgeRun
<1>8. CASE UNCHANGED vars
  BY <1>8 DEF vars
<1> QED
  BY <1>1, <1>2, <1>3, <1>4, <1>5, <1>6, <1>7, <1>8 DEF Next

(* Only a resume and the creation of a handoff change the handoffs.        *)
LEMMA HandoffFrame ==
  ASSUME [Next]_vars
  PROVE  \/ UNCHANGED handoffVars
         \/ \E p \in Proc : ResumeWrite(p) \/ \E h \in Handoff : HandoffWrite(p, h)
<1>1. ASSUME NEW p \in Proc, OperatorStep(p) PROVE UNCHANGED handoffVars
  BY <1>1 DEF OperatorStep, CreateRead, CreateWrite, DelegateRead, DelegateWrite,
     CancelRead, CancelWrite
<1>2. ASSUME NEW p \in Proc, RunStep(p) PROVE UNCHANGED handoffVars \/ ResumeWrite(p)
  BY <1>2 DEF RunStep, StartRead, ResumeRead, EnsureRun, StartWrite, StartWriteNoRow
<1>3. ASSUME NEW p \in Proc, AgentStep(p)
      PROVE  UNCHANGED handoffVars \/ \E h \in Handoff : HandoffWrite(p, h)
  BY <1>3 DEF AgentStep, HeartbeatRead, HeartbeatWrite, ReportRead, ReportWrite,
     HandoffRead
<1>4. ASSUME NEW p \in Proc, OutcomeStep(p) PROVE UNCHANGED handoffVars
  BY <1>4 DEF OutcomeStep, SubmitRead, SubmitUpdate, SubmitFind, SubmitCommit,
     ReviewRead, ReviewWrite, FailRead, FailCount, FailWrite
<1>5. ASSUME NEW p \in Proc, Abort(p) PROVE UNCHANGED handoffVars
  BY <1>5 DEF Abort
<1>6. CASE Archive
  BY <1>6 DEF Archive
<1>7. CASE \E j \in Job : WatchdogStep(j)
  BY <1>7 DEF WatchdogStep, WatchdogScan, WatchdogBlock, WatchdogEndRun, WatchdogStop
<1>8. CASE (\E t \in Task : AgeTask(t)) \/ (\E r \in Run : AgeRun(r))
  BY <1>8 DEF AgeTask, AgeRun
<1>9. CASE UNCHANGED vars
  BY <1>9 DEF vars
<1> QED
  BY <1>1, <1>2, <1>3, <1>4, <1>5, <1>6, <1>7, <1>8, <1>9 DEF Next

(* Only a submit takes and returns a row lock; an aborted request loses    *)
(* its locks.                                                              *)
LEMMA LockFrame ==
  ASSUME [Next]_vars
  PROVE  \/ UNCHANGED lock
         \/ \E p \in Proc : Abort(p) \/ SubmitUpdate(p) \/ \E v \in Task : SubmitCommit(p, v)
<1>1. ASSUME NEW p \in Proc, OperatorStep(p) PROVE UNCHANGED lock
  BY <1>1 DEF OperatorStep, CreateRead, CreateWrite, DelegateRead, DelegateWrite,
     CancelRead, CancelWrite
<1>2. ASSUME NEW p \in Proc, RunStep(p) PROVE UNCHANGED lock
  BY <1>2 DEF RunStep, StartRead, ResumeRead, EnsureRun, StartWrite,
     StartWriteNoRow, ResumeWrite
<1>3. ASSUME NEW p \in Proc, AgentStep(p) PROVE UNCHANGED lock
  BY <1>3 DEF AgentStep, HeartbeatRead, HeartbeatWrite, ReportRead, ReportWrite,
     HandoffRead, HandoffWrite
<1>4. ASSUME NEW p \in Proc, OutcomeStep(p)
      PROVE  UNCHANGED lock \/ SubmitUpdate(p) \/ \E v \in Task : SubmitCommit(p, v)
  BY <1>4 DEF OutcomeStep, SubmitRead, SubmitFind, ReviewRead, ReviewWrite,
     FailRead, FailCount, FailWrite
<1>5. CASE Archive
  BY <1>5 DEF Archive
<1>6. CASE \E j \in Job : WatchdogStep(j)
  BY <1>6 DEF WatchdogStep, WatchdogScan, WatchdogBlock, WatchdogEndRun, WatchdogStop
<1>7. CASE (\E t \in Task : AgeTask(t)) \/ (\E r \in Run : AgeRun(r))
  BY <1>7 DEF AgeTask, AgeRun
<1>8. CASE UNCHANGED vars
  BY <1>8 DEF vars
<1> QED
  BY <1>1, <1>2, <1>3, <1>4, <1>5, <1>6, <1>7, <1>8 DEF Next

(* A request in flight moves by replacing its record.                      *)
LEMMA RequestMoveIsMove ==
  ASSUME NEW p \in Proc, RequestMove(p)
  PROVE  \E q : MoveTo(p, q)
<1>1. ASSUME NEW q, Arrive(p, q) PROVE \E x : MoveTo(p, x)
  BY <1>1 DEF Arrive
<1>2. CASE \/ CreateRead(p)
           \/ \E t \in Task, a \in Agent : DelegateRead(p, t, a) \/ HandoffRead(p, t, a)
           \/ \E t \in Task : CancelRead(p, t) \/ ReviewRead(p, t)
           \/ \E a \in Agent, r \in Run, c \in Ctx : ReportRead(p, a, r, c)
  BY <1>1, <1>2 DEF CreateRead, DelegateRead, HandoffRead, CancelRead, ReviewRead,
     ReportRead
<1>3. ASSUME NEW t \in Task, NEW a \in Agent, NEW r \in Run,
             \/ StartRead(p, t, a, r) \/ HeartbeatRead(p, t, a, r)
             \/ SubmitRead(p, t, a, r) \/ FailRead(p, t, a, r)
             \/ \E h \in Handoff \cup {None} : ResumeRead(p, t, a, r, h)
      PROVE  \E q : MoveTo(p, q)
  BY <1>1, <1>3 DEF StartRead, HeartbeatRead, SubmitRead, FailRead, ResumeRead
<1>4. CASE EnsureRun(p) \/ SubmitUpdate(p) \/ SubmitFind(p) \/ FailCount(p)
  BY <1>4 DEF EnsureRun, SubmitUpdate, SubmitFind, FailCount
<1> QED BY <1>2, <1>3, <1>4 DEF RequestMove

(* A request record changes when the request moves on or ends.             *)
LEMMA RequestFrame ==
  ASSUME TypeOK, [Next]_vars
  PROVE  \/ UNCHANGED req
         \/ \E p \in Proc : MoveTo(p, Idle) \/ RequestMove(p)
<1>1. ASSUME NEW p \in Proc, OperatorStep(p) PROVE MoveTo(p, Idle) \/ RequestMove(p)
  BY <1>1 DEF OperatorStep, RequestMove, CreateWrite, DelegateWrite, CancelWrite, Finish
<1>2. ASSUME NEW p \in Proc, RunStep(p) PROVE MoveTo(p, Idle) \/ RequestMove(p)
  BY <1>2 DEF RunStep, RequestMove, StartWrite, StartWriteNoRow, ResumeWrite, Finish
<1>3. ASSUME NEW p \in Proc, AgentStep(p) PROVE MoveTo(p, Idle) \/ RequestMove(p)
  BY <1>3 DEF AgentStep, RequestMove, HeartbeatWrite, ReportWrite, HandoffWrite, Finish
<1>4. ASSUME NEW p \in Proc, OutcomeStep(p) PROVE MoveTo(p, Idle) \/ RequestMove(p)
  BY <1>4 DEF OutcomeStep, RequestMove, SubmitCommit, ReviewWrite, FailWrite, Finish
<1>5. ASSUME NEW p \in Proc, Abort(p) PROVE MoveTo(p, Idle)
  BY <1>5 DEF Abort, Finish
<1>6. CASE Archive
  BY <1>6 DEF Archive
<1>7. CASE \E j \in Job : WatchdogStep(j)
  BY <1>7 DEF WatchdogStep, WatchdogScan, WatchdogBlock, WatchdogEndRun, WatchdogStop
<1>8. CASE (\E t \in Task : AgeTask(t)) \/ (\E r \in Run : AgeRun(r))
  BY <1>8 DEF AgeTask, AgeRun
<1>9. CASE UNCHANGED vars
  BY <1>9 DEF vars
<1> QED
  BY <1>1, <1>2, <1>3, <1>4, <1>5, <1>6, <1>7, <1>8, <1>9 DEF Next

---------------------------------------------------------------------------
(* The inductive invariant.                                                *)

(* Moving a request on to its next phase keeps it a request.               *)
LEMMA Advance ==
  ASSUME NEW q \in Request, NEW b \in BOOLEAN,
         NEW s \in {"none", "check", "write", "find", "commit"}
  PROVE  /\ [q EXCEPT !.step = s] \in Request
         /\ [q EXCEPT !.step = s, !.last = b] \in Request
         /\ [q EXCEPT !.step = s, !.found = b] \in Request
<1> DEFINE x == [q EXCEPT !.step = s]
<1>1. x \in Request
  BY DEF Request
<1>2. [x EXCEPT !.last = b] \in Request /\ [x EXCEPT !.found = b] \in Request
  BY <1>1, ZenonT(30) DEF Request
<1> QED BY <1>1, <1>2

(* The record of a free slot is a request.                                 *)
LEMMA IdleIsRequest == Idle \in Request
BY DEF Idle, Request, AllOps, Ctx

(* Every step keeps every variable in its type.                            *)
LEMMA TypeStep == TypeOK /\ RequestWellFormed /\ [Next]_vars => TypeOK'
<1> SUFFICES ASSUME TypeOK, RequestWellFormed, [Next]_vars PROVE TypeOK'
  OBVIOUS
<1> USE IdleIsRequest DEF TypeOK, Status, RunStatus, At, Finish, MoveTo,
        taskVars, runVars, handoffVars, jobVars
<1>1. ASSUME NEW p \in Proc, OperatorStep(p) PROVE TypeOK'
  <2>1. CASE CreateRead(p)
    BY <2>1 DEF CreateRead, Arrive, Request, Idle, AllOps, Ctx
  <2>2. ASSUME NEW t \in Task, NEW a \in Agent \cup {None},
      NEW par \in ParentInputs, NEW ds \in DepInputs, CreateWrite(p, t, a,
      par, ds)
        PROVE  TypeOK'
    BY <2>2, InputAssumption DEF CreateWrite
  <2>3. ASSUME NEW t \in Task, NEW a \in Agent, DelegateRead(p, t, a)
        PROVE  TypeOK'
    BY <2>3 DEF DelegateRead, Arrive, Request, Idle, AllOps, Ctx
  <2>4. CASE DelegateWrite(p)
    BY <2>4 DEF DelegateWrite, Request
  <2>5. ASSUME NEW t \in Task, CancelRead(p, t)
        PROVE  TypeOK'
    BY <2>5 DEF CancelRead, Arrive, Request, Idle, AllOps, Ctx
  <2>6. CASE CancelWrite(p)
    BY <2>6 DEF CancelWrite
  <2> QED BY <1>1, <2>1, <2>2, <2>3, <2>4, <2>5, <2>6 DEF OperatorStep
<1>2. ASSUME NEW p \in Proc, RunStep(p) PROVE TypeOK'
  <2>1. ASSUME NEW t \in Task, NEW a \in Agent, NEW r \in Run, StartRead(p,
      t, a, r)
        PROVE  TypeOK'
    BY <2>1 DEF StartRead, Arrive, Request, Idle, AllOps, Ctx
  <2>2. ASSUME NEW t \in Task, NEW a \in Agent, NEW r \in Run,
      NEW h \in Handoff \cup {None}, ResumeRead(p, t, a, r, h)
        PROVE  TypeOK'
    BY <2>2, ZenonT(30) DEF ResumeRead, Arrive, Request, Idle, AllOps, Ctx
  <2>3. CASE EnsureRun(p)
    BY <2>3, Advance DEF EnsureRun, EnsureRunExists, RequestWellFormed
  <2>4. CASE StartWrite(p)
    BY <2>4 DEF StartWrite, PutRun, RequestWellFormed, Request
  <2>5. CASE StartWriteNoRow(p)
    BY <2>5 DEF StartWriteNoRow
  <2>6. CASE ResumeWrite(p)
    BY <2>6 DEF ResumeWrite, PutRun, ConsumeHandoff, EndPreviousRun,
        RequestWellFormed, Request
  <2> QED BY <1>2, <2>1, <2>2, <2>3, <2>4, <2>5, <2>6 DEF RunStep
<1>3. ASSUME NEW p \in Proc, AgentStep(p) PROVE TypeOK'
  <2>1. ASSUME NEW t \in Task, NEW a \in Agent, NEW r \in Run,
      HeartbeatRead(p, t, a, r)
        PROVE  TypeOK'
    BY <2>1 DEF HeartbeatRead, Arrive, Request, Idle, AllOps, Ctx
  <2>2. CASE HeartbeatWrite(p)
    BY <2>2 DEF HeartbeatWrite, RequestWellFormed
  <2>3. ASSUME NEW a \in Agent, NEW r \in Run, NEW c \in Ctx, ReportRead(p,
      a, r, c)
        PROVE  TypeOK'
    BY <2>3, ZenonT(30) DEF ReportRead, Arrive, Request, Idle, AllOps, Ctx
  <2>4. CASE ReportWrite(p)
    BY <2>4 DEF ReportWrite, RequestWellFormed, Request
  <2>5. ASSUME NEW t \in Task, NEW a \in Agent, HandoffRead(p, t, a)
        PROVE  TypeOK'
    BY <2>5 DEF HandoffRead, Arrive, Request, Idle, AllOps, Ctx
  <2>6. ASSUME NEW h \in Handoff, HandoffWrite(p, h)
        PROVE  TypeOK'
    BY <2>6 DEF HandoffWrite, Request, RequestWellFormed
  <2> QED BY <1>3, <2>1, <2>2, <2>3, <2>4, <2>5, <2>6 DEF AgentStep
<1>4. ASSUME NEW p \in Proc, OutcomeStep(p) PROVE TypeOK'
  <2>1. ASSUME NEW t \in Task, NEW a \in Agent, NEW r \in Run, SubmitRead(p,
      t, a, r)
        PROVE  TypeOK'
    BY <2>1 DEF SubmitRead, Arrive, Request, Idle, AllOps, Ctx
  <2>2. CASE SubmitUpdate(p)
    BY <2>2, Advance DEF SubmitUpdate
  <2>3. CASE SubmitFind(p)
    BY <2>3, Advance DEF SubmitFind
  <2>4. ASSUME NEW v \in Task, SubmitCommit(p, v)
        PROVE  TypeOK'
    BY <2>4, ReviewerAssumption, SMTT(20) DEF SubmitCommit, InsertReviewTask,
        RequestWellFormed
  <2>5. ASSUME NEW v \in Task, ReviewRead(p, v)
        PROVE  TypeOK'
    BY <2>5 DEF ReviewRead, Arrive, Request, Idle, AllOps, Ctx
  <2>6. ASSUME NEW approve \in BOOLEAN, ReviewWrite(p, approve)
        PROVE  TypeOK'
    BY <2>6 DEF ReviewWrite
  <2>7. ASSUME NEW t \in Task, NEW a \in Agent, NEW r \in Run, FailRead(p, t,
      a, r)
        PROVE  TypeOK'
    BY <2>7 DEF FailRead, Arrive, Request, Idle, AllOps, Ctx
  <2>8. CASE FailCount(p)
    <3> DEFINE b == attempts[req[p].task] + 1 >= MaxAttempts
    <3>1. req[p] \in Request /\ b \in BOOLEAN
      OBVIOUS
    <3>2. [req[p] EXCEPT !.step = "write", !.last = b] \in Request
      BY <3>1, Advance
    <3> QED BY <2>8, <3>2 DEF FailCount
  <2>9. CASE FailWrite(p)
    BY <2>9 DEF FailWrite, RequestWellFormed
  <2> QED BY <1>4, <2>1, <2>2, <2>3, <2>4, <2>5, <2>6, <2>7, <2>8,
      <2>9 DEF OutcomeStep
<1>5. ASSUME NEW p \in Proc, Abort(p) PROVE TypeOK'
  BY <1>5 DEF Abort
<1>6. CASE Archive
  BY <1>6 DEF Archive
<1>7. ASSUME NEW j \in Job, WatchdogStep(j)
      PROVE  TypeOK'
  <2>1. CASE WatchdogScan(j)
    BY <2>1 DEF WatchdogScan, TimedOutTasks
  <2>2. ASSUME NEW t \in Task, NEW r \in Run \cup {None}, WatchdogBlock(j, t, r)
        PROVE  TypeOK'
    BY <2>2 DEF WatchdogBlock
  <2>3. CASE WatchdogEndRun(j)
    BY <2>3 DEF WatchdogEndRun
  <2>4. CASE WatchdogStop(j)
    BY <2>4 DEF WatchdogStop
  <2> QED BY <1>7, <2>1, <2>2, <2>3, <2>4 DEF WatchdogStep
<1>8. ASSUME NEW t \in Task, AgeTask(t)
      PROVE  TypeOK'
  BY <1>8 DEF AgeTask
<1>9. ASSUME NEW r \in Run, AgeRun(r)
      PROVE  TypeOK'
  BY <1>9 DEF AgeRun
<1>10. CASE UNCHANGED vars
  BY <1>10 DEF vars
<1> QED BY <1>1, <1>2, <1>3, <1>4, <1>5, <1>6, <1>7, <1>8, <1>9,
    <1>10 DEF Next

---------------------------------------------------------------------------
(* Runs, ownership, statuses.                                               *)

(* A run keeps its agent for ever, and runs exist exactly when they have   *)
(* one.                                                                    *)
LEMMA RunsStay ==
  ASSUME TypeOK, RunsHaveAgents, RequestWellFormed, JobNamesRuns, [Next]_vars
  PROVE  /\ \A r \in Run : runAgent[r] # None => runAgent'[r] = runAgent[r]
         /\ RunsHaveAgents'
<1> USE NoneAssumption DEF TypeOK, RunsHaveAgents, RunExists
<1>1. CASE UNCHANGED <<runAgent, runStatus>>
  BY <1>1
<1>2. ASSUME NEW p \in Proc, EnsureRun(p)
      PROVE  /\ \A r \in Run : runAgent[r] # None => runAgent'[r] = runAgent[r]
             /\ RunsHaveAgents'
  BY <1>2 DEF EnsureRun, EnsureRunExists, RequestWellFormed
<1>3. ASSUME NEW p \in Proc, ResumeWrite(p), UNCHANGED runAgent
      PROVE  RunsHaveAgents'
  BY <1>3 DEF ResumeWrite, EndPreviousRun
<1>4. CASE (\E j \in Job : WatchdogEndRun(j)) /\ UNCHANGED runAgent
  BY <1>4 DEF WatchdogEndRun, JobNamesRuns
<1> QED
  BY <1>1, <1>2, <1>3, <1>4, RunFrame

(* The timeout job's list names registered runs: it lists the active runs  *)
(* of running tasks, and those stay registered.                            *)
LEMMA JobStep ==
  ASSUME TypeOK, RunsHaveAgents, RequestWellFormed, JobNamesRuns,
         ActiveRunOwnedByAssignee, [Next]_vars
  PROVE  JobNamesRuns'
<1>1. \A r \in Run : runAgent[r] # None => runAgent'[r] = runAgent[r]
  BY RunsStay
<1>2. CASE UNCHANGED jobVars
  BY <1>1, <1>2 DEF jobVars, JobNamesRuns, TypeOK
<1>3. ASSUME NEW j \in Job, WatchdogStep(j)
      PROVE  JobNamesRuns'
  <2>1. CASE WatchdogScan(j)
    BY <2>1, <1>1 DEF WatchdogScan, TimedOutTasks, JobNamesRuns, TypeOK,
       ActiveRunOwnedByAssignee, RunsHaveAgents
  <2>2. ASSUME NEW t \in Task, NEW r \in Run \cup {None}, WatchdogBlock(j, t, r)
        PROVE  JobNamesRuns'
    BY <2>2, <1>1 DEF WatchdogBlock, JobNamesRuns, TypeOK
  <2>3. CASE WatchdogEndRun(j)
    BY <2>3, <1>1 DEF WatchdogEndRun, JobNamesRuns, TypeOK
  <2>4. CASE WatchdogStop(j)
    BY <2>4, <1>1 DEF WatchdogStop, JobNamesRuns, TypeOK
  <2> QED BY <1>3, <2>1, <2>2, <2>3, <2>4 DEF WatchdogStep
<1>4. UNCHANGED jobVars \/ \E j \in Job : WatchdogStep(j)
  BY JobFrame
<1> QED BY <1>2, <1>3, <1>4

(* The active run of a task stays one of its assignee: a delegation clears *)
(* it, and start and resume put a run checked to be the caller's on a row  *)
(* still assigned to the caller.                                           *)
LEMMA OwnedStep ==
  ASSUME TypeOK, RequestWellFormed, AbsentRows, RunsHaveAgents, JobNamesRuns,
         CheckedRunIsCallers, ActiveRunOwnedByAssignee, [Next]_vars
  PROVE  ActiveRunOwnedByAssignee'
<1> USE NoneAssumption DEF TypeOK, ActiveRunOwnedByAssignee, RunExists, RunsHaveAgents
<1>1. /\ \A r \in Run : runAgent[r] # None => runAgent'[r] = runAgent[r]
      /\ RunsHaveAgents'
      /\ TypeOK'
  BY RunsStay, TypeStep
<1>2. CASE UNCHANGED taskRows
  BY <1>1, <1>2 DEF taskRows
<1>3. ASSUME NEW p \in Proc, RowWrite(p) PROVE ActiveRunOwnedByAssignee'
  <2>1. ASSUME NEW t \in Task, NEW a \in Agent \cup {None},
               NEW par \in ParentInputs, NEW ds \in DepInputs,
               CreateWrite(p, t, a, par, ds)
        PROVE  ActiveRunOwnedByAssignee'
    BY <2>1, <1>1 DEF CreateWrite, AbsentRows, runVars
  <2>2. CASE DelegateWrite(p)
    BY <2>2, <1>1 DEF DelegateWrite, runVars
  <2>3. CASE CancelWrite(p)
    BY <2>3, <1>1 DEF CancelWrite, runVars
  <2>4. CASE StartWrite(p)
    BY <2>4, <1>1 DEF StartWrite, PutRun, StillAssigned, At, CheckedRunIsCallers,
       RequestWellFormed, runVars
  <2>5. CASE ResumeWrite(p)
    BY <2>5, <1>1 DEF ResumeWrite, PutRun, StillAssigned, At, CheckedRunIsCallers,
       RequestWellFormed
  <2>6. ASSUME NEW v \in Task, SubmitCommit(p, v) PROVE ActiveRunOwnedByAssignee'
    BY <2>6, <1>1 DEF SubmitCommit, InsertReviewTask, AbsentRows, runVars
  <2>7. ASSUME NEW approve \in BOOLEAN, ReviewWrite(p, approve)
        PROVE  ActiveRunOwnedByAssignee'
    BY <2>7, <1>1 DEF ReviewWrite, runVars
  <2>8. CASE FailWrite(p)
    BY <2>8, <1>1 DEF FailWrite, runVars
  <2> QED BY <1>3, <2>1, <2>2, <2>3, <2>4, <2>5, <2>6, <2>7, <2>8 DEF RowWrite
<1>4. ASSUME NEW j \in Job, NEW t \in Task, NEW r \in Run \cup {None},
            WatchdogBlock(j, t, r)
      PROVE  ActiveRunOwnedByAssignee'
  BY <1>4, <1>1 DEF WatchdogBlock, runVars
<1> QED BY <1>2, <1>3, <1>4, RowFrame

(* Every write leaves status and active run in agreement.                  *)
LEMMA StatusStep ==
  ASSUME TypeOK, RequestWellFormed, StatusAgreesWithRun, [Next]_vars
  PROVE  StatusAgreesWithRun'
<1> USE NoneAssumption DEF TypeOK, StatusAgreesWithRun
<1>1. CASE UNCHANGED taskRows
  BY <1>1 DEF taskRows
<1>2. ASSUME NEW p \in Proc, RowWrite(p) PROVE StatusAgreesWithRun'
  <2>1. ASSUME NEW t \in Task, NEW a \in Agent \cup {None},
               NEW par \in ParentInputs, NEW ds \in DepInputs,
               CreateWrite(p, t, a, par, ds)
        PROVE  StatusAgreesWithRun'
    BY <2>1 DEF CreateWrite, Exists
  <2>2. CASE DelegateWrite(p)
    BY <2>2 DEF DelegateWrite
  <2>3. CASE CancelWrite(p)
    BY <2>3 DEF CancelWrite
  <2>4. CASE StartWrite(p)
    BY <2>4 DEF StartWrite, PutRun, At, RequestWellFormed
  <2>5. CASE ResumeWrite(p)
    BY <2>5 DEF ResumeWrite, PutRun, At, RequestWellFormed
  <2>6. ASSUME NEW v \in Task, SubmitCommit(p, v) PROVE StatusAgreesWithRun'
    BY <2>6 DEF SubmitCommit, InsertReviewTask, Exists
  <2>7. ASSUME NEW approve \in BOOLEAN, ReviewWrite(p, approve)
        PROVE  StatusAgreesWithRun'
    BY <2>7 DEF ReviewWrite
  <2>8. CASE FailWrite(p)
    BY <2>8 DEF FailWrite
  <2> QED BY <1>2, <2>1, <2>2, <2>3, <2>4, <2>5, <2>6, <2>7, <2>8 DEF RowWrite
<1>3. ASSUME NEW j \in Job, NEW t \in Task, NEW r \in Run \cup {None},
            WatchdogBlock(j, t, r)
      PROVE  StatusAgreesWithRun'
  BY <1>3 DEF WatchdogBlock
<1> QED BY <1>1, <1>2, <1>3, RowFrame

(* The attempts of a task never decrease, so the count a fail has read is  *)
(* still a lower bound when it writes 'failed'.                            *)
LEMMA FailedStep ==
  ASSUME TypeOK, RequestWellFormed, LastAttemptCounted, FailedIsExhausted, [Next]_vars
  PROVE  /\ FailedIsExhausted'
         /\ \A t \in Task : attempts'[t] >= attempts[t]
<1> DEFINE Goal == /\ FailedIsExhausted'
                   /\ \A t \in Task : attempts'[t] >= attempts[t]
<1> USE BoundAssumption DEF TypeOK, FailedIsExhausted
<1>1. CASE UNCHANGED taskRows
  BY <1>1 DEF taskRows
<1>2. ASSUME NEW p \in Proc, RowWrite(p) PROVE Goal
  <2>1. ASSUME NEW t \in Task, NEW a \in Agent \cup {None},
               NEW par \in ParentInputs, NEW ds \in DepInputs,
               CreateWrite(p, t, a, par, ds)
        PROVE  Goal
    BY <2>1 DEF CreateWrite
  <2>2. CASE DelegateWrite(p)
    BY <2>2 DEF DelegateWrite
  <2>3. CASE CancelWrite(p)
    BY <2>3 DEF CancelWrite
  <2>4. CASE StartWrite(p)
    BY <2>4 DEF StartWrite, PutRun
  <2>5. CASE ResumeWrite(p)
    BY <2>5 DEF ResumeWrite, PutRun
  <2>6. ASSUME NEW v \in Task, SubmitCommit(p, v) PROVE Goal
    BY <2>6 DEF SubmitCommit, InsertReviewTask
  <2>7. ASSUME NEW approve \in BOOLEAN, ReviewWrite(p, approve) PROVE Goal
    BY <2>7 DEF ReviewWrite
  <2>8. CASE FailWrite(p)
    BY <2>8 DEF FailWrite, At, LastAttemptCounted, RequestWellFormed
  <2> QED BY <1>2, <2>1, <2>2, <2>3, <2>4, <2>5, <2>6, <2>7, <2>8 DEF RowWrite
<1>3. ASSUME NEW j \in Job, NEW t \in Task, NEW r \in Run \cup {None},
            WatchdogBlock(j, t, r) PROVE Goal
  BY <1>3 DEF WatchdogBlock
<1> QED BY <1>1, <1>2, <1>3, RowFrame

(* A task becomes blocked only from running, when it has an assignee, and  *)
(* every step out of blocked clears the reason.                            *)
LEMMA BlockedStep ==
  ASSUME TypeOK, RequestWellFormed, RunsHaveAgents, StatusAgreesWithRun,
         ActiveRunOwnedByAssignee, BlockedIsResumable, [Next]_vars
  PROVE  BlockedIsResumable'
<1> USE NoneAssumption DEF TypeOK, BlockedIsResumable
<1>1. CASE UNCHANGED taskRows
  BY <1>1 DEF taskRows
<1>2. ASSUME NEW p \in Proc, RowWrite(p) PROVE BlockedIsResumable'
  <2>1. ASSUME NEW t \in Task, NEW a \in Agent \cup {None},
               NEW par \in ParentInputs, NEW ds \in DepInputs,
               CreateWrite(p, t, a, par, ds)
        PROVE  BlockedIsResumable'
    BY <2>1 DEF CreateWrite, Exists
  <2>2. CASE DelegateWrite(p)
    BY <2>2 DEF DelegateWrite, At, RequestWellFormed
  <2>3. CASE CancelWrite(p)
    BY <2>3 DEF CancelWrite, At, RequestWellFormed
  <2>4. CASE StartWrite(p)
    BY <2>4 DEF StartWrite, PutRun, At, RequestWellFormed
  <2>5. CASE ResumeWrite(p)
    BY <2>5 DEF ResumeWrite, PutRun, At, RequestWellFormed
  <2>6. ASSUME NEW v \in Task, SubmitCommit(p, v) PROVE BlockedIsResumable'
    BY <2>6 DEF SubmitCommit, InsertReviewTask, Exists, At, RequestWellFormed
  <2>7. ASSUME NEW approve \in BOOLEAN, ReviewWrite(p, approve)
        PROVE  BlockedIsResumable'
    BY <2>7 DEF ReviewWrite, At, RequestWellFormed
  <2>8. CASE FailWrite(p)
    BY <2>8 DEF FailWrite, At, RequestWellFormed
  <2> QED BY <1>2, <2>1, <2>2, <2>3, <2>4, <2>5, <2>6, <2>7, <2>8 DEF RowWrite
<1>3. ASSUME NEW j \in Job, NEW t \in Task, NEW r \in Run \cup {None},
            WatchdogBlock(j, t, r)
      PROVE  BlockedIsResumable'
  <2>1. status[t] = "running" => assignee[t] # None
    BY DEF StatusAgreesWithRun, ActiveRunOwnedByAssignee, RunsHaveAgents
  <2> QED BY <1>3, <2>1 DEF WatchdogBlock
<1> QED BY <1>1, <1>2, <1>3, RowFrame

(* A new task depends on older ones only, so no set of tasks becomes a     *)
(* cycle, and nothing points to a task that does not exist yet.            *)
LEMMA AbsentStep ==
  ASSUME TypeOK, RequestWellFormed, AbsentRows, NoDependencyCycle, [Next]_vars
  PROVE  AbsentRows' /\ NoDependencyCycle'
<1> DEFINE Goal == AbsentRows' /\ NoDependencyCycle'
<1> USE DEF TypeOK, AbsentRows, Exists, At, Status
<1>1. ASSUME UNCHANGED deps PROVE NoDependencyCycle'
  BY <1>1 DEF NoDependencyCycle
<1>2. CASE UNCHANGED taskRows
  BY <1>1, <1>2 DEF taskRows
<1>3. ASSUME NEW p \in Proc, RowWrite(p) PROVE Goal
  <2>1. ASSUME NEW t \in Task, NEW a \in Agent \cup {None},
               NEW par \in ParentInputs, NEW ds \in DepInputs,
               CreateWrite(p, t, a, par, ds)
        PROVE  Goal
    <3>1. AbsentRows'
      BY <2>1 DEF CreateWrite, Existing
    <3>2. ASSUME NEW S \in (SUBSET Task) \ {{}} PROVE \E u \in S : deps'[u] \cap S = {}
      <4>1. t \notin ds /\ \A u \in Task : t \notin deps[u]
        BY <2>1 DEF CreateWrite, Existing
      <4>2. /\ deps'[t] = ds
            /\ \A u \in Task \ {t} : deps'[u] = deps[u]
        BY <2>1 DEF CreateWrite
      <4>3. CASE S = {t}
        BY <4>1, <4>2, <4>3
      <4>4. CASE S # {t}
        <5>1. PICK u \in S \ {t} : deps[u] \cap (S \ {t}) = {}
          BY <4>4, S \ {t} \in (SUBSET Task) \ {{}} DEF NoDependencyCycle
        <5> QED BY <5>1, <4>1, <4>2
      <4> QED BY <4>3, <4>4
    <3> QED BY <3>1, <3>2 DEF NoDependencyCycle
  <2>2. CASE DelegateWrite(p)
    BY <2>2, <1>1 DEF DelegateWrite, RequestWellFormed
  <2>3. CASE CancelWrite(p)
    BY <2>3, <1>1 DEF CancelWrite
  <2>4. CASE StartWrite(p)
    BY <2>4, <1>1 DEF StartWrite, PutRun
  <2>5. CASE ResumeWrite(p)
    BY <2>5, <1>1 DEF ResumeWrite, PutRun
  <2>6. ASSUME NEW v \in Task, SubmitCommit(p, v) PROVE Goal
    BY <2>6, <1>1 DEF SubmitCommit, InsertReviewTask
  <2>7. ASSUME NEW approve \in BOOLEAN, ReviewWrite(p, approve) PROVE Goal
    BY <2>7, <1>1 DEF ReviewWrite
  <2>8. CASE FailWrite(p)
    BY <2>8, <1>1 DEF FailWrite
  <2> QED BY <1>3, <2>1, <2>2, <2>3, <2>4, <2>5, <2>6, <2>7, <2>8 DEF RowWrite
<1>4. ASSUME NEW j \in Job, NEW t \in Task, NEW r \in Run \cup {None},
            WatchdogBlock(j, t, r) PROVE Goal
  BY <1>4, <1>1 DEF WatchdogBlock
<1> QED BY <1>2, <1>3, <1>4, RowFrame

(* A handoff keeps its maker and is consumed by a run of that agent only.  *)
LEMMA HandoffStep ==
  ASSUME TypeOK, RequestWellFormed, RunsHaveAgents, JobNamesRuns,
         CheckedRunIsCallers, HandoffsHaveAgents, HandoffIsCallers,
         HandoffConsumedByItsAgent, [Next]_vars
  PROVE  /\ HandoffsHaveAgents' /\ HandoffConsumedByItsAgent'
         /\ \A h \in Handoff : HandoffExists(h) =>
              HandoffExists(h)' /\ handoffAgent'[h] = handoffAgent[h]
<1> DEFINE Goal == /\ HandoffsHaveAgents' /\ HandoffConsumedByItsAgent'
                   /\ \A h \in Handoff : HandoffExists(h) =>
                        HandoffExists(h)' /\ handoffAgent'[h] = handoffAgent[h]
<1> USE NoneAssumption DEF TypeOK, HandoffConsumedByItsAgent, HandoffsHaveAgents,
        HandoffExists
<1>1. \A r \in Run : runAgent[r] # None => runAgent'[r] = runAgent[r]
  BY RunsStay
<1>2. \A h \in Handoff : consumedBy[h] # None => runAgent[consumedBy[h]] # None
  OBVIOUS
<1>3. CASE UNCHANGED handoffVars
  BY <1>1, <1>2, <1>3 DEF handoffVars
<1>4. ASSUME NEW p \in Proc, ResumeWrite(p) PROVE Goal
  BY <1>1, <1>2, <1>4 DEF ResumeWrite, ConsumeHandoff, At, RequestWellFormed,
     CheckedRunIsCallers, HandoffIsCallers
<1>5. ASSUME NEW p \in Proc, NEW h \in Handoff, HandoffWrite(p, h) PROVE Goal
  BY <1>1, <1>2, <1>5 DEF HandoffWrite, At, RequestWellFormed, runVars
<1> QED BY <1>3, <1>4, <1>5, HandoffFrame

(* What a request in flight relies on is not undone by the steps of        *)
(* others.                                                                 *)
LEMMA RequestStep ==
  ASSUME IInv, [Next]_vars
  PROVE  /\ RequestWellFormed' /\ CheckedRunIsCallers'
         /\ HandoffIsCallers' /\ LastAttemptCounted'
<1> DEFINE Good(q) ==
      /\ q.op \in {"start", "resume", "heartbeat", "submit", "delegate",
                   "cancel", "review", "fail", "handoff"} => q.task \in Task
      /\ q.op \in {"start", "resume", "heartbeat", "report"} => q.run \in Run
      /\ q.op \in {"start", "resume", "delegate", "handoff"} => q.agent \in Agent
      /\ (q.op \in {"start", "resume"} /\ q.step = "write")
            => runAgent'[q.run] = q.agent
      /\ (q.op = "resume" /\ q.handoff # None)
            => handoffTask'[q.handoff] # None /\ handoffAgent'[q.handoff] = q.agent
      /\ (q.op = "fail" /\ q.step = "write" /\ q.last)
            => attempts'[q.task] + 1 >= MaxAttempts
<1> USE NoneAssumption, BoundAssumption DEF TypeOK
<1>1. /\ TypeOK /\ TypeOK'
      /\ \A r \in Run : runAgent[r] # None => runAgent'[r] = runAgent[r]
      /\ \A h \in Handoff : handoffTask[h] # None =>
           handoffTask'[h] # None /\ handoffAgent'[h] = handoffAgent[h]
      /\ \A t \in Task : attempts'[t] >= attempts[t]
  BY RunsStay, TypeStep, HandoffStep, FailedStep DEF IInv, HandoffExists
<1>2. \A p \in Proc : Good(req[p])
  <2>1. \A p \in Proc : req[p].handoff \in Handoff \cup {None}
    BY <1>1 DEF Request
  <2> QED
    BY <1>1, <2>1 DEF IInv, RequestWellFormed, CheckedRunIsCallers,
       HandoffIsCallers, LastAttemptCounted, HandoffExists
<1>3. ASSUME NEW p \in Proc, RequestMove(p) PROVE \E q : Good(q) /\ MoveTo(p, q)
  <2> USE DEF Arrive, Idle
  <2>1. CASE CreateRead(p)
    BY <2>1 DEF CreateRead
  <2>2. ASSUME NEW t \in Task, NEW a \in Agent,
               DelegateRead(p, t, a) \/ HandoffRead(p, t, a)
        PROVE  \E q : Good(q) /\ MoveTo(p, q)
    <3>1. CASE DelegateRead(p, t, a)
      BY <3>1 DEF DelegateRead
    <3>2. CASE HandoffRead(p, t, a)
      BY <3>2 DEF HandoffRead
    <3> HIDE DEF Good
    <3> QED BY <2>2, <3>1, <3>2
  <2>3. ASSUME NEW t \in Task, CancelRead(p, t) \/ ReviewRead(p, t)
        PROVE  \E q : Good(q) /\ MoveTo(p, q)
    BY <2>3 DEF CancelRead, ReviewRead
  <2>4. ASSUME NEW t \in Task, NEW a \in Agent, NEW r \in Run,
               \/ StartRead(p, t, a, r) \/ HeartbeatRead(p, t, a, r)
               \/ SubmitRead(p, t, a, r) \/ FailRead(p, t, a, r)
        PROVE  \E q : Good(q) /\ MoveTo(p, q)
    <3>1. CASE StartRead(p, t, a, r)
      BY <3>1 DEF StartRead
    <3>2. CASE HeartbeatRead(p, t, a, r)
      BY <3>2 DEF HeartbeatRead
    <3>3. CASE SubmitRead(p, t, a, r)
      BY <3>3 DEF SubmitRead
    <3>4. CASE FailRead(p, t, a, r)
      BY <3>4 DEF FailRead
    <3> HIDE DEF Good
    <3> QED BY <2>4, <3>1, <3>2, <3>3, <3>4
  <2>5. ASSUME NEW t \in Task, NEW a \in Agent, NEW r \in Run,
               NEW h \in Handoff \cup {None}, ResumeRead(p, t, a, r, h)
        PROVE  \E q : Good(q) /\ MoveTo(p, q)
    <3> DEFINE q == [Idle EXCEPT !.op = "resume", !.step = "check", !.task = t,
                                 !.agent = a, !.run = r, !.handoff = h,
                                 !.prev = activeRun[t]]
    <3>1. h # None => handoffTask[h] # None /\ handoffAgent[h] = a
      BY <2>5 DEF ResumeRead, HandoffUsable, HandoffExists
    <3>2. Good(q)
      BY <1>1, <3>1
    <3>3. MoveTo(p, q)
      BY <2>5 DEF ResumeRead
    <3> QED BY <3>2, <3>3
  <2>6. ASSUME NEW a \in Agent, NEW r \in Run, NEW c \in Ctx, ReportRead(p, a, r, c)
        PROVE  \E q : Good(q) /\ MoveTo(p, q)
    BY <2>6 DEF ReportRead
  <2>7. CASE EnsureRun(p)
    <3> DEFINE q == [req[p] EXCEPT !.step = "write"]
    <3>1. /\ q.op = req[p].op /\ q.task = req[p].task /\ q.agent = req[p].agent
          /\ q.run = req[p].run /\ q.handoff = req[p].handoff
      BY DEF Request
    <3>2. req[p].op \in {"start", "resume"} /\ EnsureRunExists(req[p].run, req[p].agent)
      BY <2>7 DEF EnsureRun
    <3>3. req[p].run \in Run
      BY <1>2, <3>2
    <3>4. runAgent'[req[p].run] = req[p].agent
      BY <1>1, <3>2, <3>3 DEF EnsureRunExists
    <3>5. Good(q)
      BY <1>2, <3>1, <3>2, <3>4
    <3> QED BY <2>7, <3>5 DEF EnsureRun
  <2>8. CASE SubmitUpdate(p)
    <3> DEFINE q == [req[p] EXCEPT !.step = "find"]
    <3>1. q.op = "submit" /\ q.task = req[p].task
      BY <2>8 DEF SubmitUpdate, At, Request
    <3>2. Good(q)
      BY <2>8, <1>2, <3>1 DEF SubmitUpdate, At
    <3> QED BY <2>8, <3>2 DEF SubmitUpdate
  <2>9. CASE SubmitFind(p)
    <3> DEFINE b == ReviewTasksOf(req[p].task) # {}
               q == [req[p] EXCEPT !.step = "commit", !.found = b]
    <3>1. Good(q)
      BY <2>9, <1>2 DEF SubmitFind, At, Request
    <3> QED BY <2>9, <3>1 DEF SubmitFind
  <2>10. CASE FailCount(p)
    <3> DEFINE b == attempts[req[p].task] + 1 >= MaxAttempts
               q == [req[p] EXCEPT !.step = "write", !.last = b]
    <3>1. q.op = "fail" /\ q.task = req[p].task /\ q.last = b /\ attempts' = attempts
      BY <2>10, <1>1 DEF FailCount, At, Request, taskVars
    <3>2. Good(q)
      BY <2>10, <1>2, <3>1 DEF FailCount, At
    <3> QED BY <2>10, <3>2 DEF FailCount
  <2> QED
    BY <1>3, <2>1, <2>2, <2>3, <2>4, <2>5, <2>6, <2>7, <2>8, <2>9, <2>10
    DEF RequestMove
<1>4. Good(Idle)
  BY DEF Idle
<1>5. \A p \in Proc : Good(req'[p])
  <2> HIDE DEF Good
  <2> QED BY <1>1, <1>2, <1>3, <1>4, RequestFrame DEF MoveTo
<1> QED
  BY <1>5 DEF RequestWellFormed, CheckedRunIsCallers, HandoffIsCallers,
     LastAttemptCounted, HandoffExists

---------------------------------------------------------------------------
(* Submit and its review task.                                              *)

(* A request is in the locked phases of a submit.                          *)
InTransaction(q) == q.op = "submit" /\ q.step \in {"find", "commit"}

(* No other move puts a request into the locked phases of a submit.        *)
LEMMA OtherMoves ==
  ASSUME TypeOK, NEW p \in Proc, RequestMove(p), ~SubmitUpdate(p), ~SubmitFind(p)
  PROVE  \E q : ~InTransaction(q) /\ MoveTo(p, q)
<1> USE DEF Arrive, Idle, InTransaction
<1>1. CASE \/ CreateRead(p)
           \/ \E t \in Task, a \in Agent : DelegateRead(p, t, a) \/ HandoffRead(p, t, a)
           \/ \E t \in Task : CancelRead(p, t) \/ ReviewRead(p, t)
           \/ \E a \in Agent, r \in Run, c \in Ctx : ReportRead(p, a, r, c)
  BY <1>1, ZenonT(30) DEF CreateRead, DelegateRead, HandoffRead, CancelRead, ReviewRead, ReportRead
<1>2. ASSUME NEW t \in Task, NEW a \in Agent, NEW r \in Run,
             StartRead(p, t, a, r) \/ HeartbeatRead(p, t, a, r)
      PROVE  \E q : ~InTransaction(q) /\ MoveTo(p, q)
  BY <1>2 DEF StartRead, HeartbeatRead
<1>3. ASSUME NEW t \in Task, NEW a \in Agent, NEW r \in Run,
             SubmitRead(p, t, a, r) \/ FailRead(p, t, a, r)
      PROVE  \E q : ~InTransaction(q) /\ MoveTo(p, q)
  BY <1>3 DEF SubmitRead, FailRead
<1>4. ASSUME NEW t \in Task, NEW a \in Agent, NEW r \in Run,
             NEW h \in Handoff \cup {None}, ResumeRead(p, t, a, r, h)
      PROVE  \E q : ~InTransaction(q) /\ MoveTo(p, q)
  BY <1>4 DEF ResumeRead
<1>5. CASE EnsureRun(p)
  BY <1>5 DEF EnsureRun, Request, TypeOK
<1>6. CASE FailCount(p)
  <2> DEFINE b == attempts[req[p].task] + 1 >= MaxAttempts
             q == [req[p] EXCEPT !.step = "write", !.last = b]
  <2>1. ~InTransaction(q)
    BY <1>6 DEF FailCount, At, Request, TypeOK
  <2> QED BY <1>6, <2>1 DEF FailCount
<1> QED BY <1>1, <1>2, <1>3, <1>4, <1>5, <1>6 DEF RequestMove

(* Only the commit of a submit changes the set of review tasks of a task.  *)
LEMMA ReviewTasksStay ==
  ASSUME TypeOK, AbsentRows, [Next]_vars
  PROVE  \/ \A t \in Task : ReviewTasksOf(t)' = ReviewTasksOf(t)
         \/ \E p \in Proc, v \in Task : SubmitCommit(p, v)
<1> DEFINE Goal == \A t \in Task : ReviewTasksOf(t)' = ReviewTasksOf(t)
<1>1. ASSUME UNCHANGED <<system, parent>> PROVE Goal
  BY <1>1 DEF ReviewTasksOf
<1>2. CASE UNCHANGED taskRows
  BY <1>1, <1>2 DEF taskRows
<1>3. ASSUME NEW p \in Proc, RowWrite(p), ~\E v \in Task : SubmitCommit(p, v) PROVE Goal
  <2>1. ASSUME NEW t \in Task, NEW a \in Agent \cup {None},
               NEW par \in ParentInputs, NEW ds \in DepInputs,
               CreateWrite(p, t, a, par, ds)
        PROVE  Goal
    BY <2>1 DEF CreateWrite, AbsentRows, ReviewTasksOf, TypeOK
  <2>2. CASE DelegateWrite(p) \/ CancelWrite(p) \/ StartWrite(p) \/ ResumeWrite(p)
    BY <2>2, <1>1 DEF DelegateWrite, CancelWrite, StartWrite, ResumeWrite
  <2>3. CASE FailWrite(p) \/ \E approve \in BOOLEAN : ReviewWrite(p, approve)
    BY <2>3, <1>1 DEF FailWrite, ReviewWrite
  <2> QED BY <1>3, <2>1, <2>2, <2>3 DEF RowWrite
<1>4. CASE \E j \in Job, t \in Task, r \in Run \cup {None} : WatchdogBlock(j, t, r)
  BY <1>4, <1>1 DEF WatchdogBlock
<1> QED BY <1>2, <1>3, <1>4, RowFrame

(* The commit of a submit gives its task one review task unless it had     *)
(* one, and holds the row lock of that task alone.                         *)
LEMMA SubmitStep ==
  ASSUME TypeOK, RequestWellFormed, AbsentRows, SubmitHoldsLock,
         NEW p \in Proc, NEW v \in Task, SubmitCommit(p, v)
  PROVE  \E t \in Task :
         /\ t = req[p].task /\ lock[t] = p
         /\ \A u \in Task \ {t} : ReviewTasksOf(u)' = ReviewTasksOf(u)
         /\ \/ ReviewTasksOf(t)' = ReviewTasksOf(t) /\ ReviewTasksOf(t) # {}
            \/ ReviewTasksOf(t)' = {v}
<1>1. PICK t \in Task : t = req[p].task
  BY DEF SubmitCommit, At, RequestWellFormed
<1>2. /\ lock[t] = p
      /\ req[p].found <=> ReviewTasksOf(t) # {}
      /\ req[p].found \in BOOLEAN
  BY <1>1 DEF SubmitCommit, At, SubmitHoldsLock, TypeOK, Request
<1>3. CASE req[p].found
  <2>1. UNCHANGED <<parent, system>>
    BY <1>3 DEF SubmitCommit
  <2>2. \A u \in Task : ReviewTasksOf(u)' = ReviewTasksOf(u)
    BY <2>1 DEF ReviewTasksOf
  <2> QED BY <1>1, <1>2, <1>3, <2>2
<1>4. CASE ~req[p].found
  <2>1. /\ v \notin system
        /\ parent' = [parent EXCEPT ![v] = t]
        /\ system' = system \cup {v}
    BY <1>1, <1>4 DEF SubmitCommit, InsertReviewTask, AbsentRows
  <2>2. \A u \in Task \ {t} : ReviewTasksOf(u)' = ReviewTasksOf(u)
    BY <2>1 DEF ReviewTasksOf, TypeOK
  <2>3. ReviewTasksOf(t)' = {v}
    BY <1>2, <1>4, <2>1 DEF ReviewTasksOf, TypeOK
  <2> QED BY <1>1, <1>2, <2>2, <2>3
<1> QED BY <1>2, <1>3, <1>4

(* A submitted task keeps exactly one review task.                         *)
LEMMA OneReviewStep ==
  ASSUME TypeOK, RequestWellFormed, AbsentRows, SubmitHoldsLock,
         OneReviewPerSubmission, [Next]_vars
  PROVE  OneReviewPerSubmission'
<1> USE DEF TypeOK
<1>1. ASSUME \A t \in Task : ReviewTasksOf(t)' = ReviewTasksOf(t),
             \A t \in Task : status'[t] = "submitted" => status[t] = "submitted"
      PROVE  OneReviewPerSubmission'
  BY <1>1 DEF OneReviewPerSubmission
<1>2. ASSUME NEW p \in Proc, NEW v \in Task, SubmitCommit(p, v)
      PROVE  OneReviewPerSubmission'
  <2>1. PICK t \in Task :
         /\ t = req[p].task /\ lock[t] = p
         /\ \A u \in Task \ {t} : ReviewTasksOf(u)' = ReviewTasksOf(u)
         /\ \/ ReviewTasksOf(t)' = ReviewTasksOf(t) /\ ReviewTasksOf(t) # {}
            \/ ReviewTasksOf(t)' = {v}
    BY <1>2, SubmitStep
  <2>2. \A u \in Task \ {t} : status'[u] = "submitted" => status[u] = "submitted"
    BY <1>2, <2>1 DEF SubmitCommit, InsertReviewTask
  <2>3. ASSUME NEW u \in Task \ {t}
        PROVE  /\ \A x, y \in ReviewTasksOf(u)' : x = y
               /\ status'[u] = "submitted" => ReviewTasksOf(u)' # {}
    BY <2>1, <2>2 DEF OneReviewPerSubmission
  <2>4. (\A x, y \in ReviewTasksOf(t)' : x = y) /\ ReviewTasksOf(t)' # {}
    <3>1. CASE ReviewTasksOf(t)' = ReviewTasksOf(t) /\ ReviewTasksOf(t) # {}
      <4>1. \A x, y \in ReviewTasksOf(t) : x = y
        BY DEF OneReviewPerSubmission
      <4> QED BY <3>1, <4>1
    <3>2. CASE ReviewTasksOf(t)' = {v}
      BY <3>2
    <3> QED BY <2>1, <3>1, <3>2
  <2> QED BY <2>3, <2>4 DEF OneReviewPerSubmission
<1>3. CASE ~\E p \in Proc, v \in Task : SubmitCommit(p, v)
  <2>1. \A t \in Task : ReviewTasksOf(t)' = ReviewTasksOf(t)
    BY <1>3, ReviewTasksStay
  <2>2. \A t \in Task : status'[t] = "submitted" => status[t] = "submitted"
    <3>1. CASE UNCHANGED taskRows
      BY <3>1 DEF taskRows
    <3>2. ASSUME NEW p \in Proc, RowWrite(p)
          PROVE  \A t \in Task : status'[t] = "submitted" => status[t] = "submitted"
      <4>1. CASE \E t \in Task, a \in Agent \cup {None}, par \in ParentInputs,
                   ds \in DepInputs : CreateWrite(p, t, a, par, ds)
        BY <4>1 DEF CreateWrite
      <4>2. CASE DelegateWrite(p) \/ CancelWrite(p) \/ StartWrite(p) \/ ResumeWrite(p)
        BY <4>2 DEF DelegateWrite, CancelWrite, StartWrite, ResumeWrite, PutRun
      <4>3. CASE FailWrite(p) \/ \E approve \in BOOLEAN : ReviewWrite(p, approve)
        BY <4>3 DEF FailWrite, ReviewWrite
      <4> QED BY <1>3, <3>2, <4>1, <4>2, <4>3 DEF RowWrite
    <3>3. CASE \E j \in Job, t \in Task, r \in Run \cup {None} : WatchdogBlock(j, t, r)
      BY <3>3 DEF WatchdogBlock
    <3> QED BY <3>1, <3>2, <3>3, RowFrame
  <2> QED BY <1>1, <2>1, <2>2
<1> QED BY <1>2, <1>3

(* What SubmitHoldsLock says of one request, as an operator of values.     *)
reviewTasks == [t \in Task |-> ReviewTasksOf(t)]
Holds(p, q, l, R) ==
  InTransaction(q) =>
    \E t \in Task : /\ q.task = t /\ l[t] = p
                    /\ q.step = "commit" => (q.found <=> R[t] # {})

(* A submit keeps its row lock until it commits or aborts, and nobody else *)
(* adds a review task to its task meanwhile.                               *)
LEMMA LockStep ==
  ASSUME TypeOK, RequestWellFormed, AbsentRows, SubmitHoldsLock, [Next]_vars
  PROVE  SubmitHoldsLock'
<1>1. ASSUME NEW p \in Proc PROVE Holds(p, req[p], lock, reviewTasks)
  BY DEF SubmitHoldsLock, InTransaction, RequestWellFormed, Holds, reviewTasks
<1>2. \A p \in Proc : \A l, R : Holds(p, Idle, l, R)
  BY DEF InTransaction, Idle, Holds
<1>a. \A t \in Task : /\ reviewTasks[t] = ReviewTasksOf(t)
                      /\ reviewTasks'[t] = ReviewTasksOf(t)'
  BY DEF reviewTasks
<1>b. ASSUME NEW p \in Proc, req'[p] = req[p],
             InTransaction(req[p]) =>
               \E u \in Task : /\ req[p].task = u /\ lock'[u] = lock[u]
                               /\ reviewTasks'[u] = reviewTasks[u]
      PROVE  Holds(p, req'[p], lock', reviewTasks')
  BY <1>1, <1>b DEF reviewTasks, Holds, InTransaction
<1>3. ASSUME NEW p0 \in Proc, NEW v \in Task, SubmitCommit(p0, v), NEW p \in Proc
      PROVE  Holds(p, req'[p], lock', reviewTasks')
  <2>1. PICK t \in Task :
         /\ t = req[p0].task /\ lock[t] = p0
         /\ \A u \in Task \ {t} : ReviewTasksOf(u)' = ReviewTasksOf(u)
    BY <1>3, SubmitStep
  <2>2. MoveTo(p0, Idle) /\ lock' = [lock EXCEPT ![t] = None]
    BY <1>3, <2>1 DEF SubmitCommit, Finish, TypeOK
  <2>3. CASE p = p0
    <3>1. req'[p] = Idle
      BY <2>2, <2>3 DEF MoveTo, TypeOK
    <3> QED BY <1>2, <3>1
  <2>4. CASE p # p0
    <3>1. req'[p] = req[p]
      BY <2>2, <2>4 DEF MoveTo, TypeOK
    <3>2. InTransaction(req[p]) => \E u \in Task \ {t} : req[p].task = u /\ lock[u] = p
      BY <1>1, <2>1, <2>4 DEF reviewTasks, Holds
    <3>3. \A u \in Task \ {t} : reviewTasks'[u] = reviewTasks[u] /\ lock'[u] = lock[u]
      BY <1>a, <2>1, <2>2 DEF TypeOK
    <3>4. InTransaction(req[p]) =>
               \E u \in Task : /\ req[p].task = u /\ lock'[u] = lock[u]
                               /\ reviewTasks'[u] = reviewTasks[u]
      BY <3>2, <3>3
    <3> QED BY <1>b, <3>1, <3>4
  <2> QED BY <2>3, <2>4
<1>4. ASSUME ~\E p \in Proc, v \in Task : SubmitCommit(p, v)
      PROVE  \A p \in Proc : Holds(p, req'[p], lock', reviewTasks')
  <2>1. \A t \in Task : reviewTasks'[t] = reviewTasks[t]
    BY <1>a, <1>4, ReviewTasksStay
  <2>2. ASSUME NEW p \in Proc, req'[p] = req[p],
               \A u \in Task : lock[u] = p => lock'[u] = p
        PROVE  Holds(p, req'[p], lock', reviewTasks')
    BY <1>1, <1>b, <2>1, <2>2 DEF reviewTasks, Holds, InTransaction
  <2>3. ASSUME NEW p0 \in Proc, Abort(p0), NEW p \in Proc
        PROVE  Holds(p, req'[p], lock', reviewTasks')
    <3>1. MoveTo(p0, Idle) /\ \A u \in Task : lock[u] # p0 => lock'[u] = lock[u]
      BY <2>3 DEF Abort, Finish, TypeOK
    <3>2. CASE p = p0
      <4>1. req'[p] = Idle
        BY <3>1, <3>2 DEF MoveTo, TypeOK
      <4> QED BY <1>2, <4>1
    <3>3. CASE p # p0
      BY <2>2, <3>1, <3>3, NoneAssumption DEF MoveTo, TypeOK
    <3> QED BY <3>2, <3>3
  <2>4. ASSUME NEW p0 \in Proc, SubmitUpdate(p0), NEW p \in Proc
        PROVE  Holds(p, req'[p], lock', reviewTasks')
    <3>1. PICK t \in Task : t = req[p0].task
      BY <2>4 DEF SubmitUpdate, At, RequestWellFormed
    <3>2. /\ MoveTo(p0, [req[p0] EXCEPT !.step = "find"])
          /\ lock[t] = None /\ lock' = [lock EXCEPT ![t] = p0]
      BY <2>4, <3>1 DEF SubmitUpdate, RowFree
    <3>3. CASE p = p0
      <4>1. req'[p].task = t /\ req'[p].step = "find" /\ lock'[t] = p
        BY <3>1, <3>2, <3>3 DEF MoveTo, Request, TypeOK
      <4> QED BY <4>1 DEF reviewTasks, Holds
    <3>4. CASE p # p0
      BY <2>2, <3>2, <3>4, NoneAssumption DEF MoveTo, TypeOK
    <3> QED BY <3>3, <3>4
  <2>5. ASSUME NEW p0 \in Proc, SubmitFind(p0), NEW p \in Proc
        PROVE  Holds(p, req'[p], lock', reviewTasks')
    <3>1. lock' = lock
      BY <2>5 DEF SubmitFind
    <3>2. CASE p = p0
      <4>1. PICK t \in Task : req[p].task = t /\ lock[t] = p
        BY <1>1, <2>5, <3>2 DEF reviewTasks, Holds, InTransaction, SubmitFind, At
      <4>2. req' = [req EXCEPT ![p] = [req[p] EXCEPT !.step = "commit",
                                  !.found = (ReviewTasksOf(t) # {})]]
        BY <2>5, <3>2, <4>1 DEF SubmitFind, MoveTo
      <4>3. req'[p].task = t /\ req'[p].found = (reviewTasks[t] # {})
        BY <1>a, <4>1, <4>2 DEF Request, TypeOK
      <4>4. reviewTasks'[t] = reviewTasks[t] /\ lock'[t] = p
        BY <2>1, <3>1, <4>1
      <4> QED BY <4>3, <4>4 DEF reviewTasks, Holds, InTransaction
    <3>3. CASE p # p0
      <4>1. req'[p] = req[p]
        BY <2>5, <3>3 DEF SubmitFind, MoveTo, TypeOK
      <4> QED BY <2>2, <3>1, <4>1
    <3> QED BY <3>2, <3>3
  <2>6. ASSUME \A p \in Proc : ~Abort(p) /\ ~SubmitUpdate(p) /\ ~SubmitFind(p),
               NEW p \in Proc
        PROVE  Holds(p, req'[p], lock', reviewTasks')
    <3>1. lock' = lock
      BY <1>4, <2>6, LockFrame
    <3>0. ~InTransaction(Idle)
      BY DEF InTransaction, Idle
    <3>2. \/ UNCHANGED req
          \/ \E x \in Proc : \E q : ~InTransaction(q) /\ MoveTo(x, q)
      <4>1. UNCHANGED req \/ (\E x \in Proc : MoveTo(x, Idle))
              \/ \E x \in Proc : RequestMove(x)
        BY RequestFrame
      <4> QED BY <2>6, <3>0, <4>1, OtherMoves
    <3>3. req'[p] = req[p] \/ ~InTransaction(req'[p])
      BY <3>2 DEF MoveTo, InTransaction, TypeOK
    <3>4. CASE req'[p] = req[p]
      BY <2>2, <3>1, <3>4
    <3>5. CASE ~InTransaction(req'[p])
      BY <3>5 DEF reviewTasks, Holds, InTransaction
    <3> QED BY <3>3, <3>4, <3>5
  <2> QED BY <2>3, <2>4, <2>5, <2>6
<1>5. \A p \in Proc : Holds(p, req'[p], lock', reviewTasks')
  BY <1>3, <1>4
<1> QED BY <1>a, <1>5 DEF SubmitHoldsLock, InTransaction, reviewTasks, Holds

---------------------------------------------------------------------------
(* The empty database satisfies the inductive invariant.                   *)
LEMMA InitIInv == Init => IInv
<1> SUFFICES ASSUME Init PROVE IInv
  OBVIOUS
<1> USE DEF Init
<1>1. TypeOK
  BY IdleIsRequest, NoneAssumption DEF TypeOK, Status, RunStatus, Ctx
<1>2. /\ RequestWellFormed /\ CheckedRunIsCallers /\ HandoffIsCallers
      /\ LastAttemptCounted /\ SubmitHoldsLock
  BY DEF RequestWellFormed, CheckedRunIsCallers, HandoffIsCallers,
     LastAttemptCounted, SubmitHoldsLock, Idle
<1>3. AbsentRows /\ RunsHaveAgents /\ JobNamesRuns /\ HandoffsHaveAgents
  BY DEF AbsentRows, RunsHaveAgents, JobNamesRuns, HandoffsHaveAgents,
     HandoffExists, RunExists
<1>4. /\ ActiveRunOwnedByAssignee /\ StatusAgreesWithRun /\ OneReviewPerSubmission
      /\ NoDependencyCycle /\ BlockedIsResumable /\ FailedIsExhausted
      /\ HandoffConsumedByItsAgent
  BY DEF ActiveRunOwnedByAssignee, StatusAgreesWithRun, OneReviewPerSubmission,
     ReviewTasksOf, NoDependencyCycle, BlockedIsResumable, FailedIsExhausted,
     HandoffConsumedByItsAgent
<1> QED BY <1>1, <1>2, <1>3, <1>4 DEF IInv

(* Every step preserves the inductive invariant.                           *)
LEMMA IInvStep == IInv /\ [Next]_vars => IInv'
<1> SUFFICES ASSUME IInv, [Next]_vars PROVE IInv'
  OBVIOUS
<1>1. TypeOK'
  BY TypeStep DEF IInv
<1>2. /\ RequestWellFormed' /\ CheckedRunIsCallers'
      /\ HandoffIsCallers' /\ LastAttemptCounted'
  BY RequestStep
<1>3. RunsHaveAgents' /\ JobNamesRuns' /\ ActiveRunOwnedByAssignee'
  BY RunsStay, JobStep, OwnedStep DEF IInv
<1>4. AbsentRows' /\ NoDependencyCycle'
  BY AbsentStep DEF IInv
<1>5. HandoffsHaveAgents' /\ HandoffConsumedByItsAgent'
  BY HandoffStep DEF IInv
<1>6. SubmitHoldsLock' /\ OneReviewPerSubmission'
  BY LockStep, OneReviewStep DEF IInv
<1>7. StatusAgreesWithRun' /\ BlockedIsResumable' /\ FailedIsExhausted'
  BY StatusStep, BlockedStep, FailedStep DEF IInv
<1> QED BY <1>1, <1>2, <1>3, <1>4, <1>5, <1>6, <1>7 DEF IInv

(* The inductive invariant holds in every reachable state, for any number *)
(* of tasks, agents, runs, handoffs and concurrent requests.               *)
THEOREM Invariance == Spec => []IInv
<1>1. Init => IInv
  BY InitIInv
<1>2. IInv /\ [Next]_vars => IInv'
  BY IInvStep
<1> QED BY <1>1, <1>2, PTL DEF Spec

---------------------------------------------------------------------------
(* Theorems                                                                *)

(* Every variable keeps its type in every reachable state.                 *)
THEOREM TypeCorrect == Spec => []TypeOK
<1>1. IInv => TypeOK
  BY DEF IInv
<1> QED BY <1>1, Invariance, PTL

(* Whatever requests run at the same time, the active run of a task        *)
(* belongs to the agent the task is assigned to.                           *)
THEOREM RunOwnership == Spec => []ActiveRunOwnedByAssignee
<1>1. IInv => ActiveRunOwnedByAssignee
  BY DEF IInv
<1> QED BY <1>1, Invariance, PTL

(* A running task always has a run, a planned, delegated or blocked one    *)
(* never.                                                                  *)
THEOREM RunAgreesWithStatus == Spec => []StatusAgreesWithRun
<1>1. IInv => StatusAgreesWithRun
  BY DEF IInv
<1> QED BY <1>1, Invariance, PTL

(* However many submits of a task race, it gets exactly one review task.   *)
THEOREM OneReview == Spec => []OneReviewPerSubmission
<1>1. IInv => OneReviewPerSubmission
  BY DEF IInv
<1> QED BY <1>1, Invariance, PTL

(* Tasks never wait for each other in a cycle.                             *)
THEOREM DependenciesAcyclic == Spec => []NoDependencyCycle
<1>1. IInv => NoDependencyCycle
  BY DEF IInv
<1> QED BY <1>1, Invariance, PTL

(* The timeout job leaves every task in a state its assignee can resume.   *)
THEOREM BlockedTasksResume == Spec => []BlockedIsResumable
<1>1. IInv => BlockedIsResumable
  BY DEF IInv
<1> QED BY <1>1, Invariance, PTL

(* A task is failed for good only after max_attempts attempts.             *)
THEOREM FailuresCounted == Spec => []FailedIsExhausted
<1>1. IInv => FailedIsExhausted
  BY DEF IInv
<1> QED BY <1>1, Invariance, PTL

(* A handoff is only ever consumed by a run of the agent that made it.     *)
THEOREM HandoffsStayWithAgent == Spec => []HandoffConsumedByItsAgent
<1>1. IInv => HandoffConsumedByItsAgent
  BY DEF IInv
<1> QED BY <1>1, Invariance, PTL

---------------------------------------------------------------------------
(* A step that registers a run does nothing else to the assignment.        *)
LEMMA ReadsChangeNoRun ==
  ASSUME TypeOK, RequestWellFormed, RunsHaveAgents, [Next]_vars
  PROVE  \/ UNCHANGED runAgent
         \/ /\ UNCHANGED <<assignee, activeRun>>
            /\ \E r \in Run, a \in Agent : /\ runAgent[r] = None
                                           /\ runAgent' = [runAgent EXCEPT ![r] = a]
<1>1. ASSUME NEW p \in Proc, EnsureRun(p)
      PROVE  \/ UNCHANGED runAgent
             \/ /\ UNCHANGED <<assignee, activeRun>>
                /\ \E r \in Run, a \in Agent :
                     /\ runAgent[r] = None
                     /\ runAgent' = [runAgent EXCEPT ![r] = a]
  BY <1>1 DEF EnsureRun, EnsureRunExists, RequestWellFormed, RunsHaveAgents, taskVars
<1> QED BY <1>1, RunFrame

(* Every write of a task row hands the task out, puts a run on it, takes   *)
(* the run off, or leaves the assignment as it was.                        *)
LEMMA AssignmentWrite ==
  ASSUME IInv, NEW p \in Proc, RowWrite(p), UNCHANGED runAgent
  PROVE  Assignment!Next \/ UNCHANGED <<assignee, activeRun, runAgent>>
<1> USE NoneAssumption DEF IInv, TypeOK
<1> USE DEF Assignment!Next, Assignment!HandTo, Assignment!Work, Assignment!Release
<1> DEFINE Goal == Assignment!Next \/ UNCHANGED <<assignee, activeRun, runAgent>>
<1>1. ASSUME NEW t \in Task, NEW a \in Agent \cup {None},
             NEW par \in ParentInputs, NEW ds \in DepInputs,
             CreateWrite(p, t, a, par, ds)
      PROVE  Goal
  <2>1. /\ activeRun' = [activeRun EXCEPT ![t] = None]
        /\ assignee' = [assignee EXCEPT ![t] = a]
        /\ assignee[t] = None
    BY <1>1 DEF CreateWrite, AbsentRows
  <2>2. CASE a = None
    BY <2>1, <2>2, ZenonT(30)
  <2>3. CASE a \in Agent
    BY <2>1, <2>3
  <2> QED BY <2>2, <2>3
<1>2. CASE DelegateWrite(p)
  BY <1>2 DEF DelegateWrite, RequestWellFormed, At
<1>3. CASE CancelWrite(p)
  BY <1>3 DEF CancelWrite
<1>4. CASE StartWrite(p) \/ ResumeWrite(p)
  <2>1. PICK t \in Task, r \in Run :
          /\ UNCHANGED assignee /\ activeRun' = [activeRun EXCEPT ![t] = r]
          /\ assignee[t] # None /\ runAgent[r] = assignee[t]
    BY <1>4 DEF StartWrite, ResumeWrite, PutRun, StillAssigned, At,
       RequestWellFormed, CheckedRunIsCallers
  <2> QED BY <2>1
<1>5. ASSUME NEW v \in Task, SubmitCommit(p, v) PROVE Goal
  <2>1. CASE req[p].found
    BY <1>5, <2>1 DEF SubmitCommit
  <2>2. CASE ~req[p].found
    <3>1. /\ assignee' = [assignee EXCEPT ![v] = Reviewer]
          /\ assignee[v] = None /\ activeRun[v] = None /\ UNCHANGED activeRun
      BY <1>5, <2>2 DEF SubmitCommit, InsertReviewTask, AbsentRows
    <3>2. CASE Reviewer = None
      BY <3>1, <3>2
    <3>3. CASE Reviewer \in Agent
      <4>1. activeRun' = [activeRun EXCEPT ![v] = None]
        BY <3>1
      <4> QED BY <3>1, <3>3, <4>1
    <3> QED BY <3>2, <3>3, ReviewerAssumption
  <2> QED BY <2>1, <2>2
<1>6. ASSUME NEW approve \in BOOLEAN, ReviewWrite(p, approve) PROVE Goal
  <2>1. PICK t : activeRun' = [activeRun EXCEPT ![t] = None] /\ UNCHANGED assignee
    BY <1>6 DEF ReviewWrite
  <2> QED BY <2>1
<1>7. CASE FailWrite(p)
  <2>1. PICK t \in Task :
          /\ UNCHANGED assignee
          /\ \/ activeRun' = [activeRun EXCEPT ![t] = None]
             \/ activeRun' = [activeRun EXCEPT ![t] = activeRun[t]]
    BY <1>7 DEF FailWrite, At, RequestWellFormed
  <2> QED BY <2>1
<1> QED BY <1>1, <1>2, <1>3, <1>4, <1>5, <1>6, <1>7 DEF RowWrite

(* The task service implements TaskAssignment: no step of any handler or   *)
(* job hands out tasks, registers runs or puts them on tasks in another    *)
(* way.                                                                    *)
THEOREM ImplementsAssignment == Spec => AssignmentSpec
<1>1. Init => Assignment!Init
  BY DEF Init, Assignment!Init
<1>2. IInv /\ [Next]_vars => [Assignment!Next]_Assignment!vars
  <2> SUFFICES ASSUME IInv, [Next]_vars
               PROVE  Assignment!Next \/ UNCHANGED <<assignee, activeRun, runAgent>>
    BY DEF Assignment!vars
  <2>1. CASE ~UNCHANGED runAgent
    <3>1. PICK r \in Run, a \in Agent :
            /\ UNCHANGED <<assignee, activeRun>> /\ runAgent[r] = None
            /\ runAgent' = [runAgent EXCEPT ![r] = a]
      BY <2>1, ReadsChangeNoRun DEF IInv
    <3> QED BY <3>1 DEF Assignment!Next, Assignment!Register
  <2>2. CASE UNCHANGED runAgent
    <3>1. CASE UNCHANGED taskRows
      BY <2>2, <3>1 DEF taskRows
    <3>2. ASSUME NEW j \in Job, NEW t \in Task, NEW r \in Run \cup {None},
            WatchdogBlock(j, t, r)
          PROVE  Assignment!Next \/ UNCHANGED <<assignee, activeRun, runAgent>>
      BY <3>2, <2>2 DEF WatchdogBlock, Assignment!Next, Assignment!Release
    <3> QED BY <2>2, <3>1, <3>2, RowFrame, AssignmentWrite
  <2> QED BY <2>1, <2>2
<1> QED BY <1>1, <1>2, Invariance, PTL DEF Spec, AssignmentSpec, Assignment!Spec

---------------------------------------------------------------------------
(* In an archived project a free slot stays free.                          *)
LEMMA ArchivedStartsNothing ==
  ASSUME TypeOK, archived, [Next]_vars, NEW p \in Proc, req[p] = Idle
  PROVE  req'[p] = Idle
<1> DEFINE Working(x) == EnsureRun(x) \/ SubmitUpdate(x) \/ SubmitFind(x) \/ FailCount(x)
<1>1. ASSUME NEW x \in Proc, RequestMove(x) PROVE Working(x)
  <2>1. \A q : ~Arrive(x, q)
    BY DEF Arrive, ProjectWritable
  <2>2. ~CreateRead(x) /\ \A t \in Task : ~CancelRead(x, t) /\ ~ReviewRead(x, t)
    BY <2>1 DEF CreateRead, CancelRead, ReviewRead
  <2>3. \A t \in Task, a \in Agent : ~DelegateRead(x, t, a) /\ ~HandoffRead(x, t, a)
    BY <2>1 DEF DelegateRead, HandoffRead
  <2>4. \A t \in Task, a \in Agent, r \in Run :
          ~StartRead(x, t, a, r) /\ ~HeartbeatRead(x, t, a, r)
    BY <2>1 DEF StartRead, HeartbeatRead
  <2>5. \A t \in Task, a \in Agent, r \in Run :
          ~SubmitRead(x, t, a, r) /\ ~FailRead(x, t, a, r)
    BY <2>1 DEF SubmitRead, FailRead
  <2>6. \A t \in Task, a \in Agent, r \in Run, h \in Handoff \cup {None} :
          ~ResumeRead(x, t, a, r, h)
    BY <2>1 DEF ResumeRead
  <2>7. \A a \in Agent, r \in Run, c \in Ctx : ~ReportRead(x, a, r, c)
    BY <2>1 DEF ReportRead
  <2> QED BY <1>1, <2>2, <2>3, <2>4, <2>5, <2>6, <2>7 DEF RequestMove
<1>2. ASSUME NEW x \in Proc, Working(x) PROVE x # p
  <2>1. req[p].op = "idle"
    BY DEF Idle
  <2>2. req[x].op \in {"start", "resume", "submit", "fail"}
    BY <1>2 DEF EnsureRun, SubmitUpdate, SubmitFind, FailCount, At
  <2> QED BY <2>1, <2>2
<1>3. ASSUME NEW x \in Proc, RequestMove(x) PROVE req'[p] = req[p]
  BY <1>1, <1>2, <1>3, RequestMoveIsMove DEF MoveTo, TypeOK
<1>4. ASSUME NEW x \in Proc, MoveTo(x, Idle) PROVE req'[p] = Idle
  BY <1>4 DEF MoveTo, TypeOK
<1> QED BY <1>3, <1>4, RequestFrame

(* A free slot writes nothing.                                             *)
LEMMA IdleWritesNothing ==
  ASSUME NEW p \in Proc, req[p] = Idle
  PROVE  ~RowWrite(p)
BY DEF RowWrite, CreateWrite, DelegateWrite, CancelWrite, StartWrite, ResumeWrite,
   SubmitCommit, ReviewWrite, FailWrite, At, Idle

(* After the project is archived the requests in flight drain and then     *)
(* tasks only change by the timeout job.                                   *)
THEOREM ArchivedProjectDrains == Spec => ArchivedDrains
<1> DEFINE Drains ==
      archived =>
       /\ \A p \in Proc : req[p] = Idle => req'[p] = Idle
       /\ (\A p \in Proc : req[p] = Idle) =>
            \A t \in Task : status'[t] # status[t] =>
                              status[t] = "running" /\ status'[t] = "blocked"
<1>1. IInv /\ [Next]_vars => [Drains]_vars
  <2> SUFFICES ASSUME IInv, [Next]_vars, archived PROVE Drains
    OBVIOUS
  <2>1. \A p \in Proc : req[p] = Idle => req'[p] = Idle
    BY ArchivedStartsNothing DEF IInv
  <2>2. ASSUME \A p \in Proc : req[p] = Idle, NEW t \in Task, status'[t] # status[t]
        PROVE  status[t] = "running" /\ status'[t] = "blocked"
    <3>1. ~UNCHANGED taskRows /\ \A p \in Proc : ~RowWrite(p)
      BY <2>2, IdleWritesNothing DEF taskRows
    <3>2. PICK j \in Job, u \in Task, r \in Run \cup {None} : WatchdogBlock(j, u, r)
      BY <3>1, RowFrame
    <3> QED BY <2>2, <3>2 DEF WatchdogBlock, IInv, TypeOK
  <2> QED BY <2>1, <2>2
<1> QED BY <1>1, Invariance, PTL DEF Spec, ArchivedDrains

=============================================================================
