---------------------------- MODULE TaskService ----------------------------
(***************************************************************************)
(* The task orchestration service of the backend                           *)
(* (core/internal/service/tasks/service.go) over its PostgreSQL tables,    *)
(* with the run and handoff rows written by the context service            *)
(* (core/internal/service/context/service.go).                             *)
(*                                                                         *)
(* A handler reads rows, checks them in Go and writes in a later SQL       *)
(* statement, so a request in flight (req[p]) goes through one action per  *)
(* phase and any other request may run between two of them:                *)
(*                                                                         *)
(*    read   - project, run context and task row loaded and checked        *)
(*    check  - ensureRunExists, which may insert the run (start, resume),  *)
(*             or the attempt count (fail)                                 *)
(*    write  - the UPDATE (or transaction) that changes the task           *)
(*    find, commit - only for submit, whose transaction holds the row lock *)
(*             of the task while it looks for a review task and inserts    *)
(*             one if it found none                                        *)
(*                                                                         *)
(* A check that fails, an SQL error and a cancelled request all end the    *)
(* handler between two phases: that is Abort.  One project is modelled;    *)
(* its root task is created like any other planned task.                   *)
(* The reads of one phase are one step.  Only an archiving could tell the  *)
(* project check from the reads after it, and what it changes is read by   *)
(* that check alone, so such a request counts as archived after its reads. *)
(***************************************************************************)
EXTENDS Naturals, FiniteSets

CONSTANTS
  Task,         \* ids the service can give to tasks, review tasks included
  Agent,        \* agents validateAssignee accepts for the project
  Run,          \* run ids the agents choose
  Handoff,      \* ids the context service can give to handoffs
  Proc,         \* requests the server handles at the same time
  Job,          \* runs of the timeout job that may overlap
  None,         \* SQL NULL
  Reviewer,     \* the agent ensureReviewTaskTx finds, or None
  MaxAttempts,  \* tasks.max_attempts
  AttemptBound, \* bound of the model: Fail is only issued below it
  Ops,          \* the requests that arrive in this instance ...
  ParentInputs, \* ... and the parent ids and dependency sets that a create
  DepInputs     \*     request may carry

AllOps == {"create", "delegate", "cancel", "start", "heartbeat", "submit",
           "review", "fail", "resume", "handoff", "report", "archive",
           "watchdog"}

ASSUME NoneAssumption ==
  None \notin Task \cup Agent \cup Run \cup Handoff \cup Proc
ASSUME ReviewerAssumption == Reviewer \in Agent \cup {None}
ASSUME BoundAssumption == MaxAttempts \in Nat /\ AttemptBound \in Nat
ASSUME OpsAssumption == Ops \subseteq AllOps
ASSUME InputAssumption == /\ ParentInputs \subseteq Task \cup {None}
                          /\ DepInputs \subseteq SUBSET Task

VARIABLES
  (* table tasks *)
  status, assignee, activeRun, parent, deps,
  system,       \* the tasks with created_by_type 'system': review tasks
  timedOut,     \* the tasks whose error is heartbeatTimeoutBlockReason
  attempts,
  freshTask,    \* the tasks whose last_heartbeat_at is within the timeout
  lock,         \* the request whose open transaction wrote the task row
  (* table agent_runs *)
  runAgent, runStatus, runCtx,
  freshRun,     \* the runs whose heartbeat or start is within the timeout
  (* table context_handoffs *)
  handoffTask, handoffAgent, consumedBy,
  (* projects.status = 'archived' *)
  archived,
  (* requests in flight, and the loops of the timeout job *)
  req, stale, runToEnd

taskVars    == <<status, assignee, activeRun, parent, deps, system, timedOut,
                 attempts, freshTask>>
runVars     == <<runAgent, runStatus, runCtx, freshRun>>
handoffVars == <<handoffTask, handoffAgent, consumedBy>>
jobVars     == <<stale, runToEnd>>
vars == <<taskVars, lock, runVars, handoffVars, archived, req, jobVars>>

Status == {"planned", "delegated", "running", "submitted", "reviewing",
           "done", "blocked", "failed", "cancelled"}
RunStatus == {"active", "ended"}
(* context_state as the task service tells its values apart: normal,       *)
(* compressed and restricted are all "normal" to it.                       *)
Ctx == {"normal", "handoff_required", "handoff_only"}

Request ==
  [op : AllOps \cup {"idle"}, step : {"none", "check", "write", "find", "commit"},
   task : Task \cup {None}, agent : Agent \cup {None}, run : Run \cup {None},
   handoff : Handoff \cup {None},
   prev : Run \cup {None},       \* active run in the row as it was read
   last : BOOLEAN,               \* Fail: the attempts read are the last ones
   found : BOOLEAN,              \* Submit: there already is a review task
   ctx : Ctx]                    \* Report: the state of the reported budget

Idle == [op |-> "idle", step |-> "none", task |-> None, agent |-> None,
         run |-> None, handoff |-> None, prev |-> None, last |-> FALSE,
         found |-> FALSE, ctx |-> "normal"]

Exists(t) == status[t] # "absent"
Existing == {t \in Task : Exists(t)}
RunExists(r) == runStatus[r] # "absent"
HandoffExists(h) == handoffTask[h] # None

Init ==
  /\ status = [t \in Task |-> "absent"]
  /\ assignee = [t \in Task |-> None]
  /\ activeRun = [t \in Task |-> None]
  /\ parent = [t \in Task |-> None]
  /\ deps = [t \in Task |-> {}]
  /\ system = {} /\ timedOut = {} /\ freshTask = {} /\ freshRun = {}
  /\ attempts = [t \in Task |-> 0]
  /\ lock = [t \in Task |-> None]
  /\ runAgent = [r \in Run |-> None]
  /\ runStatus = [r \in Run |-> "absent"]
  /\ runCtx = [r \in Run |-> "normal"]
  /\ handoffTask = [h \in Handoff |-> None]
  /\ handoffAgent = [h \in Handoff |-> None]
  /\ consumedBy = [h \in Handoff |-> None]
  /\ archived = FALSE
  /\ req = [p \in Proc |-> Idle]
  /\ stale = [j \in Job |-> {}] /\ runToEnd = [j \in Job |-> None]

---------------------------------------------------------------------------
(* Checks shared by the handlers.                                          *)

(* ensureTransitionAllowed: only Delegate and Cancel consult it.           *)
TransitionAllowed(from, to) ==
  <<from, to>> \in
    ({"planned"}   \X {"delegated", "cancelled"}) \cup
    ({"delegated"} \X {"running", "cancelled", "blocked", "failed"}) \cup
    ({"running"}   \X {"submitted", "cancelled", "failed", "blocked"}) \cup
    ({"submitted"} \X {"reviewing", "done", "delegated"}) \cup
    ({"reviewing"} \X {"done", "delegated"}) \cup
    ({"blocked"}   \X {"delegated", "cancelled"})

ProjectWritable == ~archived
DependenciesDone(t) == \A d \in deps[t] : status[d] = "done"

(* Start, heartbeat, fail and resume refuse a handoff_only run first ...   *)
NotHandoffOnly(r) == runCtx[r] # "handoff_only"
(* ... enforceRunContextGate also refuses a handoff_required one.          *)
ContextGate(r) == runCtx[r] \notin {"handoff_required", "handoff_only"}

(* An UPDATE of a task row waits for the transaction that wrote it.        *)
RowFree(t) == lock[t] = None

OwnsRun(t, a, r) == assignee[t] = a /\ activeRun[t] = r

(* The request p leaves its phase as the record q.                         *)
MoveTo(p, q) == req' = [req EXCEPT ![p] = q]

(* Bug variant of Arrive: a handler that forgot assertProjectWritable.     *)
ArriveUnchecked(p, q) ==
  /\ q.op \in Ops
  /\ req[p] = Idle
  /\ MoveTo(p, q)

(* The request p arrives and leaves its first phase as the record q.       *)
Arrive(p, q) ==
  /\ q.op \in Ops
  /\ req[p] = Idle
  /\ ProjectWritable
  /\ MoveTo(p, q)
At(p, op, step) == req[p].op = op /\ req[p].step = step
Finish(p) == MoveTo(p, Idle)

(* A handler that stops between two phases; its transaction rolls back.    *)
Abort(p) ==
  /\ req[p] # Idle
  /\ Finish(p)
  /\ lock' = [t \in Task |-> IF lock[t] = p THEN None ELSE lock[t]]
  /\ UNCHANGED <<taskVars, runVars, handoffVars, archived, jobVars>>

---------------------------------------------------------------------------
(* Operator requests: create, delegate, cancel, archive.                   *)

CreateRead(p) ==
  /\ Arrive(p, [Idle EXCEPT !.op = "create", !.step = "write"])
  /\ UNCHANGED <<taskVars, lock, runVars, handoffVars, archived, jobVars>>

(* Bug variant of CreateWrite: the existence check of the dependencies is  *)
(* left to a later step of the caller.                                     *)
CreateWriteAnyDeps(p, t, a, par, ds) ==
  /\ At(p, "create", "write")
  /\ ~Exists(t) /\ RowFree(t)
  /\ par \in Existing \cup {None}
  /\ status' = [status EXCEPT ![t] = IF a = None THEN "planned" ELSE "delegated"]
  /\ assignee' = [assignee EXCEPT ![t] = a]
  /\ parent' = [parent EXCEPT ![t] = par]
  /\ deps' = [deps EXCEPT ![t] = ds]
  /\ Finish(p)
  /\ UNCHANGED <<activeRun, system, timedOut, attempts, freshTask, lock,
                 runVars, handoffVars, archived, jobVars>>

(* Dependencies must already exist.  The parent id is whatever was sent;   *)
(* one that names no task is never found again, like None.                 *)
CreateWrite(p, t, a, par, ds) ==
  /\ At(p, "create", "write")
  /\ ~Exists(t) /\ RowFree(t)
  /\ par \in Existing \cup {None}
  /\ ds \subseteq Existing
  /\ status' = [status EXCEPT ![t] = IF a = None THEN "planned" ELSE "delegated"]
  /\ assignee' = [assignee EXCEPT ![t] = a]
  /\ parent' = [parent EXCEPT ![t] = par]
  /\ deps' = [deps EXCEPT ![t] = ds]
  /\ Finish(p)
  /\ UNCHANGED <<activeRun, system, timedOut, attempts, freshTask, lock,
                 runVars, handoffVars, archived, jobVars>>

DelegateRead(p, t, a) ==
  /\ Exists(t)
  /\ status[t] \notin {"running", "done", "cancelled"}
  /\ TransitionAllowed(status[t], "delegated")
  /\ Arrive(p, [Idle EXCEPT !.op = "delegate", !.step = "write",
                            !.task = t, !.agent = a])
  /\ UNCHANGED <<taskVars, lock, runVars, handoffVars, archived, jobVars>>

DelegateWrite(p) ==
  LET t == req[p].task IN
  /\ At(p, "delegate", "write") /\ RowFree(t)
  /\ status' = [status EXCEPT ![t] = "delegated"]
  /\ assignee' = [assignee EXCEPT ![t] = req[p].agent]
  /\ activeRun' = [activeRun EXCEPT ![t] = None]
  /\ Finish(p)
  /\ UNCHANGED <<parent, deps, system, timedOut, attempts, freshTask, lock,
                 runVars, handoffVars, archived, jobVars>>

CancelRead(p, t) ==
  /\ Exists(t)
  /\ TransitionAllowed(status[t], "cancelled")
  /\ Arrive(p, [Idle EXCEPT !.op = "cancel", !.step = "write", !.task = t])
  /\ UNCHANGED <<taskVars, lock, runVars, handoffVars, archived, jobVars>>

CancelWrite(p) ==
  LET t == req[p].task IN
  /\ At(p, "cancel", "write") /\ RowFree(t)
  /\ status' = [status EXCEPT ![t] = "cancelled"]
  /\ timedOut' = timedOut \ {t}
  /\ Finish(p)
  /\ UNCHANGED <<assignee, activeRun, parent, deps, system, attempts, freshTask,
                 lock, runVars, handoffVars, archived, jobVars>>

(* Project service.  Archiving is final, but for a completion of the       *)
(* project that runs at the same time, which is not modelled here.         *)
Archive ==
  /\ "archive" \in Ops
  /\ ~archived
  /\ archived' = TRUE
  /\ UNCHANGED <<taskVars, lock, runVars, handoffVars, req, jobVars>>

---------------------------------------------------------------------------
(* Start and resume: the assignee puts a run on the task.                  *)

StartRead(p, t, a, r) ==
  /\ NotHandoffOnly(r)
  /\ assignee[t] = a
  /\ status[t] = "delegated"
  /\ Arrive(p, [Idle EXCEPT !.op = "start", !.step = "check",
                            !.task = t, !.agent = a, !.run = r])
  /\ UNCHANGED <<taskVars, lock, runVars, handoffVars, archived, jobVars>>

(* canResumeHeartbeatBlockedTask                                           *)
ResumableWithoutHandoff(t) ==
  /\ status[t] = "blocked"
  /\ activeRun[t] = None
  /\ t \in timedOut
  /\ DependenciesDone(t)

(* Bug variant of HandoffUsable: whoever is assigned now may use it.       *)
HandoffUsableByAnyone(h, t, a) ==
  /\ HandoffExists(h)
  /\ consumedBy[h] = None
  /\ handoffTask[h] = t

(* The handoff resumes the task it was made for, by the agent that made it. *)
HandoffUsable(h, t, a) ==
  /\ HandoffExists(h)
  /\ consumedBy[h] = None
  /\ handoffTask[h] = t
  /\ handoffAgent[h] = a

ResumeRead(p, t, a, r, h) ==
  /\ NotHandoffOnly(r)
  /\ assignee[t] = a
  /\ IF h = None THEN ResumableWithoutHandoff(t) ELSE HandoffUsable(h, t, a)
  /\ Arrive(p, [Idle EXCEPT !.op = "resume", !.step = "check", !.task = t,
                            !.agent = a, !.run = r, !.handoff = h,
                            !.prev = activeRun[t]])
  /\ UNCHANGED <<taskVars, lock, runVars, handoffVars, archived, jobVars>>

(* ensureRunExists: a known run must be the caller's, whatever its status; *)
(* an unknown one is inserted.                                             *)
EnsureRunExists(r, a) ==
  IF RunExists(r)
  THEN runAgent[r] = a /\ UNCHANGED <<runAgent, runStatus, freshRun>>
  ELSE /\ runAgent' = [runAgent EXCEPT ![r] = a]
       /\ runStatus' = [runStatus EXCEPT ![r] = "active"]
       /\ freshRun' = freshRun \cup {r}

EnsureRun(p) ==
  LET q == req[p] IN
  /\ q.op \in {"start", "resume"} /\ q.step = "check"
  /\ q.op = "start" => DependenciesDone(q.task)
  /\ EnsureRunExists(q.run, q.agent)
  /\ ContextGate(q.run)
  /\ MoveTo(p, [q EXCEPT !.step = "write"])
  /\ UNCHANGED <<taskVars, lock, runCtx, handoffVars, archived, jobVars>>

(* Bug variant of StillAssigned: an UPDATE by id alone.                    *)
AssignedWhenRead(p) == TRUE

(* The only condition of either UPDATE: the row is still assigned to the   *)
(* caller.                                                                 *)
StillAssigned(p) == assignee[req[p].task] = req[p].agent

PutRun(t, r) ==
  /\ status' = [status EXCEPT ![t] = "running"]
  /\ activeRun' = [activeRun EXCEPT ![t] = r]
  /\ freshTask' = freshTask \cup {t}

StartWrite(p) ==
  LET q == req[p] IN
  /\ At(p, "start", "write") /\ RowFree(q.task)
  /\ StillAssigned(p)
  /\ PutRun(q.task, q.run)
  /\ Finish(p)
  /\ UNCHANGED <<assignee, parent, deps, system, timedOut, attempts, lock,
                 runVars, handoffVars, archived, jobVars>>

(* Not assigned any more: no row is updated and the handler still answers  *)
(* with the task.                                                          *)
StartWriteNoRow(p) ==
  /\ At(p, "start", "write") /\ RowFree(req[p].task)
  /\ ~StillAssigned(p)
  /\ Finish(p)
  /\ UNCHANGED <<taskVars, lock, runVars, handoffVars, archived, jobVars>>

ConsumeHandoff(h, r) ==
  consumedBy' = [x \in Handoff |-> IF x = h /\ consumedBy[x] = None
                                   THEN r ELSE consumedBy[x]]
(* Bug variant of EndPreviousRun: the end reason goes to the status column. *)
EndPreviousRunByReason(prev, r) ==
  runStatus' = [x \in Run |-> IF x = prev /\ prev # r /\ RunExists(x)
                              THEN "superseded_by_resume" ELSE runStatus[x]]
EndPreviousRun(prev, r) ==
  runStatus' = [x \in Run |-> IF x = prev /\ prev # r /\ RunExists(x)
                              THEN "ended" ELSE runStatus[x]]

(* One transaction: consume the handoff, end the run it supersedes, put    *)
(* the new one.  Not assigned any more: it rolls back (Abort).             *)
ResumeWrite(p) ==
  LET q == req[p] IN
  /\ At(p, "resume", "write") /\ RowFree(q.task)
  /\ StillAssigned(p)
  /\ ConsumeHandoff(q.handoff, q.run)
  /\ EndPreviousRun(q.prev, q.run)
  /\ PutRun(q.task, q.run)
  /\ timedOut' = timedOut \ {q.task}
  /\ Finish(p)
  /\ UNCHANGED <<assignee, parent, deps, system, attempts, lock, runAgent,
                 runCtx, freshRun, handoffTask, handoffAgent, archived, jobVars>>

---------------------------------------------------------------------------
(* Heartbeat, context report and handoff of the agent working on a task.   *)

HeartbeatAllowed(r) == NotHandoffOnly(r)

HeartbeatRead(p, t, a, r) ==
  /\ HeartbeatAllowed(r)
  /\ Arrive(p, [Idle EXCEPT !.op = "heartbeat", !.step = "write",
                            !.task = t, !.agent = a, !.run = r])
  /\ UNCHANGED <<taskVars, lock, runVars, handoffVars, archived, jobVars>>

(* The UPDATE names the assignee, the run and the status: the only handler *)
(* that checks all of them in the statement that writes.                   *)
HeartbeatWrite(p) ==
  LET t == req[p].task
      r == req[p].run IN
  /\ At(p, "heartbeat", "write") /\ RowFree(t)
  /\ OwnsRun(t, req[p].agent, r) /\ status[t] = "running"
  /\ freshTask' = freshTask \cup {t}
  /\ freshRun' = IF runAgent[r] = req[p].agent /\ runStatus[r] # "ended"
                 THEN freshRun \cup {r} ELSE freshRun
  /\ Finish(p)
  /\ UNCHANGED <<status, assignee, activeRun, parent, deps, system, timedOut,
                 attempts, lock, runAgent, runStatus, runCtx, handoffVars,
                 archived, jobVars>>

ReportRead(p, a, r, c) ==
  /\ runStatus[r] = "active" /\ runAgent[r] = a
  /\ Arrive(p, [Idle EXCEPT !.op = "report", !.step = "write",
                            !.agent = a, !.run = r, !.ctx = c])
  /\ UNCHANGED <<taskVars, lock, runVars, handoffVars, archived, jobVars>>

ReportWrite(p) ==
  /\ At(p, "report", "write")
  /\ runCtx' = [runCtx EXCEPT ![req[p].run] = req[p].ctx]
  /\ freshRun' = freshRun \cup {req[p].run}
  /\ Finish(p)
  /\ UNCHANGED <<taskVars, lock, runAgent, runStatus, handoffVars, archived,
                 jobVars>>

(* The handoff names the agent twice: it comes from and goes to the caller. *)
HandoffRead(p, t, a) ==
  /\ assignee[t] = a /\ activeRun[t] # None
  /\ Arrive(p, [Idle EXCEPT !.op = "handoff", !.step = "write",
                            !.task = t, !.agent = a])
  /\ UNCHANGED <<taskVars, lock, runVars, handoffVars, archived, jobVars>>

HandoffWrite(p, h) ==
  /\ At(p, "handoff", "write")
  /\ ~HandoffExists(h)
  /\ handoffTask' = [handoffTask EXCEPT ![h] = req[p].task]
  /\ handoffAgent' = [handoffAgent EXCEPT ![h] = req[p].agent]
  /\ Finish(p)
  /\ UNCHANGED <<taskVars, lock, runVars, consumedBy, archived, jobVars>>

---------------------------------------------------------------------------
(* Submit, review, fail.                                                   *)

SubmitRead(p, t, a, r) ==
  /\ status[t] = "running" /\ OwnsRun(t, a, r)
  /\ ContextGate(r)
  /\ Arrive(p, [Idle EXCEPT !.op = "submit", !.step = "write",
                            !.task = t, !.agent = a, !.run = r])
  /\ UNCHANGED <<taskVars, lock, runVars, handoffVars, archived, jobVars>>

(* Bug variant of SubmitUpdate: the task is only written at the end of the *)
(* transaction, so its row is not locked during the search.                *)
SubmitWithoutLock(p) ==
  /\ At(p, "submit", "write")
  /\ MoveTo(p, [req[p] EXCEPT !.step = "find"])
  /\ UNCHANGED <<taskVars, lock, runVars, handoffVars, archived, jobVars>>

(* The UPDATE takes the row lock; nothing is visible before the commit.    *)
SubmitUpdate(p) ==
  LET t == req[p].task IN
  /\ At(p, "submit", "write") /\ RowFree(t)
  /\ lock' = [lock EXCEPT ![t] = p]
  /\ MoveTo(p, [req[p] EXCEPT !.step = "find"])
  /\ UNCHANGED <<taskVars, runVars, handoffVars, archived, jobVars>>

ReviewTasksOf(t) == {v \in system : parent[v] = t}

(* ensureReviewTaskTx: is there a system review task, whatever its status? *)
SubmitFind(p) ==
  /\ At(p, "submit", "find")
  /\ MoveTo(p, [req[p] EXCEPT !.step = "commit",
                        !.found = (ReviewTasksOf(req[p].task) # {})])
  /\ UNCHANGED <<taskVars, lock, runVars, handoffVars, archived, jobVars>>

(* A new one is delegated to the reviewer agent if there is one.           *)
InsertReviewTask(t, v) ==
  /\ ~Exists(v) /\ RowFree(v)
  /\ status' = [status EXCEPT ![t] = "submitted",
                  ![v] = IF Reviewer = None THEN "planned" ELSE "delegated"]
  /\ assignee' = [assignee EXCEPT ![v] = Reviewer]
  /\ parent' = [parent EXCEPT ![v] = t]
  /\ system' = system \cup {v}

SubmitCommit(p, v) ==
  LET t == req[p].task IN
  /\ At(p, "submit", "commit")
  /\ IF req[p].found
     THEN /\ v = t
          /\ status' = [status EXCEPT ![t] = "submitted"]
          /\ UNCHANGED <<assignee, parent, system>>
     ELSE InsertReviewTask(t, v)
  /\ lock' = [lock EXCEPT ![t] = None]
  /\ Finish(p)
  /\ UNCHANGED <<activeRun, deps, timedOut, attempts, freshTask, runVars,
                 handoffVars, archived, jobVars>>

(* Any task with a parent can be reviewed: neither status is looked at.    *)
ReviewRead(p, v) ==
  /\ Exists(v) /\ parent[v] # None
  /\ Arrive(p, [Idle EXCEPT !.op = "review", !.step = "write", !.task = v])
  /\ UNCHANGED <<taskVars, lock, runVars, handoffVars, archived, jobVars>>

ReviewWrite(p, approve) ==
  LET v == req[p].task
      t == parent[v] IN
  /\ At(p, "review", "write") /\ RowFree(v) /\ RowFree(t)
  /\ status' = [status EXCEPT ![v] = "done",
                              ![t] = IF approve THEN "done" ELSE "delegated"]
  /\ activeRun' = [activeRun EXCEPT ![t] = None]
  /\ timedOut' = timedOut \ {t}
  /\ Finish(p)
  /\ UNCHANGED <<assignee, parent, deps, system, attempts, freshTask, lock,
                 runVars, handoffVars, archived, jobVars>>

FailRead(p, t, a, r) ==
  /\ NotHandoffOnly(r)
  /\ OwnsRun(t, a, r)
  /\ status[t] \in {"running", "delegated"}
  /\ Arrive(p, [Idle EXCEPT !.op = "fail", !.step = "check", !.task = t,
                            !.agent = a, !.run = r])
  /\ UNCHANGED <<taskVars, lock, runVars, handoffVars, archived, jobVars>>

(* Bug variant of FailCount: the last attempt is found one too early.      *)
FailCountEarly(p) ==
  LET t == req[p].task IN
  /\ At(p, "fail", "check")
  /\ attempts[t] < AttemptBound
  /\ MoveTo(p, [req[p] EXCEPT !.step = "write",
                        !.last = (attempts[t] + 2 >= MaxAttempts)])
  /\ UNCHANGED <<taskVars, lock, runVars, handoffVars, archived, jobVars>>

FailCount(p) ==
  LET t == req[p].task IN
  /\ At(p, "fail", "check")
  /\ attempts[t] < AttemptBound
  /\ MoveTo(p, [req[p] EXCEPT !.step = "write",
                        !.last = (attempts[t] + 1 >= MaxAttempts)])
  /\ UNCHANGED <<taskVars, lock, runVars, handoffVars, archived, jobVars>>

(* Bug variant of FailWrite: a task to be retried keeps its run.           *)
FailKeepsRun(p) ==
  LET t == req[p].task IN
  /\ At(p, "fail", "write") /\ RowFree(t)
  /\ status' = [status EXCEPT ![t] = IF req[p].last THEN "failed" ELSE "delegated"]
  /\ attempts' = [attempts EXCEPT ![t] = attempts[t] + 1]
  /\ timedOut' = timedOut \ {t}
  /\ Finish(p)
  /\ UNCHANGED <<assignee, activeRun, parent, deps, system, freshTask, lock,
                 runVars, handoffVars, archived, jobVars>>

FailWrite(p) ==
  LET t == req[p].task
      last == req[p].last IN
  /\ At(p, "fail", "write") /\ RowFree(t)
  /\ status' = [status EXCEPT ![t] = IF last THEN "failed" ELSE "delegated"]
  /\ activeRun' = [activeRun EXCEPT ![t] = IF last THEN activeRun[t] ELSE None]
  /\ attempts' = [attempts EXCEPT ![t] = attempts[t] + 1]
  /\ timedOut' = timedOut \ {t}
  /\ Finish(p)
  /\ UNCHANGED <<assignee, parent, deps, system, freshTask, lock, runVars,
                 handoffVars, archived, jobVars>>

---------------------------------------------------------------------------
(* The worker's active-run timeout job, BlockTimedOutRunningTasks: a list  *)
(* of stale running tasks, then two statements for each of them.  The      *)
(* scheduler starts the next run of a job, and the maintenance at startup, *)
(* without waiting for the one before.                                     *)

(* A heartbeat grows older than the timeout.                               *)
AgeTask(t) ==
  /\ "watchdog" \in Ops /\ t \in freshTask
  /\ freshTask' = freshTask \ {t}
  /\ UNCHANGED <<status, assignee, activeRun, parent, deps, system, timedOut,
                 attempts, lock, runVars, handoffVars, archived, req, jobVars>>

AgeRun(r) ==
  /\ "watchdog" \in Ops /\ r \in freshRun
  /\ freshRun' = freshRun \ {r}
  /\ UNCHANGED <<taskVars, lock, runAgent, runStatus, runCtx, handoffVars,
                 archived, req, jobVars>>

(* GREATEST of the task's and its active run's heartbeat is too old.       *)
HeartbeatStale(t) == t \notin freshTask /\ activeRun[t] \notin freshRun

(* Bug variant of TimedOutTasks: the join only finds runs not yet ended.   *)
TimedOutTasksOfLiveRuns ==
  {t \in Task : /\ status[t] = "running" /\ HeartbeatStale(t)
                /\ \E r \in Run : activeRun[t] = r /\ runStatus[r] = "active"}

TimedOutTasks == {t \in Task : status[t] = "running" /\ HeartbeatStale(t)}

WatchdogScan(j) ==
  /\ "watchdog" \in Ops
  /\ stale[j] = {} /\ runToEnd[j] = None
  /\ TimedOutTasks # {}
  /\ stale' = [stale EXCEPT ![j] = {<<t, activeRun[t]>> : t \in TimedOutTasks}]
  /\ UNCHANGED <<taskVars, lock, runVars, handoffVars, archived, req, runToEnd>>

(* Bug variant of WatchdogBlock: the task is blocked without the reason    *)
(* that canResumeHeartbeatBlockedTask looks for.                           *)
WatchdogBlockNoReason(j, t, r) ==
  /\ <<t, r>> \in stale[j] /\ runToEnd[j] = None
  /\ RowFree(t)
  /\ stale' = [stale EXCEPT ![j] = @ \ {<<t, r>>}]
  /\ IF status[t] = "running"
     THEN /\ status' = [status EXCEPT ![t] = "blocked"]
          /\ activeRun' = [activeRun EXCEPT ![t] = None]
          /\ runToEnd' = [runToEnd EXCEPT ![j] = r]
     ELSE UNCHANGED <<status, activeRun, runToEnd>>
  /\ UNCHANGED <<assignee, parent, deps, system, timedOut, attempts, freshTask, lock,
                 runVars, handoffVars, archived, req>>

(* The UPDATE only asks that the task is still running.                    *)
WatchdogBlock(j, t, r) ==
  /\ <<t, r>> \in stale[j] /\ runToEnd[j] = None
  /\ RowFree(t)
  /\ stale' = [stale EXCEPT ![j] = @ \ {<<t, r>>}]
  /\ IF status[t] = "running"
     THEN /\ status' = [status EXCEPT ![t] = "blocked"]
          /\ activeRun' = [activeRun EXCEPT ![t] = None]
          /\ timedOut' = timedOut \cup {t}
          /\ runToEnd' = [runToEnd EXCEPT ![j] = r]
     ELSE UNCHANGED <<status, activeRun, timedOut, runToEnd>>
  /\ UNCHANGED <<assignee, parent, deps, system, attempts, freshTask, lock,
                 runVars, handoffVars, archived, req>>

(* The run of the row as it was listed is ended, not the one just cleared; *)
(* an error of this UPDATE is ignored.                                     *)
WatchdogEndRun(j) ==
  /\ runToEnd[j] # None
  /\ \/ runStatus' = [runStatus EXCEPT ![runToEnd[j]] = "ended"]
     \/ UNCHANGED runStatus
  /\ runToEnd' = [runToEnd EXCEPT ![j] = None]
  /\ UNCHANGED <<taskVars, lock, runAgent, runCtx, freshRun, handoffVars,
                 archived, req, stale>>

(* An SQL error or a shutdown drops the rest of the list.  Without a       *)
(* running task in it the rest would come to nothing anyway.               *)
WatchdogStop(j) ==
  /\ runToEnd[j] = None
  /\ \E e \in stale[j] : status[e[1]] = "running"
  /\ stale' = [stale EXCEPT ![j] = {}]
  /\ UNCHANGED <<taskVars, lock, runVars, handoffVars, archived, req, runToEnd>>

---------------------------------------------------------------------------
OperatorStep(p) ==
  \/ CreateRead(p)
  \/ \E t \in Task, a \in Agent \cup {None}, par \in ParentInputs,
        ds \in DepInputs : CreateWrite(p, t, a, par, ds)
  \/ \E t \in Task, a \in Agent : DelegateRead(p, t, a)
  \/ DelegateWrite(p)
  \/ \E t \in Task : CancelRead(p, t)
  \/ CancelWrite(p)

RunStep(p) ==
  \/ \E t \in Task, a \in Agent, r \in Run : StartRead(p, t, a, r)
  \/ \E t \in Task, a \in Agent, r \in Run, h \in Handoff \cup {None} :
        ResumeRead(p, t, a, r, h)
  \/ EnsureRun(p)
  \/ StartWrite(p)
  \/ StartWriteNoRow(p)
  \/ ResumeWrite(p)

OutcomeStep(p) ==
  \/ \E t \in Task, a \in Agent, r \in Run : SubmitRead(p, t, a, r)
  \/ SubmitUpdate(p)
  \/ SubmitFind(p)
  \/ \E v \in Task : SubmitCommit(p, v)
  \/ \E v \in Task : ReviewRead(p, v)
  \/ \E approve \in BOOLEAN : ReviewWrite(p, approve)
  \/ \E t \in Task, a \in Agent, r \in Run : FailRead(p, t, a, r)
  \/ FailCount(p)
  \/ FailWrite(p)

AgentStep(p) ==
  \/ \E t \in Task, a \in Agent, r \in Run : HeartbeatRead(p, t, a, r)
  \/ HeartbeatWrite(p)
  \/ \E a \in Agent, r \in Run, c \in Ctx : ReportRead(p, a, r, c)
  \/ ReportWrite(p)
  \/ \E t \in Task, a \in Agent : HandoffRead(p, t, a)
  \/ \E h \in Handoff : HandoffWrite(p, h)

WatchdogStep(j) ==
  \/ WatchdogScan(j)
  \/ \E t \in Task, r \in Run \cup {None} : WatchdogBlock(j, t, r)
  \/ WatchdogEndRun(j)
  \/ WatchdogStop(j)

Next ==
  \/ \E p \in Proc :
        OperatorStep(p) \/ RunStep(p) \/ AgentStep(p) \/ OutcomeStep(p) \/ Abort(p)
  \/ Archive
  \/ \E j \in Job : WatchdogStep(j)
  \/ \E t \in Task : AgeTask(t)
  \/ \E r \in Run : AgeRun(r)

Spec == Init /\ [][Next]_vars

(* No request stays in flight for ever (it ends or its context is          *)
(* cancelled), the scheduler calls the timeout job again and again, an     *)
(* UPDATE waiting for a row lock gets it in turn, and from some moment on  *)
(* the job is not stopped by an SQL error.                                 *)
Fairness ==
  /\ \A p \in Proc : WF_vars(Abort(p))
  /\ \A j \in Job :
        /\ WF_vars(WatchdogScan(j)) /\ WF_vars(WatchdogEndRun(j))
        /\ \A t \in Task : SF_vars(\E r \in Run \cup {None} : WatchdogBlock(j, t, r))
        /\ <>[][~WatchdogStop(j)]_vars

FairSpec == Spec /\ Fairness

=============================================================================
