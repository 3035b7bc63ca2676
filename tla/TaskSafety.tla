----------------------------- MODULE TaskSafety -----------------------------
(***************************************************************************)
(* What the task service must guarantee, and what its documents, messages  *)
(* and tests say of it that the code does not do.                          *)
(***************************************************************************)
EXTENDS TaskService

(* Every column, request and job variable keeps the values the code gives  *)
(* it; in particular statuses are those of model.go and runs are 'active'  *)
(* or 'ended'.                                                             *)
TypeOK ==
  /\ status \in [Task -> Status \cup {"absent"}]
  /\ assignee \in [Task -> Agent \cup {None}]
  /\ activeRun \in [Task -> Run \cup {None}]
  /\ parent \in [Task -> Task \cup {None}]
  /\ deps \in [Task -> SUBSET Task]
  /\ system \subseteq Task /\ timedOut \subseteq Task /\ freshTask \subseteq Task
  /\ attempts \in [Task -> Nat]
  /\ lock \in [Task -> Proc \cup {None}]
  /\ runAgent \in [Run -> Agent \cup {None}]
  /\ runStatus \in [Run -> RunStatus \cup {"absent"}]
  /\ runCtx \in [Run -> Ctx]
  /\ freshRun \subseteq Run
  /\ handoffTask \in [Handoff -> Task \cup {None}]
  /\ handoffAgent \in [Handoff -> Agent \cup {None}]
  /\ consumedBy \in [Handoff -> Run \cup {None}]
  /\ archived \in BOOLEAN
  /\ req \in [Proc -> Request]
  /\ stale \in [Job -> SUBSET (Task \X (Run \cup {None}))]
  /\ runToEnd \in [Job -> Run \cup {None}]

---------------------------------------------------------------------------
(* Invariants.                                                             *)

(* A run working on a task is registered, by the agent the task is         *)
(* assigned to.  A start or resume that was checked before the task was    *)
(* delegated to somebody else must not put its run on the task             *)
(* (UPDATE ... WHERE assignee_agent_id = $4).                              *)
ActiveRunOwnedByAssignee ==
  \A t \in Task : activeRun[t] # None =>
    /\ RunExists(activeRun[t])
    /\ runAgent[activeRun[t]] = assignee[t]

(* A running task has a run; a planned, delegated or blocked one has none, *)
(* whichever of a fail, review, delegate, resume or timeout wrote the row  *)
(* last.                                                                   *)
StatusAgreesWithRun ==
  \A t \in Task :
    /\ status[t] = "running" => activeRun[t] # None
    /\ status[t] \in {"absent", "planned", "delegated", "blocked"}
         => activeRun[t] = None

(* A task never has two system review tasks, and a submitted one has its   *)
(* review task, although two submits may look for it at the same time      *)
(* (ensureReviewTaskTx under the row lock taken by the UPDATE before it).  *)
OneReviewPerSubmission ==
  \A t \in Task :
    /\ \A u, v \in ReviewTasksOf(t) : u = v
    /\ status[t] = "submitted" => ReviewTasksOf(t) # {}

(* No task depends on itself through others: every set of tasks has one    *)
(* that depends on none of the set, so dependenciesDone never waits for a  *)
(* cycle.                                                                  *)
NoDependencyCycle ==
  \A S \in (SUBSET Task) \ {{}} : \E t \in S : deps[t] \cap S = {}

(* A blocked task carries the reason canResumeHeartbeatBlockedTask asks    *)
(* for, no run and an assignee who may resume it: the timeout job never    *)
(* leaves a task that nobody can take up again.                            *)
BlockedIsResumable ==
  \A t \in Task : status[t] = "blocked" =>
     t \in timedOut /\ activeRun[t] = None /\ assignee[t] # None

(* A task fails for good only after max_attempts attempts, also when two   *)
(* fails read the count before either of them increments it.               *)
FailedIsExhausted ==
  \A t \in Task : status[t] = "failed" => attempts[t] >= MaxAttempts

(* A handoff is consumed by a run of the agent it was made by.             *)
HandoffConsumedByItsAgent ==
  \A h \in Handoff : consumedBy[h] # None =>
    /\ HandoffExists(h)
    /\ runAgent[consumedBy[h]] = handoffAgent[h]

---------------------------------------------------------------------------
(* Action properties, refinement, liveness.                                *)

(* Once the project is archived no further request gets past               *)
(* assertProjectWritable: when the last request in flight has ended, the   *)
(* only thing that still happens to a task is that a running one is        *)
(* blocked by the timeout job.                                             *)
ArchivedDrains ==
  [][archived =>
       /\ \A p \in Proc : req[p] = Idle => req'[p] = Idle
       /\ (\A p \in Proc : req[p] = Idle) =>
            \A t \in Task : status'[t] # status[t] =>
                              status[t] = "running" /\ status'[t] = "blocked"]_vars

(* Handing out tasks, registering runs and putting them on tasks happens   *)
(* as TaskAssignment says.                                                 *)
Assignment == INSTANCE TaskAssignment
  WITH owner <- assignee, current <- activeRun, holder <- runAgent

AssignmentSpec == Assignment!Spec

(* A running task whose heartbeats stopped does not stay that way: it is   *)
(* blocked by the timeout job, written by a request or heard of again.     *)
StaleTaskIsBlocked ==
  \A t \in Task :
    (status[t] = "running" /\ HeartbeatStale(t))
      ~> ~(status[t] = "running" /\ HeartbeatStale(t))

=============================================================================
