--------------------------- MODULE TaskInvariant ---------------------------
(***************************************************************************)
(* The inductive strengthening of the invariants of TaskSafety: what must  *)
(* be known of rows that do not exist yet, of requests between two of      *)
(* their phases and of the timeout job between its two statements.         *)
(***************************************************************************)
EXTENDS TaskSafety

(* The fields a request uses are set.                                      *)
RequestWellFormed ==
  \A p \in Proc : LET q == req[p] IN
    /\ q.op \in {"start", "resume", "heartbeat", "submit", "delegate",
                 "cancel", "review", "fail", "handoff"} => q.task \in Task
    /\ q.op \in {"start", "resume", "heartbeat", "report"} => q.run \in Run
    /\ q.op \in {"start", "resume", "delegate", "handoff"} => q.agent \in Agent

(* A row that does not exist holds nothing and nothing points to it.       *)
AbsentRows ==
  \A t \in Task : ~Exists(t) =>
    /\ assignee[t] = None /\ activeRun[t] = None
    /\ t \notin system
    /\ \A u \in Task : t \notin deps[u]

(* A run exists when, and only when, it has an agent.                      *)
RunsHaveAgents == \A r \in Run : RunExists(r) <=> runAgent[r] # None

(* What the timeout job still has to do names runs that exist.             *)
JobNamesRuns ==
  \A j \in Job :
    /\ \A e \in stale[j] : e[2] # None => runAgent[e[2]] # None
    /\ runToEnd[j] # None => runAgent[runToEnd[j]] # None

(* Past ensureRunExists the run of a start or resume is the caller's.      *)
CheckedRunIsCallers ==
  \A p \in Proc : LET q == req[p] IN
    (q.op \in {"start", "resume"} /\ q.step = "write") => runAgent[q.run] = q.agent

(* A handoff names the agent that made it.                                 *)
HandoffsHaveAgents ==
  \A h \in Handoff : HandoffExists(h) => handoffAgent[h] # None

(* The handoff of a resume was made by the caller.                         *)
HandoffIsCallers ==
  \A p \in Proc : LET q == req[p] IN
    (q.op = "resume" /\ q.handoff # None) =>
       HandoffExists(q.handoff) /\ handoffAgent[q.handoff] = q.agent

(* The count a fail has read is still a lower bound.                       *)
LastAttemptCounted ==
  \A p \in Proc : LET q == req[p] IN
    (q.op = "fail" /\ q.step = "write" /\ q.last) =>
       attempts[q.task] + 1 >= MaxAttempts

(* From its UPDATE to its commit a submit holds the row lock, and what it  *)
(* found out about the review task stays true.                             *)
SubmitHoldsLock ==
  \A p \in Proc : LET q == req[p] IN
    (q.op = "submit" /\ q.step \in {"find", "commit"}) =>
       /\ lock[q.task] = p
       /\ q.step = "commit" => (q.found <=> ReviewTasksOf(q.task) # {})

IInv ==
  /\ TypeOK /\ RequestWellFormed /\ AbsentRows /\ RunsHaveAgents /\ JobNamesRuns
  /\ CheckedRunIsCallers /\ HandoffsHaveAgents /\ HandoffIsCallers
  /\ LastAttemptCounted /\ SubmitHoldsLock
  /\ ActiveRunOwnedByAssignee /\ StatusAgreesWithRun /\ OneReviewPerSubmission
  /\ NoDependencyCycle /\ BlockedIsResumable /\ FailedIsExhausted
  /\ HandoffConsumedByItsAgent

=============================================================================
