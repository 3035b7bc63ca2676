-------------------------- MODULE TaskAssignment --------------------------
(***************************************************************************)
(* What the task service promises about who works on what, without its     *)
(* statuses, handoffs, requests in flight and jobs: a task is handed to an *)
(* agent, the agent puts runs of its own on it, and handing the task to    *)
(* somebody else takes the run off it.  TaskService implements this: see   *)
(* TaskSafety!Assignment.                                                  *)
(***************************************************************************)
CONSTANTS Task, Agent, Run, None

VARIABLES owner,    \* the agent each task is handed to, or None
          current,  \* the run working on each task, or None
          holder    \* the agent each run was registered by, or None

vars == <<owner, current, holder>>

Init ==
  /\ owner = [t \in Task |-> None]
  /\ current = [t \in Task |-> None]
  /\ holder = [r \in Run |-> None]

HandTo(t, a) ==
  /\ owner' = [owner EXCEPT ![t] = a]
  /\ current' = [current EXCEPT ![t] = None]
  /\ UNCHANGED holder

(* A run belongs to the agent that registered it for ever.                 *)
Register(r, a) ==
  /\ holder[r] = None
  /\ holder' = [holder EXCEPT ![r] = a]
  /\ UNCHANGED <<owner, current>>

Work(t, r) ==
  /\ owner[t] # None /\ holder[r] = owner[t]
  /\ current' = [current EXCEPT ![t] = r]
  /\ UNCHANGED <<owner, holder>>

Release(t) ==
  /\ current' = [current EXCEPT ![t] = None]
  /\ UNCHANGED <<owner, holder>>

Next ==
  \/ \E t \in Task, a \in Agent : HandTo(t, a)
  \/ \E r \in Run, a \in Agent : Register(r, a)
  \/ \E t \in Task, r \in Run : Work(t, r)
  \/ \E t \in Task : Release(t)

Spec == Init /\ [][Next]_vars

=============================================================================
