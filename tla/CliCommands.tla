----------------------------- MODULE CliCommands -----------------------------
(***************************************************************************)
(* The calls the commands "aitask task", "aitask context", "aitask run"    *)
(* and "aitask room" make of the backend (cli/internal/cli/command_*.go),  *)
(* each with the calls its flags let it leave out.  A command makes one    *)
(* call after the other and ends at the first that fails (only "context    *)
(* handoff prepare" goes on), so what it has asked for is always the       *)
(* beginning of one of its sequences.                                      *)
(***************************************************************************)
EXTENDS GatewayRules

Rest(op) == [front |-> "rest", op |-> op]
Rpc(op) == [front |-> "rpc", op |-> op]

\* The calls of a command that first looks something up, or need not.
Then(lookups, last) == {Append(s, last) : s \in lookups}

-----------------------------------------------------------------------------
\* Without --task the current task is asked for; without --run the run of the
\* current task is taken, or else the one of the task.
ResolveRun(taskGiven) ==
  IF taskGiven THEN {<<>>, <<Rest("getTask")>>}
  ELSE {<<Rpc("getCurrentTask")>>,
        <<Rpc("getCurrentTask"), Rest("getTask")>>}

\* An agent type is looked up among the agents, an agent id is not.
ResolveTarget == {<<>>, <<Rest("listAgents")>>}

\* Without --task, or for "run end" without --run.
ResolveTask == {<<>>, <<Rpc("getCurrentTask")>>}

TaskLooks ==
  [taskCurrent |-> {<<Rpc("getCurrentTask")>>},
   taskInbox   |-> {<<Rpc("whoAmI"), Rest("listOwnTasks")>>},
   taskDetail  |-> {<<Rest("getTask")>>}]

\* "submit" and "fail" are given the task, "checkpoint" asks for it.
TaskRuns ==
  [taskStart      |-> {<<Rpc("startTask")>>},
   taskHeartbeat  |-> Then(ResolveRun(TRUE) \cup ResolveRun(FALSE),
                           Rest("heartbeatTask")),
   taskCheckpoint |-> Then(ResolveRun(TRUE), Rest("heartbeatTask")),
   taskSubmit     |-> Then(ResolveRun(TRUE), Rpc("submitTask")),
   taskFail       |-> Then(ResolveRun(TRUE), Rest("failTask"))]

TaskPlans ==
  [taskReview |-> {<<Rest("reviewTask")>>},
   taskCreate |-> Then(ResolveTarget, Rest("createTask")),
   taskResume |-> {<<Rest("resumeTask")>>}]

RunEnd == Then(ResolveTask, Rest("failTask"))

\* "report" asks for the run and the budget it is not given.
ContextReports ==
  [contextStatus  |-> {<<Rpc("bootstrap")>>},
   contextReport  |-> Then({<<>>, <<Rpc("bootstrap")>>},
                           Rpc("reportContext")),
   contextCompact |-> {<<Rest("searchMemory")>>}]

Handoffs ==
  [handoffPrepare |-> {<<Rpc("getCurrentTask"), Rpc("bootstrap")>>},
   handoffSubmit  |-> Then(ResolveTask, Rpc("createHandoff")),
   handoffCurrent |-> {<<Rpc("getCurrentHandoff")>>}]

RoomCommands ==
  [roomJoin    |-> {<<Rest("getRoom")>>},
   roomSend    |-> {<<Rest("sendMessage")>>},
   roomHistory |-> {<<Rest("listMentions")>>, <<Rest("listMessages")>>},
   roomAsk     |-> {<<Rest("sendMessage")>>},
   roomPin     |-> {<<Rest("pinMessage")>>}]

Sequences ==
  LET of(table) == UNION {table[k] : k \in DOMAIN table}
  IN  of(TaskLooks) \cup of(TaskRuns) \cup of(TaskPlans) \cup RunEnd
      \cup of(ContextReports) \cup of(Handoffs) \cup of(RoomCommands)

-----------------------------------------------------------------------------
\* The operations that change something.
Writes == WritableOps \cup BodyOps

\* A command asks each front end only for what it serves.
EveryCallIsServed ==
  \A s \in Sequences : \A n \in DOMAIN s :
    s[n].op \in IF s[n].front = "rest" THEN RestOps ELSE RpcOps

\* Only the last call of a command changes something: one that fails on its
\* way leaves nothing half done, and one typed again repeats at most its last
\* call.
OnlyTheLastCallWrites ==
  \A s \in Sequences : \A n \in DOMAIN s :
    n < Len(s) => s[n].op \notin Writes
=============================================================================
