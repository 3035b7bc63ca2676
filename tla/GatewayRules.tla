---------------------------- MODULE GatewayRules ----------------------------
(***************************************************************************)
(* What the two front ends of the backend decide before and after a        *)
(* service call: which scopes an agent needs, and which answer an error of *)
(* a service becomes.  The REST handlers (core/internal/http/handlers) and *)
(* the Connect handlers (core/internal/rpc/server.go) each have tables of  *)
(* their own, so each table here is one file's.  Services are never nil in *)
(* the server that main.go builds; the answers for that case are left out. *)
(***************************************************************************)
EXTENDS Naturals, Sequences

Yes == [code |-> "OK", retry |-> FALSE]
No(code) == [code |-> code, retry |-> FALSE]
Again(code) == [code |-> code, retry |-> TRUE]

-----------------------------------------------------------------------------
(* Scopes: an agent needs one of the set; an empty set asks for none.      *)

TaskReadScope ==
  LET any == {"task:read:own", "task:read:delegated", "task:read:tree"}
  IN  [listOwnTasks   |-> {"task:read:own"},
       listTasks      |-> {"task:read:delegated", "task:read:tree"},
       getTask        |-> any,
       listTaskEvents |-> any]

TaskPlanScope ==
  [createTask   |-> {"task:create"},
   updateTask   |-> {"task:update:delegated"},
   delegateTask |-> {"task:delegate:codex", "task:delegate:gemini"},
   cancelTask   |-> {}]

TaskRunScope ==
  [startTask     |-> {"task:start:delegated"},
   heartbeatTask |-> {"task:update:delegated"},
   submitTask    |-> {"task:submit:delegated"},
   reviewTask    |-> {"task:review"},
   failTask      |-> {},
   resumeTask    |-> {"task:start:delegated"}]

ArtifactScope == [listArtifacts |-> {}, getArtifact |-> {}]

RoomScope ==
  [getRoom           |-> {"room:read"},
   listMessages      |-> {"room:history", "room:read"},
   sendMessage       |-> {"room:write"},
   listMentions      |-> {"room:mention"},
   getUnreadMentions |-> {"room:mention"},
   markMessageRead   |-> {"room:mention"},
   pinMessage        |-> {"room:pin"}]

MemoryReadScope ==
  [listMemory   |-> {"memory:read"},
   searchMemory |-> {"memory:search"},
   readMemory   |-> {"memory:read"},
   listSkills   |-> {"memory:read"},
   showSkill    |-> {"memory:read"}]

\* A write is one operation per target: the scope depends on it.
MemoryWriteScope ==
  [writeDecisions |-> {"memory:write:decision", "memory:write"},
   writeSummary   |-> {"memory:write:summary", "memory:write"},
   writeReport    |-> {"memory:write:summary", "memory:write"},
   writeHandoff   |-> {"memory:write:handoff", "memory:write"}]

AgentWrites == {"writeDecisions", "writeSummary"}

ResourceScope == [registerGitResource |-> {}, gitResourceStatus |-> {}]

ContextScope ==
  [reportContext |-> {}, createHandoff |-> {}, getCurrentHandoff |-> {},
   bootstrap |-> {}]

\* The routes of the next three tables are outside the project group: no
\* project access is asked for.
ProjectScope ==
  [listProjects    |-> {}, getProject    |-> {}, createProject |-> {},
   updateProject   |-> {}, completeProject |-> {"task:complete:project"},
   archiveProject  |-> {}]

AgentScope ==
  [listAgents |-> {}, createAgent |-> {}, issueToken |-> {},
   revokeToken |-> {}, bindProject |-> {}]

SettingsScope ==
  [getSystemSettings |-> {}, updateSystemSettings |-> {},
   getSystemStatus |-> {}]

TaskOps == {"listOwnTasks", "listTasks", "getTask", "listTaskEvents",
            "createTask", "updateTask", "delegateTask", "cancelTask",
            "startTask", "heartbeatTask", "submitTask", "reviewTask",
            "failTask", "resumeTask"}
MemoryWrites == DOMAIN MemoryWriteScope
MemoryOps == DOMAIN MemoryReadScope \cup MemoryWrites
SystemOps == DOMAIN SettingsScope
GlobalOps == DOMAIN ProjectScope \cup DOMAIN AgentScope \cup SystemOps
RestOps == TaskOps \cup DOMAIN ArtifactScope \cup DOMAIN RoomScope
           \cup MemoryOps \cup DOMAIN ResourceScope
           \cup DOMAIN ContextScope \cup GlobalOps

\* The handlers that decode a JSON body.
BodyOps == {"createTask", "updateTask", "delegateTask", "cancelTask",
            "startTask", "heartbeatTask", "submitTask", "reviewTask",
            "failTask", "resumeTask", "sendMessage", "pinMessage",
            "registerGitResource", "reportContext", "createHandoff",
            "createProject", "updateProject", "completeProject",
            "archiveProject", "createAgent", "issueToken", "revokeToken",
            "bindProject", "updateSystemSettings"} \cup MemoryWrites

\* The operations whose service refuses an archived project.
WritableOps == DOMAIN TaskPlanScope \cup DOMAIN TaskRunScope \cup
  {"sendMessage", "markMessageRead", "pinMessage", "reportContext",
   "createHandoff", "updateProject", "completeProject", "bindProject"}

RestScope(op) ==
  CASE op \in DOMAIN TaskReadScope    -> TaskReadScope[op]
    [] op \in DOMAIN TaskPlanScope    -> TaskPlanScope[op]
    [] op \in DOMAIN TaskRunScope     -> TaskRunScope[op]
    [] op \in DOMAIN RoomScope        -> RoomScope[op]
    [] op \in DOMAIN MemoryReadScope  -> MemoryReadScope[op]
    [] op \in DOMAIN MemoryWriteScope -> MemoryWriteScope[op]
    [] op \in DOMAIN ProjectScope     -> ProjectScope[op]
    [] OTHER                          -> {}

\* The Connect service asks for no scope; these ask who is calling and
\* whether the project is one of the agent's.
RpcAgentOps   == {"whoAmI", "getCurrentTask"}
RpcProjectOps == {"getCurrentTask", "bootstrap"}
RpcOps == {"whoAmI", "getCurrentTask", "startTask", "submitTask",
           "reportContext", "createHandoff", "getCurrentHandoff",
           "bootstrap"}

-----------------------------------------------------------------------------
(* Answers: the errors a table names become its code and are final; any    *)
(* other error is INTERNAL, which the caller may try again.                *)

Answer(table, err) ==
  IF err \in DOMAIN table THEN No(table[err]) ELSE Again("INTERNAL")

RestTaskCode ==
  [invalid                       |-> "INVALID_ARGUMENT",
   ErrTaskNotFound               |-> "TASK_NOT_FOUND",
   ErrTaskNotEligibleForAgent    |-> "TASK_NOT_ELIGIBLE_FOR_AGENT",
   ErrAgentNotBoundToProject     |-> "AGENT_NOT_BOUND_TO_PROJECT",
   ErrTaskAlreadyDelegated       |-> "TASK_ALREADY_DELEGATED",
   ErrTaskNotAssignedToCurrentAgent |->
                                    "TASK_NOT_ASSIGNED_TO_CURRENT_AGENT",
   ErrTaskActiveRunMismatch      |-> "TASK_ACTIVE_RUN_MISMATCH",
   ErrTaskDependencyNotDone      |-> "TASK_DEPENDENCY_NOT_DONE",
   ErrTaskStatusInvalid          |-> "TASK_STATUS_INVALID",
   ErrHandoffNotFound            |-> "HANDOFF_NOT_FOUND",
   ErrHandoffAlreadyConsumed     |-> "HANDOFF_ALREADY_CONSUMED",
   ErrProjectAccessDenied        |-> "PROJECT_ACCESS_DENIED",
   ErrProjectArchived            |-> "PROJECT_ACCESS_DENIED",
   ErrReviewScopeRequired        |-> "TASK_NOT_ELIGIBLE_FOR_AGENT",
   ErrContextHandoffRequired     |-> "CONTEXT_HANDOFF_REQUIRED"]

RpcTaskCode ==
  [invalid                       |-> "INVALID_ARGUMENT",
   ErrTaskNotFound               |-> "TASK_NOT_FOUND",
   ErrTaskNotEligibleForAgent    |-> "TASK_NOT_ELIGIBLE_FOR_AGENT",
   ErrAgentNotBoundToProject     |-> "AGENT_NOT_BOUND_TO_PROJECT",
   ErrTaskAlreadyDelegated       |-> "TASK_ALREADY_DELEGATED",
   ErrTaskNotAssignedToCurrentAgent |->
                                    "TASK_NOT_ASSIGNED_TO_CURRENT_AGENT",
   ErrTaskActiveRunMismatch      |-> "TASK_ACTIVE_RUN_MISMATCH",
   ErrTaskDependencyNotDone      |-> "TASK_DEPENDENCY_NOT_DONE",
   ErrTaskStatusInvalid          |-> "TASK_STATUS_INVALID",
   ErrHandoffNotFound            |-> "HANDOFF_NOT_FOUND",
   ErrHandoffAlreadyConsumed     |-> "HANDOFF_ALREADY_CONSUMED",
   ErrProjectAccessDenied        |-> "PROJECT_ACCESS_DENIED",
   ErrReviewScopeRequired        |-> "TASK_NOT_ELIGIBLE_FOR_AGENT",
   ErrContextHandoffRequired     |-> "CONTEXT_HANDOFF_REQUIRED"]

RestContextCode ==
  [invalid                   |-> "INVALID_ARGUMENT",
   ErrContextRunAccessDenied |-> "PROJECT_ACCESS_DENIED",
   ErrContextRunNotFound     |-> "TASK_ACTIVE_RUN_MISMATCH",
   ErrContextHandoffNotFound |-> "HANDOFF_NOT_FOUND",
   ErrContextHandoffRequired |-> "CONTEXT_HANDOFF_REQUIRED",
   ErrProjectArchived        |-> "PROJECT_ACCESS_DENIED",
   ErrContextBudgetExceeded  |-> "CONTEXT_BUDGET_EXCEEDED"]

RpcContextCode ==
  [invalid                   |-> "INVALID_ARGUMENT",
   ErrContextRunAccessDenied |-> "PROJECT_ACCESS_DENIED",
   ErrContextRunNotFound     |-> "TASK_ACTIVE_RUN_MISMATCH",
   ErrContextHandoffNotFound |-> "HANDOFF_NOT_FOUND",
   ErrContextHandoffRequired |-> "CONTEXT_HANDOFF_REQUIRED",
   ErrContextBudgetExceeded  |-> "CONTEXT_BUDGET_EXCEEDED"]

ProjectCode ==
  [invalid                    |-> "INVALID_ARGUMENT",
   ErrProjectCompletionFailed |-> "PROJECT_COMPLETION_POLICY_FAILED",
   ErrProjectNotFound         |-> "PROJECT_NOT_FOUND",
   ErrProjectArchived         |-> "PROJECT_ACCESS_DENIED"]

RoomCode ==
  [invalid                |-> "INVALID_ARGUMENT",
   ErrRoomNotFound        |-> "ROOM_NOT_FOUND",
   ErrRoomAccessDenied    |-> "ROOM_ACCESS_DENIED",
   ErrProjectArchived     |-> "PROJECT_ACCESS_DENIED",
   ErrRoomMessageTooLarge |-> "ROOM_MESSAGE_TOO_LARGE"]

AgentCode ==
  [invalid              |-> "INVALID_ARGUMENT",
   ErrAgentNotFound     |-> "AGENT_NOT_FOUND",
   ErrAgentTokenInvalid |-> "AGENT_TOKEN_INVALID",
   ErrAgentTokenExpired |-> "AGENT_TOKEN_EXPIRED",
   ErrProjectArchived   |-> "PROJECT_ACCESS_DENIED"]

ArtifactCode ==
  [invalid |-> "INVALID_ARGUMENT", ErrTaskNotFound |-> "TASK_NOT_FOUND"]

\* The OpenViking handlers keep one code per direction and vary the status:
\* what the store refused is final, what it could not do may be tried again.
OpenVikingAnswer(op, err) ==
  LET code == IF op \in MemoryWrites \cup {"registerGitResource"}
              THEN "OPENVIKING_WRITE_FAILED" ELSE "OPENVIKING_READ_FAILED"
  IN  IF err \in {"BadRequest", "Unauthorized"} THEN No(code)
      ELSE Again(code)

SettingsAnswer(op, err) ==
  CASE op # "updateSystemSettings" -> Again("OPENVIKING_READ_FAILED")
    [] err = "BadRequest"          -> No("INVALID_ARGUMENT")
    [] OTHER                       -> Again("OPENVIKING_WRITE_FAILED")

ListAnswer(op) == Again(IF op = "listProjects" THEN "PROJECT_LIST_FAILED"
                        ELSE "AGENT_LIST_FAILED")

\* Every error of the project lookup is "not found" to the REST bootstrap.
RestAnswer(op, err) ==
  CASE op \in TaskOps              -> Answer(RestTaskCode, err)
    [] op = "bootstrap" /\ err \in {"ErrProjectNotFound", "projectFault"}
                                   -> No("PROJECT_NOT_FOUND")
    [] op \in DOMAIN ContextScope  -> Answer(RestContextCode, err)
    [] op \in DOMAIN ArtifactScope -> Answer(ArtifactCode, err)
    [] op \in DOMAIN RoomScope     -> Answer(RoomCode, err)
    [] op \in {"listProjects", "listAgents"} -> ListAnswer(op)
    [] op \in DOMAIN AgentScope    -> Answer(AgentCode, err)
    [] op = "createProject" /\ err = "ErrCreateProjectFailed"
                                   -> Again("PROJECT_CREATE_FAILED")
    [] op \in DOMAIN ProjectScope  -> Answer(ProjectCode, err)
    [] op \in SystemOps            -> SettingsAnswer(op, err)
    [] OTHER                       -> OpenVikingAnswer(op, err)

RpcAnswer(op, err) ==
  CASE op \in {"getCurrentTask", "startTask", "submitTask"}
                                   -> Answer(RpcTaskCode, err)
    [] op = "bootstrap" /\ err \in {"ErrProjectNotFound", "projectFault"}
                                   -> Answer(ProjectCode, err)
    [] OTHER                       -> Answer(RpcContextCode, err)

\* The errors a service can hand to a handler: the ones its table names, and
\* one it does not ("fault": the database, a cancelled request).
TaskErrors == DOMAIN RestTaskCode \cup {"fault"}
ContextErrors == DOMAIN RestContextCode \cup {"fault"}
StoreErrors == {"BadRequest", "Unauthorized", "Unavailable"}

ServiceErrors(op) ==
  CASE op = "whoAmI"               -> {}
    [] op \in TaskOps \cup {"getCurrentTask"} -> TaskErrors
    [] op = "bootstrap"            -> ContextErrors \cup
                                      {"ErrProjectNotFound", "projectFault"}
    [] op \in DOMAIN ContextScope  -> ContextErrors
    [] op \in DOMAIN ArtifactScope -> DOMAIN ArtifactCode \cup {"fault"}
    [] op \in DOMAIN RoomScope     -> DOMAIN RoomCode \cup {"fault"}
    [] op \in DOMAIN AgentScope    -> DOMAIN AgentCode \cup {"fault"}
    [] op \in DOMAIN ProjectScope  -> DOMAIN ProjectCode \cup
                                      {"ErrCreateProjectFailed", "fault"}
    [] OTHER                       -> StoreErrors
=============================================================================
