------------------------------ MODULE Gateway ------------------------------
(***************************************************************************)
(* A request from the command line client to the backend and back: the     *)
(* client's three tries (cli/internal/cli/client.go), the two front ends   *)
(* (REST: core/internal/http; Connect: core/internal/rpc/server.go), the   *)
(* token bucket both keep in Redis, and the agent's token and binding      *)
(* (core/internal/service/agents/service.go).                              *)
(*                                                                         *)
(* One action is one access to something shared.  The two front ends do    *)
(* the same things in a different order:                                   *)
(*                                                                         *)
(*   REST     arrived -Stamp-> stamped -Take-> limited -Identify-> known   *)
(*   Connect  arrived -Identify-> limited -Stamp-> stamped -Take-> known   *)
(*                                                                         *)
(* and both end known -Guard-> serving -(service)-> answered.  The service *)
(* is StartTask, which reads and later writes, CreateTask, which commits   *)
(* and then reads its row back, or any other call, of which only the       *)
(* outcome is kept.  Time counts in ticks, one tick being what the bucket  *)
(* needs to refill one unit; a request costs Cost units.                   *)
(***************************************************************************)
EXTENDS Integers, FiniteSets, GatewayRules

CONSTANTS
  Command,    \* requests of clients; all agents' carry the same token
  Workload,   \* what the commands ask: each gets a call, or None
  Scopes,     \* the scopes of the token
  Capacity, Cost,   \* of the bucket, and of one request
  Ttl,        \* ticks after which Redis drops an untouched bucket
  Times,      \* the readings the clock takes in this instance
  MaxFaults,  \* bounds of the model on database, Redis and network
  MaxChanges, \* failures, and on changes of token, binding and project
  None

Front == {"rest", "rpc"}
Actor == {"agent", "operator"}
CallSet == [front : Front, actor : Actor,
            op : RestOps \cup RpcOps, body : BOOLEAN]
Key == Front \X Actor

ASSUME BucketAssumption ==
  /\ Capacity \in Nat /\ Cost \in Nat \ {0}
  /\ Ttl \in Nat \ {0}
ASSUME BoundAssumption == Times \subseteq Nat /\ MaxFaults \in Nat
                         /\ MaxChanges \in Nat
ASSUME CallAssumption == /\ Workload \subseteq [Command -> CallSet \cup {None}]
                         /\ None \notin Command \cup CallSet \cup Nat

Tries == 3

VARIABLES
  (* the client's side of a request *)
  pc, call, tries,
  answer,     \* [code, retry] the server replied, or None
  (* the server's side of it *)
  stamp,      \* nowMillis
  access,     \* AllowedProjects holds the project, as the token was verified
  (* Redis *)
  live, tokens, ts, touched,
  (* PostgreSQL *)
  token, bound, archived,
  run,        \* the command whose run the task is running under, or None
  (* the environment *)
  now, faults, changes,
  (* history *)
  effects,    \* times the service did what the command asks
  unread,     \* times it had done so and answered with an error
  used, base, late  \* per bucket: units handed out, first stamp, ticks by
                    \* which stamps went back

client == <<call, tries>>
server == <<stamp, access>>
noReply == <<answer, access>>
redis == <<live, tokens, ts, touched, used, base, late>>
rows == <<token, bound, archived, run>>
history == <<effects, unread>>
env == <<now, faults, changes>>
vars == <<pc, answer, client, server, redis, rows, history, env>>

Init ==
  /\ call \in Workload
  /\ pc = [c \in Command |-> IF call[c] = None THEN "done" ELSE "ready"]
  /\ tries = [c \in Command |-> 0]
  /\ answer = [c \in Command |-> None]
  /\ stamp = [c \in Command |-> 0]
  /\ access = [c \in Command |-> FALSE]
  /\ live = [k \in Key |-> FALSE]
  /\ tokens = [k \in Key |-> 0] /\ ts = [k \in Key |-> 0]
  /\ touched = [k \in Key |-> 0]
  /\ token = "valid" /\ bound = TRUE /\ archived = FALSE /\ run = None
  /\ now = 0 /\ faults = 0 /\ changes = 0
  /\ effects = [c \in Command |-> 0] /\ unread = [c \in Command |-> 0]
  /\ used = [k \in Key |-> 0] /\ base = [k \in Key |-> 0]
  /\ late = [k \in Key |-> 0]

Goto(c, label) == pc' = [pc EXCEPT ![c] = label]
Fault == /\ faults < MaxFaults /\ faults' = faults + 1
         /\ UNCHANGED <<now, changes>>

-----------------------------------------------------------------------------
(* The client *)

Send(c) ==
  /\ pc[c] = "ready"
  /\ tries' = [tries EXCEPT ![c] = 1]
  /\ Goto(c, "arrived")
  /\ UNCHANGED <<answer, call, server, redis, rows, history, env>>

Resend(c) ==
  /\ pc[c] = "backoff"
  /\ tries' = [tries EXCEPT ![c] = @ + 1]
  /\ answer' = [answer EXCEPT ![c] = None]
  /\ Goto(c, "arrived")
  /\ UNCHANGED <<call, server, redis, rows, history, env>>

\* The command's deadline passes while it waits to try again.
GiveUp(c) ==
  /\ pc[c] = "backoff"
  /\ answer' = [answer EXCEPT ![c] = No("CANCELED")]
  /\ Goto(c, "done")
  /\ UNCHANGED <<client, server, redis, rows, history, env>>

IsRetriable(reply) == reply.retry

\* withRetry on the answer, or on the error the transport gave instead.
Settle(c, reply) ==
  /\ answer' = [answer EXCEPT ![c] = reply]
  /\ Goto(c, IF IsRetriable(reply) /\ tries[c] < Tries THEN "backoff"
             ELSE "done")

\* Bug variant: a broken connection is retried whatever was sent.
NetworkErrorRetried(front) == Again("unavailable")

\* An error of net/http is not an APIError, so REST does not try again; the
\* Connect client makes it CodeUnavailable, which is retriable.
NetworkError(front) ==
  IF front = "rest" THEN No("NETWORK") ELSE Again("unavailable")

Receive(c) ==
  /\ pc[c] = "answered"
  /\ Settle(c, answer[c])
  /\ UNCHANGED <<client, stamp, access, redis, rows, history, env>>

\* The connection breaks before the request is handled, or afterwards.
Disconnect(c) ==
  /\ pc[c] \in {"arrived", "answered"}
  /\ Fault
  /\ Settle(c, NetworkError(call[c].front))
  /\ unread' = [unread EXCEPT ![c] =
                  @ + (IF pc[c] = "answered" /\ answer[c] = Yes
                          /\ call[c].front = "rpc" THEN 1 ELSE 0)]
  /\ UNCHANGED <<client, stamp, access, redis, rows, effects>>

-----------------------------------------------------------------------------
(* The server, before the handler *)

\* The handler returns, its variables go, the answer is on its way.
Reply(c, reply) ==
  /\ answer' = [answer EXCEPT ![c] = reply]
  /\ access' = [access EXCEPT ![c] = FALSE]
  /\ Goto(c, "answered")

IsRest(c) == call[c].front = "rest"

\* The clock is read in the server, before the script runs in Redis.
Stamp(c) ==
  /\ \/ pc[c] = "arrived" /\ IsRest(c)
     \/ pc[c] = "limited" /\ ~IsRest(c)
  /\ stamp' = [stamp EXCEPT ![c] = now]
  /\ Goto(c, "stamped")
  /\ UNCHANGED <<answer, client, access, redis, rows, history, env>>

\* The bucket of a request: the prefix and what names the caller differ
\* between the front ends, so each keeps one of its own.
KeyOf(c) == <<call[c].front, call[c].actor>>

Elapsed(k, s) == IF s > ts[k] THEN s - ts[k] ELSE 0

Refilled(k, s) ==
  IF ~live[k] \/ tokens[k] + Elapsed(k, s) > Capacity THEN Capacity
  ELSE tokens[k] + Elapsed(k, s)

Spent(k, s) == IF Refilled(k, s) >= Cost THEN Cost ELSE 0

\* Bug variant: a refused request leaves the time of the last refill.
RunScriptKeepsTs(k, s) ==
  /\ tokens' = [tokens EXCEPT ![k] = Refilled(k, s) - Spent(k, s)]
  /\ ts' = [ts EXCEPT ![k] = IF live[k] /\ Spent(k, s) = 0 THEN @ ELSE s]
  /\ live' = [live EXCEPT ![k] = TRUE]
  /\ touched' = [touched EXCEPT ![k] = now]
  /\ used' = [used EXCEPT ![k] = Spent(k, s) + (IF live[k] THEN @ ELSE 0)]
  /\ base' = [base EXCEPT ![k] = IF live[k] THEN @ ELSE s]
  /\ late' = [late EXCEPT ![k] = IF ~live[k] THEN 0
                                 ELSE IF s < ts[k] THEN @ + (ts[k] - s)
                                 ELSE @]

\* tokenBucketScript: Redis runs it in one go.
RunScript(k, s) ==
  /\ tokens' = [tokens EXCEPT ![k] = Refilled(k, s) - Spent(k, s)]
  /\ ts' = [ts EXCEPT ![k] = s]
  /\ live' = [live EXCEPT ![k] = TRUE]
  /\ touched' = [touched EXCEPT ![k] = now]
  /\ used' = [used EXCEPT ![k] = Spent(k, s) + (IF live[k] THEN @ ELSE 0)]
  /\ base' = [base EXCEPT ![k] = IF live[k] THEN @ ELSE s]
  /\ late' = [late EXCEPT ![k] = IF ~live[k] THEN 0
                                 ELSE IF s < ts[k] THEN @ + (ts[k] - s)
                                 ELSE @]

AfterLimit(c) == IF IsRest(c) THEN "limited" ELSE "known"

Take(c) ==
  /\ pc[c] = "stamped"
  /\ RunScript(KeyOf(c), stamp[c])
  /\ stamp' = [stamp EXCEPT ![c] = 0]
  /\ IF Spent(KeyOf(c), stamp[c]) > 0
     THEN /\ Goto(c, AfterLimit(c))
          /\ UNCHANGED noReply
     ELSE Reply(c, Again("RATE_LIMITED"))
  /\ UNCHANGED <<client, rows, history, env>>

\* Redis cannot be asked: the request goes on.
TakeFailsOpen(c) ==
  /\ pc[c] = "stamped"
  /\ Fault
  /\ stamp' = [stamp EXCEPT ![c] = 0]
  /\ Goto(c, AfterLimit(c))
  /\ UNCHANGED <<noReply, client, redis, rows, history>>

AfterIdentify(c) == IF IsRest(c) THEN "known" ELSE "limited"

\* VerifyToken: the token row and the enabled bindings are read here.
Identify(c) ==
  /\ \/ pc[c] = "limited" /\ IsRest(c)
     \/ pc[c] = "arrived" /\ ~IsRest(c)
  /\ \/ /\ call[c].actor = "operator" \/ token = "valid"
        /\ access' = [access EXCEPT ![c] =
                        call[c].actor = "operator" \/ bound]
        /\ Goto(c, AfterIdentify(c))
        /\ UNCHANGED <<answer, env>>
     \/ /\ call[c].actor = "agent" /\ token # "valid"
        /\ Reply(c, No(IF token = "expired" THEN "AGENT_TOKEN_EXPIRED"
                       ELSE "AGENT_TOKEN_INVALID"))
        /\ UNCHANGED env
     \/ /\ call[c].actor = "agent"   \* the query fails
        /\ Fault
        /\ Reply(c, No("AGENT_TOKEN_INVALID"))
  /\ UNCHANGED <<client, stamp, redis, rows, history>>

-----------------------------------------------------------------------------
(* The handlers *)

Check(bad, code) == [bad |-> bad, code |-> code]

\* What a handler looks at before it calls the service, in its order.
RestChecks(c) ==
  LET k == call[c]
      isAgent == k.actor = "agent"
      scope == RestScope(k.op)
      route  == Check(k.op \notin GlobalOps /\ ~access[c],
                      "PROJECT_ACCESS_DENIED")
      scoped == Check(isAgent /\ scope # {} /\ scope \cap Scopes = {},
                      "PROJECT_ACCESS_DENIED")
      json   == Check(k.op \in BodyOps /\ ~k.body, "INVALID_REQUEST")
      admin  == Check(k.op \in SystemOps /\ isAgent,
                      "SYSTEM_ACCESS_DENIED")
      writable == Check(archived, "PROJECT_ACCESS_DENIED")
      author == Check(k.op \in AgentWrites /\ ~isAgent,
                      "PROJECT_ACCESS_DENIED")
  IN  IF k.op \in MemoryWrites
      THEN <<route, writable, json, author, scoped>>
      ELSE <<route, admin, scoped, json>>

RpcChecks(c) ==
  <<Check(call[c].op \in RpcAgentOps /\ call[c].actor # "agent",
          "PROJECT_ACCESS_DENIED"),
    Check(call[c].op \in RpcProjectOps /\ ~access[c],
          "PROJECT_ACCESS_DENIED")>>

Guard(c) ==
  /\ pc[c] = "known"
  /\ LET checks == IF IsRest(c) THEN RestChecks(c) ELSE RpcChecks(c)
         failed == {i \in DOMAIN checks : checks[i].bad}
     IN  IF failed = {}
         THEN Goto(c, "serving") /\ UNCHANGED noReply
         ELSE LET first == CHOOSE i \in failed : \A j \in failed : i <= j
              IN  Reply(c, No(checks[first].code))
  /\ UNCHANGED <<client, stamp, redis, rows, history, env>>

AnswerTo(c, err) ==
  IF IsRest(c) THEN RestAnswer(call[c].op, err)
  ELSE RpcAnswer(call[c].op, err)

Refuse(c, err) == Reply(c, AnswerTo(c, err))

\* Bug variant: a start does not look at whose run the task is running
\* under.
StartReadsStatusOnly(c) ==
  /\ pc[c] = "serving" /\ call[c].op = "startTask"
  /\ CASE call[c].actor # "agent"
                -> Refuse(c, "ErrTaskNotAssignedToCurrentAgent")
       [] call[c].actor = "agent" /\ archived
                -> Refuse(c, "ErrProjectArchived")
       [] call[c].actor = "agent" /\ ~archived /\ run # None
                -> Refuse(c, "ErrTaskStatusInvalid")
       [] OTHER -> Goto(c, "starting") /\ UNCHANGED noReply
  /\ UNCHANGED <<client, stamp, redis, rows, history, env>>

\* tasks.Start: the project, then the task.  The agent is the assignee and
\* a command keeps its run id over its tries.
StartReads(c) ==
  /\ pc[c] = "serving" /\ call[c].op = "startTask"
  /\ CASE call[c].actor # "agent"
                -> Refuse(c, "ErrTaskNotAssignedToCurrentAgent")
       [] call[c].actor = "agent" /\ archived
                -> Refuse(c, "ErrProjectArchived")
       [] call[c].actor = "agent" /\ ~archived /\ run = c
                -> Reply(c, Yes)
       [] call[c].actor = "agent" /\ ~archived /\ run \notin {None, c}
                -> Refuse(c, "ErrTaskStatusInvalid")
       [] OTHER -> Goto(c, "starting") /\ UNCHANGED noReply
  /\ UNCHANGED <<client, stamp, redis, rows, history, env>>

\* The UPDATE, which asks for the assignee only; then the row is read back.
StartWrites(c) ==
  /\ pc[c] = "starting"
  /\ run' = c
  /\ effects' = [effects EXCEPT ![c] = @ + 1]
  /\ \/ Reply(c, Yes) /\ UNCHANGED <<unread, env>>
     \/ /\ Fault /\ Refuse(c, "fault")
        /\ unread' = [unread EXCEPT ![c] = @ + 1]
  /\ UNCHANGED <<client, stamp, redis, token, bound, archived>>

\* tasks.Create: one transaction, then Get.
CreateTask(c) ==
  /\ pc[c] = "serving" /\ call[c].op = "createTask" /\ ~archived
  /\ effects' = [effects EXCEPT ![c] = @ + 1]
  /\ \/ Reply(c, Yes) /\ UNCHANGED <<unread, env>>
     \/ /\ Fault /\ Refuse(c, "fault")
        /\ unread' = [unread EXCEPT ![c] = @ + 1]
  /\ UNCHANGED <<client, stamp, redis, rows>>

Modelled == {"startTask", "createTask"}

\* Any other call of a service succeeds or returns one of its errors.
OtherService(c) ==
  /\ pc[c] = "serving" /\ call[c].op \notin Modelled
  /\ \/ Reply(c, Yes)
     \/ \E err \in ServiceErrors(call[c].op) \ {"ErrProjectArchived"} :
          Refuse(c, err)
  /\ UNCHANGED <<client, stamp, redis, rows, history, env>>

\* A service that writes refuses an archived project.
ArchivedRefused(c) ==
  /\ pc[c] = "serving" /\ archived /\ call[c].op # "startTask"
  /\ call[c].op \in WritableOps
  /\ Refuse(c, "ErrProjectArchived")
  /\ UNCHANGED <<client, stamp, redis, rows, history, env>>

\* The service fails before it has changed anything.
ServiceFails(c) ==
  /\ pc[c] \in {"serving", "starting"} /\ call[c].op \in Modelled
  /\ Fault
  /\ Refuse(c, "fault")
  /\ UNCHANGED <<client, stamp, redis, rows, history>>

-----------------------------------------------------------------------------
(* What happens meanwhile *)

Change == /\ changes < MaxChanges /\ changes' = changes + 1
          /\ UNCHANGED <<pc, answer, client, server, redis, run, history,
                         now, faults>>

\* UPDATE ... WHERE revoked_at IS NULL: a revoked token stays revoked.
RevokeToken == /\ token # "revoked" /\ token' = "revoked"
               /\ Change /\ UNCHANGED <<bound, archived>>

ExpireToken == /\ token = "valid" /\ token' = "expired"
               /\ Change /\ UNCHANGED <<bound, archived>>

BindProject == /\ ~archived /\ bound' = ~bound
               /\ Change /\ UNCHANGED <<token, archived>>

ArchiveProject == /\ ~archived /\ archived' = TRUE
                  /\ Change /\ UNCHANGED <<token, bound>>

\* PEXPIRE: Redis forgets a bucket nobody has used for Ttl.
Forget(k) ==
  /\ live[k] /\ now - touched[k] >= Ttl
  /\ live' = [live EXCEPT ![k] = FALSE]
  /\ UNCHANGED <<pc, answer, client, server, tokens, ts, touched, used,
                 base, late, rows, history, env>>

Tick == /\ \E t \in Times : t > now /\ now' = t
        /\ UNCHANGED <<pc, answer, client, server, redis, rows, history,
                       faults, changes>>

AllDone == (\A c \in Command : pc[c] = "done") /\ UNCHANGED vars

Next ==
  \/ \E c \in Command :
       \/ Send(c) \/ Resend(c) \/ GiveUp(c) \/ Receive(c) \/ Disconnect(c)
       \/ Stamp(c) \/ Take(c) \/ TakeFailsOpen(c) \/ Identify(c)
       \/ Guard(c) \/ StartReads(c) \/ StartWrites(c) \/ CreateTask(c)
       \/ OtherService(c) \/ ArchivedRefused(c) \/ ServiceFails(c)
  \/ RevokeToken \/ ExpireToken \/ BindProject \/ ArchiveProject
  \/ \E k \in Key : Forget(k)
  \/ Tick
  \/ AllDone

Spec == Init /\ [][Next]_vars
=============================================================================
