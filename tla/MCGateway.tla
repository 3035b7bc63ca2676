----------------------------- MODULE MCGateway -----------------------------
(* Instances of Gateway for TLC. *)
EXTENDS GatewaySafety, CliCommands, TLC
CONSTANTS c1, c2

Ask(front, actor, op, body) ==
  [front |-> front, actor |-> actor, op |-> op, body |-> body]

\* One request of each kind on its own, with its retries: every operation for
\* an agent, some for an operator and some with a body that does not decode.
MCSingle ==
  [c1 : {Ask("rest", "agent", o, TRUE) : o \in RestOps}
        \cup {Ask("rest", "operator", o, TRUE) :
                o \in {"startTask", "writeSummary", "getSystemStatus"}}
        \cup {Ask("rest", "agent", o, FALSE) : o \in {"createTask",
                                                      "writeReport"}}
        \cup {Ask("rpc", a, o, TRUE) : a \in Actor, o \in RpcOps},
   c2 : {None}]

\* Two at a time on the agent's buckets and on the one task.
MCPairs ==
  [c1 : {Ask(f, "agent", "startTask", TRUE) : f \in Front},
   c2 : {Ask("rpc", "agent", "startTask", TRUE),
         Ask("rest", "agent", "createTask", TRUE)}]

MCWorkload == {(c1 :> w.c1 @@ c2 :> w.c2) : w \in MCSingle \cup MCPairs}

\* Long enough after 1 for Redis to have dropped an idle bucket.
MCTimes == {1, 6}
MCScopes == {"task:start:delegated", "task:create", "memory:write"}

\* Proved in GatewayProofs; evaluated once here.
ASSUME CommandCalls == EveryCallIsServed /\ OnlyTheLastCallWrites

=============================================================================
