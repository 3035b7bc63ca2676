--------------------------- MODULE GatewayProofs ---------------------------
(***************************************************************************)
(* Theorems about requests and buckets, for every number of commands, every *)
(* workload, bucket and clock, and about the calls the commands make.      *)
(***************************************************************************)
EXTENDS GatewaySafety, CliCommands, SequenceTheorems, TLAPS

USE BucketAssumption, BoundAssumption, CallAssumption

(* A command that waits to try again has a try left.                       *)
TriesLeft == \A c \in Command : pc[c] = "backoff" => tries[c] < Tries

TypeInv == TypeOK /\ TriesLeft

---------------------------------------------------------------------------
(* Helpers                                                                 *)

(* Where a command goes is the only place that moves.                      *)
LEMMA GotoType ==
  ASSUME TypeOK, NEW c \in Command, NEW l \in Labels, Goto(c, l)
  PROVE  /\ pc' \in [Command -> Labels]
         /\ pc'[c] = l
         /\ \A d \in Command : d # c => pc'[d] = pc[d]
BY DEF TypeOK, Goto

LEMMA SettleType ==
  ASSUME TypeOK, NEW c \in Command, NEW reply, Settle(c, reply)
  PROVE  /\ pc' \in [Command -> Labels]
         /\ pc'[c] \in {"backoff", "done"}
         /\ pc'[c] = "backoff" => tries[c] < Tries
         /\ \A d \in Command : d # c => pc'[d] = pc[d]
BY DEF TypeOK, Settle, Goto, Labels, Tries

(* A step of a command past the client leaves the client's counters alone. *)
LEMMA MoveKeepsTypes ==
  ASSUME TypeInv, NEW c \in Command, NEW l \in Labels, l # "backoff",
         pc[c] # "done", Goto(c, l), UNCHANGED client
  PROVE  /\ pc' \in [Command -> Labels]
         /\ call' \in [Command -> CallSet \cup {None}]
         /\ \A d \in Command : pc'[d] # "done" => call'[d] \in CallSet
         /\ tries' \in [Command -> 0..Tries]
         /\ TriesLeft'
<1>1. /\ pc' \in [Command -> Labels]
      /\ pc'[c] = l
      /\ \A d \in Command : d # c => pc'[d] = pc[d]
  BY GotoType DEF TypeInv
<1> QED BY <1>1 DEF TypeInv, TypeOK, TriesLeft, client

LEMMA SettleKeepsTypes ==
  ASSUME TypeInv, NEW c \in Command, NEW reply, Settle(c, reply),
         pc[c] # "done", UNCHANGED client
  PROVE  /\ pc' \in [Command -> Labels]
         /\ call' \in [Command -> CallSet \cup {None}]
         /\ \A d \in Command : pc'[d] # "done" => call'[d] \in CallSet
         /\ tries' \in [Command -> 0..Tries]
         /\ TriesLeft'
<1>1. /\ pc' \in [Command -> Labels]
      /\ pc'[c] \in {"backoff", "done"}
      /\ pc'[c] = "backoff" => tries[c] < Tries
      /\ \A d \in Command : d # c => pc'[d] = pc[d]
  BY SettleType DEF TypeInv
<1> QED BY <1>1 DEF TypeInv, TypeOK, TriesLeft, client

(* The other columns of TypeOK.                                            *)
BucketType ==
  /\ live \in [Key -> BOOLEAN] /\ touched \in [Key -> Nat]
  /\ tokens \in [Key -> Nat] /\ ts \in [Key -> Nat]
  /\ used \in [Key -> Nat] /\ base \in [Key -> Nat] /\ late \in [Key -> Nat]

CountType == effects \in [Command -> Nat] /\ unread \in [Command -> Nat]

ClientType ==
  /\ pc \in [Command -> Labels]
  /\ call \in [Command -> CallSet \cup {None}]
  /\ \A c \in Command : pc[c] # "done" => call[c] \in CallSet
  /\ tries \in [Command -> 0..Tries]

LEMMA TypeParts ==
  TypeOK <=> /\ ClientType /\ BucketType /\ CountType
             /\ stamp \in [Command -> Nat] /\ now \in Nat
             /\ run \in Command \cup {None}
BY DEF TypeOK, ClientType, BucketType, CountType

LEMMA TypePartsNext ==
  TypeOK' <=> /\ ClientType' /\ BucketType' /\ CountType'
              /\ stamp' \in [Command -> Nat] /\ now' \in Nat
              /\ run' \in Command \cup {None}
BY DEF TypeOK, ClientType, BucketType, CountType

(* Any step of a command that sends the answer back.                       *)
LEMMA ReplyKeepsTypes ==
  ASSUME TypeInv, NEW c \in Command, NEW reply, Reply(c, reply),
         pc[c] # "done", UNCHANGED client
  PROVE  ClientType' /\ TriesLeft'
<1>1. "answered" \in Labels
  BY DEF Labels
<1>2. Goto(c, "answered")
  BY DEF Reply
<1> QED BY <1>1, <1>2, MoveKeepsTypes DEF ClientType

LEMMA MoveOn ==
  ASSUME TypeInv, NEW c \in Command, NEW l \in Labels, l # "backoff",
         pc[c] # "done", Goto(c, l), UNCHANGED client
  PROVE  ClientType' /\ TriesLeft'
BY MoveKeepsTypes DEF ClientType

(* The script in Redis keeps numbers what they are.                        *)
LEMMA ScriptTypes ==
  ASSUME BucketType, now \in Nat, NEW k, NEW s \in Nat, RunScript(k, s)
  PROVE  BucketType'
<1>1. CASE k \in Key
  <2>1. /\ Refilled(k, s) \in Nat /\ Spent(k, s) \in Nat
        /\ Spent(k, s) <= Refilled(k, s)
    BY <1>1 DEF BucketType, Refilled, Spent, Elapsed
  <2>2. Refilled(k, s) - Spent(k, s) \in Nat
    BY <2>1
  <2>3. /\ live' \in [Key -> BOOLEAN] /\ touched' \in [Key -> Nat]
        /\ tokens' \in [Key -> Nat] /\ ts' \in [Key -> Nat]
    BY <1>1, <2>2 DEF BucketType, RunScript
  <2>4. used' \in [Key -> Nat]
    BY <1>1, <2>1 DEF BucketType, RunScript
  <2>5. base' \in [Key -> Nat]
    BY <1>1 DEF BucketType, RunScript
  <2>6. late' \in [Key -> Nat]
    BY <1>1 DEF BucketType, RunScript
  <2> QED BY <2>3, <2>4, <2>5, <2>6 DEF BucketType
<1>2. CASE k \notin Key
  BY <1>2 DEF BucketType, RunScript
<1> QED BY <1>1, <1>2

---------------------------------------------------------------------------
(* Types                                                                   *)

LEMMA InitTypes == Init => TypeInv
<1> SUFFICES ASSUME Init PROVE TypeInv
  OBVIOUS
<1>1. \A c \in Command : call[c] \in CallSet \cup {None}
  BY DEF Init
<1>2. ClientType
  BY <1>1 DEF Init, ClientType, Labels, Tries
<1>3. BucketType /\ CountType /\ TriesLeft
  BY DEF Init, BucketType, CountType, TriesLeft
<1> QED BY <1>2, <1>3, TypeParts, TypePartsNext DEF TypeInv, Init

(* What the client does.                                                   *)
LEMMA ClientStepTypes ==
  ASSUME TypeInv, NEW c \in Command,
         Send(c) \/ Resend(c) \/ GiveUp(c) \/ Receive(c) \/ Disconnect(c)
  PROVE  TypeInv'
<1>1. CASE Send(c) \/ Resend(c)
  <2>1. /\ pc[c] # "done" /\ tries'[c] \in 0..Tries
        /\ tries' = [tries EXCEPT ![c] = tries'[c]]
    BY <1>1 DEF Send, Resend, TypeInv, TypeOK, TriesLeft, Tries
  <2>2. Goto(c, "arrived") /\ "arrived" \in Labels
    BY <1>1 DEF Send, Resend, Labels
  <2>3. /\ pc' \in [Command -> Labels] /\ pc'[c] = "arrived"
        /\ \A d \in Command : d # c => pc'[d] = pc[d]
    BY <2>2, GotoType DEF TypeInv
  <2>4. ClientType' /\ TriesLeft'
    BY <1>1, <2>1, <2>3
       DEF Send, Resend, TypeInv, TypeOK, ClientType, TriesLeft
  <2>5. UNCHANGED <<server, redis, rows, history, env>>
    BY <1>1 DEF Send, Resend
  <2> QED BY <2>4, <2>5, TypeParts, TypePartsNext
          DEF TypeInv, BucketType, CountType, server, redis, rows, history,
              env
<1>2. CASE GiveUp(c)
  <2>1. pc[c] # "done" /\ Goto(c, "done") /\ "done" \in Labels
    BY <1>2 DEF GiveUp, Labels
  <2>2. UNCHANGED <<client, server, redis, rows, history, env>>
    BY <1>2 DEF GiveUp
  <2>3. ClientType' /\ TriesLeft'
    BY <2>1, <2>2, MoveOn
  <2> QED BY <2>2, <2>3, TypeParts, TypePartsNext
          DEF TypeInv, BucketType, CountType, server, redis, rows, history,
              env
<1>3. CASE Receive(c)
  <2>1. pc[c] # "done" /\ Settle(c, answer[c]) /\ UNCHANGED client
    BY <1>3 DEF Receive
  <2>2. ClientType' /\ TriesLeft'
    BY <2>1, SettleKeepsTypes DEF ClientType
  <2> QED BY <1>3, <2>2, TypeParts, TypePartsNext
          DEF Receive, TypeInv, BucketType, CountType, redis, rows, history,
              env
<1>4. CASE Disconnect(c)
  <2>1. /\ pc[c] # "done" /\ Settle(c, NetworkError(call[c].front))
        /\ UNCHANGED client
    BY <1>4 DEF Disconnect
  <2>2. ClientType' /\ TriesLeft'
    BY <2>1, SettleKeepsTypes DEF ClientType
  <2>3. CountType'
    BY <1>4 DEF Disconnect, CountType, TypeInv, TypeOK
  <2> QED BY <1>4, <2>2, <2>3, TypeParts, TypePartsNext
          DEF Disconnect, Fault, TypeInv, BucketType, redis, rows
<1> QED BY <1>1, <1>2, <1>3, <1>4

(* What the server does before a handler runs.                             *)
LEMMA EntryStepTypes ==
  ASSUME TypeInv, NEW c \in Command,
         Stamp(c) \/ Take(c) \/ TakeFailsOpen(c) \/ Identify(c) \/ Guard(c)
  PROVE  TypeInv'
<1> USE DEF Labels
<1>0. pc[c] # "done" /\ UNCHANGED client
  BY DEF Stamp, Take, TakeFailsOpen, Identify, Guard
<1>1. CASE Stamp(c)
  <2>1. ClientType' /\ TriesLeft'
    BY <1>0, <1>1, MoveOn DEF Stamp
  <2> QED BY <1>1, <2>1, TypeParts, TypePartsNext
          DEF Stamp, TypeInv, BucketType, CountType, redis, rows, history,
              env
<1>2. CASE Take(c)
  <2>1. stamp[c] \in Nat /\ RunScript(KeyOf(c), stamp[c])
    BY <1>2, TypeParts, TypePartsNext DEF Take, TypeInv
  <2>2. BucketType'
    BY <2>1, ScriptTypes, TypeParts, TypePartsNext DEF TypeInv
  <2>3. AfterLimit(c) \in Labels /\ AfterLimit(c) # "backoff"
    BY DEF AfterLimit
  <2>4. \/ Goto(c, AfterLimit(c))
        \/ Reply(c, Again("RATE_LIMITED"))
    BY <1>2 DEF Take
  <2>5. ClientType' /\ TriesLeft'
    BY <1>0, <2>3, <2>4, MoveOn, ReplyKeepsTypes
  <2> QED BY <1>2, <2>2, <2>5, TypeParts, TypePartsNext
          DEF Take, TypeInv, CountType, rows, history, env
<1>3. CASE TakeFailsOpen(c)
  <2>1. AfterLimit(c) \in Labels /\ AfterLimit(c) # "backoff"
    BY DEF AfterLimit
  <2>2. ClientType' /\ TriesLeft'
    BY <1>0, <1>3, <2>1, MoveOn DEF TakeFailsOpen
  <2> QED BY <1>3, <2>2, TypeParts, TypePartsNext
          DEF TakeFailsOpen, Fault, TypeInv, BucketType, CountType, redis,
              rows, history
<1>4. CASE Identify(c)
  <2>1. AfterIdentify(c) \in Labels /\ AfterIdentify(c) # "backoff"
    BY DEF AfterIdentify
  <2>2. \/ Goto(c, AfterIdentify(c))
        \/ \E reply : Reply(c, reply)
    BY <1>4 DEF Identify
  <2>3. ClientType' /\ TriesLeft'
    BY <1>0, <2>1, <2>2, MoveOn, ReplyKeepsTypes
  <2>4. now' = now
    BY <1>4 DEF Identify, Fault, env
  <2> QED BY <1>4, <2>3, <2>4, TypeParts, TypePartsNext
          DEF Identify, TypeInv, BucketType, CountType, redis, rows, history
<1>5. CASE Guard(c)
  <2>1. Goto(c, "serving") \/ \E reply : Reply(c, reply)
    BY <1>5 DEF Guard
  <2>2. ClientType' /\ TriesLeft'
    BY <1>0, <2>1, MoveOn, ReplyKeepsTypes
  <2> QED BY <1>5, <2>2, TypeParts, TypePartsNext
          DEF Guard, TypeInv, BucketType, CountType, redis, rows, history,
              env
<1> QED BY <1>1, <1>2, <1>3, <1>4, <1>5

(* What the services do.                                                   *)
LEMMA ServiceStepTypes ==
  ASSUME TypeInv, NEW c \in Command,
         \/ StartReads(c) \/ StartWrites(c) \/ CreateTask(c)
         \/ OtherService(c) \/ ArchivedRefused(c) \/ ServiceFails(c)
  PROVE  TypeInv'
<1> USE DEF Labels
<1>0. /\ pc[c] # "done" /\ UNCHANGED <<client, stamp, redis>>
      /\ now' = now
  BY DEF StartReads, StartWrites, CreateTask, OtherService, ArchivedRefused,
         ServiceFails, Fault, env
<1>1. Goto(c, "starting") \/ \E reply : Reply(c, reply)
  BY DEF StartReads, StartWrites, CreateTask, OtherService, ArchivedRefused,
         ServiceFails, Refuse
<1>2. ClientType' /\ TriesLeft'
  BY <1>0, <1>1, MoveOn, ReplyKeepsTypes
<1>3. run' \in Command \cup {None} /\ CountType'
  BY TypeParts, TypePartsNext
     DEF TypeInv, CountType, StartReads, StartWrites, CreateTask,
         OtherService, ArchivedRefused, ServiceFails, rows, history
<1> QED BY <1>0, <1>2, <1>3, TypeParts, TypePartsNext DEF TypeInv, BucketType, redis

(* What happens meanwhile.                                                 *)
LEMMA OutsideStepTypes ==
  ASSUME TypeInv,
         \/ RevokeToken \/ ExpireToken \/ BindProject \/ ArchiveProject
         \/ \E k \in Key : Forget(k)
         \/ Tick \/ AllDone \/ UNCHANGED vars
  PROVE  TypeInv'
<1>1. UNCHANGED <<pc, client, stamp, run, history>>
  BY DEF RevokeToken, ExpireToken, BindProject, ArchiveProject, Change,
         Forget, Tick, AllDone, vars, server, rows
<1>2. BucketType'
  <2>1. CASE \E k \in Key : Forget(k)
    BY <2>1, TypeParts, TypePartsNext DEF TypeInv, BucketType, Forget
  <2>2. CASE ~(\E k \in Key : Forget(k))
    <3>1. UNCHANGED redis
      BY <2>2 DEF RevokeToken, ExpireToken, BindProject, ArchiveProject,
                  Change, Tick, AllDone, vars
    <3> QED BY <3>1, TypeParts, TypePartsNext DEF TypeInv, BucketType, redis
  <2> QED BY <2>1, <2>2
<1>3. now' \in Nat
  BY TypeParts, TypePartsNext
     DEF TypeInv, RevokeToken, ExpireToken, BindProject, ArchiveProject,
         Change, Forget, Tick, AllDone, vars, env
<1> QED BY <1>1, <1>2, <1>3, TypeParts, TypePartsNext
        DEF TypeInv, ClientType, CountType, TriesLeft, client, history

LEMMA StepTypes == TypeInv /\ [Next]_vars => TypeInv'
BY ClientStepTypes, EntryStepTypes, ServiceStepTypes, OutsideStepTypes
   DEF Next

(* The types, with a try left for a command that waits for one.            *)
THEOREM TypeInvariant == Spec => []TypeInv
BY InitTypes, StepTypes, PTL DEF Spec

(* Types are kept: tries stay within their limit and every command on its  *)
(* way has a call.                                                         *)
THEOREM TypeCorrect == Spec => []TypeOK
<1>1. TypeInv => TypeOK
  BY DEF TypeInv
<1> QED BY <1>1, TypeInvariant, PTL

---------------------------------------------------------------------------
(* Buckets                                                                 *)

LEMMA ScriptKeepsBound ==
  ASSUME BucketType, AdmittedWithinRefill, NEW k, NEW s \in Nat,
         RunScript(k, s)
  PROVE  AdmittedWithinRefill'
<1> SUFFICES ASSUME NEW i \in Key
             PROVE  /\ tokens'[i] <= Capacity
                    /\ live'[i] => used'[i] + tokens'[i] + base'[i]
                                     <= Capacity + ts'[i] + late'[i]
  BY DEF AdmittedWithinRefill
<1>1. CASE i # k
  <2>1. /\ tokens'[i] = tokens[i] /\ live'[i] = live[i] /\ ts'[i] = ts[i]
        /\ used'[i] = used[i] /\ base'[i] = base[i] /\ late'[i] = late[i]
    BY <1>1 DEF RunScript, BucketType
  <2> QED BY <2>1 DEF AdmittedWithinRefill
<1>2. CASE i = k
  <2> DEFINE r == Refilled(k, s)
             n == Spent(k, s)
  <2>1. /\ tokens[k] \in Nat /\ ts[k] \in Nat /\ used[k] \in Nat
        /\ base[k] \in Nat /\ late[k] \in Nat
    BY <1>2 DEF BucketType
  <2>2. /\ r \in Nat /\ n \in Nat /\ n <= r /\ r <= Capacity
    BY <2>1 DEF Refilled, Spent, Elapsed
  <2>3. live[k] => r <= tokens[k] + Elapsed(k, s)
    BY <2>1 DEF Refilled, Elapsed
  <2>4. tokens'[k] = r - n /\ ts'[k] = s
    BY <1>2 DEF RunScript, BucketType
  <2>5. /\ used'[k] = n + (IF live[k] THEN used[k] ELSE 0)
        /\ base'[k] = IF live[k] THEN base[k] ELSE s
        /\ late'[k] = IF ~live[k] THEN 0
                      ELSE IF s < ts[k] THEN late[k] + (ts[k] - s)
                      ELSE late[k]
    BY <1>2 DEF RunScript, BucketType
  <2> HIDE DEF r, n
  <2>6. CASE ~live[k]
    BY <1>2, <2>1, <2>2, <2>4, <2>5, <2>6
  <2>7. CASE live[k]
    <3>1. used[k] + tokens[k] + base[k] <= Capacity + ts[k] + late[k]
      BY <1>2, <2>7 DEF AdmittedWithinRefill
    <3>2. Elapsed(k, s) = IF s > ts[k] THEN s - ts[k] ELSE 0
      BY DEF Elapsed
    <3> QED BY <1>2, <2>1, <2>2, <2>3, <2>4, <2>5, <2>7, <3>1, <3>2
  <2> QED BY <2>6, <2>7
<1> QED BY <1>1, <1>2

(* A bucket that is untouched, or forgotten, keeps the bound.              *)
LEMMA OthersKeepBound ==
  ASSUME AdmittedWithinRefill, [Next]_vars, \A c \in Command : ~Take(c)
  PROVE  AdmittedWithinRefill'
<1>1. CASE \E k \in Key : Forget(k)
  <2>1. PICK k \in Key : Forget(k)
    BY <1>1
  <2>2. /\ tokens' = tokens /\ ts' = ts /\ used' = used /\ base' = base
        /\ late' = late
        /\ live' = [live EXCEPT ![k] = FALSE]
    BY <2>1 DEF Forget
  <2>3. \A i \in Key : live'[i] => live[i]
    BY <2>2
  <2> QED BY <2>2, <2>3 DEF AdmittedWithinRefill
<1>2. CASE ~(\E k \in Key : Forget(k))
  <2>1. UNCHANGED redis
    BY <1>2 DEF Next, Send, Resend, GiveUp, Receive, Disconnect, Stamp,
            TakeFailsOpen, Identify, Guard, StartReads, StartWrites,
            CreateTask, OtherService, ArchivedRefused, ServiceFails,
            RevokeToken, ExpireToken, BindProject, ArchiveProject, Change,
            Tick, AllDone, vars
  <2> QED BY <2>1 DEF AdmittedWithinRefill, redis
<1> QED BY <1>1, <1>2

(* A bucket hands out what it can hold and what time refills, and no more, *)
(* in whatever order the stamps of its requests arrive at the script.      *)
THEOREM BucketsAdmitWithinRefill == Spec => []AdmittedWithinRefill
<1>1. Init => AdmittedWithinRefill
  BY DEF Init, AdmittedWithinRefill
<1>2. TypeInv /\ AdmittedWithinRefill /\ [Next]_vars => AdmittedWithinRefill'
  <2> SUFFICES ASSUME TypeInv, AdmittedWithinRefill, [Next]_vars
               PROVE  AdmittedWithinRefill'
    OBVIOUS
  <2>1. CASE \E c \in Command : Take(c)
    <3>1. PICK c \in Command : Take(c)
      BY <2>1
    <3>2. stamp[c] \in Nat /\ RunScript(KeyOf(c), stamp[c]) /\ BucketType
      BY <3>1, TypeParts, TypePartsNext DEF Take, TypeInv
    <3> QED BY <3>2, ScriptKeepsBound
  <2> QED BY <2>1, OthersKeepBound
<1> QED BY <1>1, <1>2, TypeInvariant, PTL DEF Spec

---------------------------------------------------------------------------
(* Repeated requests                                                       *)

Refusal == No("TASK_STATUS_INVALID")

(* A command whose run the task is running under asked for a start.        *)
RunnerAskedToStart == \A c \in Command : run = c => call[c].op = "startTask"

(* Between its two steps a start has had no effect yet: had it had one on  *)
(* an earlier try, the task would be running.                              *)
StartsOnce ==
  \A c \in Command :
    /\ pc[c] = "starting" => call[c].op = "startTask" /\ effects[c] = 0
    /\ call[c] # None /\ call[c].op = "startTask" =>
         effects[c] <= 1 /\ (effects[c] # 0 => run # None)

(* The one refused for the status is not the one running.                  *)
RefusedIsNotRunning ==
  \A c \in Command :
    pc[c] \in {"answered", "done"} /\ answer[c] = Refusal => run # c

(* Each effect but the one just confirmed was reported as a failure.       *)
EffectsReported ==
  \A c \in Command :
    /\ effects[c] <= 1 + unread[c]
    /\ pc[c] \notin {"answered", "done"} => effects[c] <= unread[c]
    /\ pc[c] = "answered" /\ answer[c] # Yes => effects[c] <= unread[c]

RepeatInv ==
  /\ RunnerAskedToStart /\ StartsOnce /\ RefusedIsNotRunning
  /\ EffectsReported
  /\ DOMAIN answer = Command

(* What a start that was let through can be told.                          *)
LEMMA StartErrors ==
  ASSUME NEW c \in Command, call[c].op = "startTask",
         NEW err \in {"ErrTaskNotAssignedToCurrentAgent",
                      "ErrProjectArchived", "fault"}
  PROVE  AnswerTo(c, err) # Refusal
<1>1. "startTask" \in TaskOps
  BY DEF TaskOps
<1>2. RestAnswer("startTask", err) = Answer(RestTaskCode, err)
  <2>1. /\ "startTask" \notin DOMAIN ContextScope
        /\ "startTask" \notin DOMAIN ArtifactScope
        /\ "startTask" \notin DOMAIN RoomScope
        /\ "startTask" \notin DOMAIN AgentScope
        /\ "startTask" \notin DOMAIN ProjectScope
        /\ "startTask" \notin SystemOps
    BY DEF ContextScope, ArtifactScope, RoomScope, AgentScope, ProjectScope,
           SystemOps, SettingsScope
  <2> QED BY <1>1, <2>1 DEF RestAnswer
<1>3. RpcAnswer("startTask", err) = Answer(RpcTaskCode, err)
  BY DEF RpcAnswer
<1>4. Answer(RestTaskCode, err) # Refusal
  BY DEF Answer, RestTaskCode, Refusal, No, Again
<1>5. Answer(RpcTaskCode, err) # Refusal
  BY DEF Answer, RpcTaskCode, Refusal, No, Again
<1> QED BY <1>2, <1>3, <1>4, <1>5 DEF AnswerTo

(* No check in front of a service gives that answer.                       *)
LEMMA ChecksGiveNoRefusal ==
  ASSUME NEW c \in Command, Guard(c)
  PROVE  Goto(c, "serving") \/ \E reply : reply # Refusal /\ Reply(c, reply)
<1> DEFINE checks == IF IsRest(c) THEN RestChecks(c) ELSE RpcChecks(c)
           failed == {i \in DOMAIN checks : checks[i].bad}
           first == CHOOSE i \in failed : \A j \in failed : i <= j
<1>1. \A i \in DOMAIN checks : No(checks[i].code) # Refusal
  <2>1. \A i \in DOMAIN checks : checks[i].code # "TASK_STATUS_INVALID"
    <3>1. \A i \in DOMAIN RpcChecks(c) :
            RpcChecks(c)[i].code # "TASK_STATUS_INVALID"
      BY DEF RpcChecks, Check
    <3>2. \A i \in DOMAIN RestChecks(c) :
            RestChecks(c)[i].code # "TASK_STATUS_INVALID"
      <4>1. CASE call[c].op \in MemoryWrites
        BY <4>1 DEF RestChecks, Check
      <4>2. CASE call[c].op \notin MemoryWrites
        BY <4>2 DEF RestChecks, Check
      <4> QED BY <4>1, <4>2
    <3> QED BY <3>1, <3>2
  <2> HIDE DEF checks
  <2> QED BY <2>1 DEF No, Refusal
<1>2. failed = {} \/ \E i \in failed : \A j \in failed : i <= j
  <2>1. DOMAIN checks \in SUBSET {1, 2, 3, 4, 5}
    BY DEF RestChecks, RpcChecks
  <2>2. failed \in SUBSET {1, 2, 3, 4, 5}
    BY <2>1
  <2> HIDE DEF failed
  <2> QED BY <2>2
<1>3. CASE failed = {}
  BY <1>3 DEF Guard
<1>4. CASE failed # {}
  <2>1. first \in DOMAIN checks
    BY <1>2, <1>4
  <2>2. Reply(c, No(checks[first].code))
    BY <1>4 DEF Guard
  <2> QED BY <1>1, <2>1, <2>2
<1> QED BY <1>3, <1>4

(* A step that has no effect of its own needs only what it does to the     *)
(* command that takes it.                                                  *)
Quietly(c) ==
  /\ call' = call /\ run' = run /\ effects' = effects
  /\ \A d \in Command : unread'[d] \in Nat /\ unread'[d] >= unread[d]
  /\ \A d \in Command : d # c => pc'[d] = pc[d] /\ answer'[d] = answer[d]
  /\ DOMAIN answer' = Command

LEMMA QuietStep ==
  ASSUME TypeInv, RepeatInv, NEW c \in Command, Quietly(c),
         pc'[c] = "starting" => call[c].op = "startTask" /\ effects[c] = 0,
         pc'[c] \in {"answered", "done"} /\ answer'[c] = Refusal
           => run # c,
         pc'[c] \notin {"answered", "done"} => effects[c] <= unread'[c],
         pc'[c] = "answered" /\ answer'[c] # Yes
           => effects[c] <= unread'[c]
  PROVE  RepeatInv'
<1>1. \A d \in Command : effects[d] \in Nat /\ unread[d] \in Nat
  BY DEF TypeInv, TypeOK
<1>2. RunnerAskedToStart'
  BY DEF Quietly, RepeatInv, RunnerAskedToStart
<1>3. StartsOnce'
  BY DEF Quietly, RepeatInv, StartsOnce
<1>4. RefusedIsNotRunning'
  BY DEF Quietly, RepeatInv, RefusedIsNotRunning
<1>5. EffectsReported'
  BY <1>1 DEF Quietly, RepeatInv, EffectsReported
<1> QED BY <1>2, <1>3, <1>4, <1>5 DEF Quietly, RepeatInv

(* Moving on without an answer.                                            *)
LEMMA QuietMove ==
  ASSUME TypeInv, RepeatInv, NEW c \in Command, NEW l \in Labels,
         l \notin {"starting", "answered", "done"},
         pc[c] \notin {"answered", "done"},
         Goto(c, l), UNCHANGED <<call, run, effects, unread>>,
         answer' = answer \/ answer' = [answer EXCEPT ![c] = None]
  PROVE  RepeatInv'
<1>1. /\ pc'[c] = l
      /\ \A d \in Command : d # c => pc'[d] = pc[d]
  BY GotoType DEF TypeInv
<1>2. effects[c] <= unread[c]
  BY DEF RepeatInv, EffectsReported
<1>3. Quietly(c)
  BY <1>1 DEF Quietly, RepeatInv, TypeInv, TypeOK
<1> QED BY <1>1, <1>2, <1>3, QuietStep

(* Answering without an effect.                                            *)
LEMMA QuietReply ==
  ASSUME TypeInv, RepeatInv, NEW c \in Command, NEW reply,
         reply = Refusal => run # c,
         pc[c] \notin {"answered", "done"},
         Reply(c, reply), UNCHANGED <<call, run, effects, unread>>
  PROVE  RepeatInv'
<1>1. /\ pc'[c] = "answered"
      /\ \A d \in Command : d # c => pc'[d] = pc[d]
  BY GotoType DEF TypeInv, Reply, Labels
<1>2. answer' = [answer EXCEPT ![c] = reply]
  BY DEF Reply
<1>3. effects[c] <= unread[c]
  BY DEF RepeatInv, EffectsReported
<1>4. Quietly(c)
  BY <1>1, <1>2 DEF Quietly, RepeatInv, TypeInv, TypeOK
<1>5. answer'[c] = reply
  BY <1>2 DEF RepeatInv
<1> QED BY <1>1, <1>3, <1>4, <1>5, QuietStep

LEMMA ClientStepRepeats ==
  ASSUME TypeInv, RepeatInv, NEW c \in Command,
         Send(c) \/ Resend(c) \/ GiveUp(c) \/ Receive(c) \/ Disconnect(c)
  PROVE  RepeatInv'
<1>1. CASE Send(c) \/ Resend(c)
  BY <1>1, QuietMove
     DEF Send, Resend, Labels, client, rows, history
<1>2. CASE GiveUp(c)
  <2>1. /\ pc'[c] = "done"
        /\ \A d \in Command : d # c => pc'[d] = pc[d]
    BY <1>2, GotoType DEF TypeInv, GiveUp, Labels
  <2>2. answer' = [answer EXCEPT ![c] = No("CANCELED")]
    BY <1>2 DEF GiveUp
  <2>3. Quietly(c)
    BY <1>2, <2>1, <2>2
       DEF GiveUp, Quietly, RepeatInv, TypeInv, TypeOK, client, rows, history
  <2>4. answer'[c] # Refusal
    BY <2>2 DEF RepeatInv, No, Refusal
  <2> QED BY <2>1, <2>3, <2>4, QuietStep
<1>3. CASE Receive(c)
  <2>1. /\ pc'[c] \in {"backoff", "done"}
        /\ \A d \in Command : d # c => pc'[d] = pc[d]
    BY <1>3, SettleType DEF TypeInv, Receive
  <2>2. answer'[c] = answer[c]
    BY <1>3 DEF Receive, Settle, RepeatInv
  <2>3. Quietly(c)
    BY <1>3, <2>1
       DEF Receive, Settle, Quietly, RepeatInv, TypeInv, TypeOK, client,
           rows, history
  <2>4. answer[c] = Refusal => run # c
    BY <1>3 DEF Receive, RepeatInv, RefusedIsNotRunning
  <2>5. pc'[c] # "done" => effects[c] <= unread[c]
    <3>1. SUFFICES ASSUME pc'[c] # "done" PROVE answer[c] # Yes
      BY <1>3 DEF Receive, RepeatInv, EffectsReported
    <3>2. Goto(c, IF IsRetriable(answer[c]) /\ tries[c] < Tries
                  THEN "backoff" ELSE "done")
      BY <1>3 DEF Receive, Settle
    <3>3. ~IsRetriable(Yes)
      BY DEF IsRetriable, Yes
    <3> QED BY <3>1, <3>2, <3>3 DEF Goto, TypeInv, TypeOK
  <2>6. unread' = unread
    BY <1>3 DEF Receive, history
  <2> QED BY <2>1, <2>2, <2>3, <2>4, <2>5, <2>6, QuietStep
<1>4. CASE Disconnect(c)
  <2> DEFINE error == NetworkError(call[c].front)
  <2>1. /\ pc'[c] \in {"backoff", "done"}
        /\ \A d \in Command : d # c => pc'[d] = pc[d]
    BY <1>4, SettleType DEF TypeInv, Disconnect
  <2>2. answer'[c] = error
    BY <1>4 DEF Disconnect, Settle, RepeatInv
  <2>3. error # Refusal
    BY DEF NetworkError, No, Again, Refusal
  <2>4. /\ unread' \in [Command -> Nat]
        /\ \A d \in Command : unread'[d] >= unread[d]
    BY <1>4 DEF Disconnect, TypeInv, TypeOK
  <2>5. Quietly(c)
    BY <1>4, <2>1, <2>4
       DEF Disconnect, Settle, Quietly, RepeatInv, TypeInv, TypeOK, client,
           rows
  <2>6. pc'[c] # "done" => effects[c] <= unread'[c]
    <3>1. SUFFICES ASSUME pc'[c] # "done" PROVE effects[c] <= unread'[c]
      OBVIOUS
    <3>2. Goto(c, IF IsRetriable(error) /\ tries[c] < Tries
                  THEN "backoff" ELSE "done")
      BY <1>4 DEF Disconnect, Settle
    <3>3. IsRetriable(error)
      BY <3>1, <3>2 DEF Goto, TypeInv, TypeOK
    <3>4. call[c].front # "rest"
      BY <3>3 DEF NetworkError, IsRetriable, No
    <3>5. call[c].front = "rpc"
      BY <1>4, <3>4
         DEF Disconnect, TypeInv, TypeOK, CallSet, Front
    <3>6. CASE pc[c] = "answered" /\ answer[c] = Yes
      <4>1. unread'[c] = unread[c] + 1
        BY <1>4, <3>5, <3>6 DEF Disconnect, TypeInv, TypeOK
      <4> QED BY <4>1 DEF RepeatInv, EffectsReported, TypeInv, TypeOK
    <3>7. CASE ~(pc[c] = "answered" /\ answer[c] = Yes)
      <4>1. unread'[c] = unread[c]
        BY <1>4, <3>7 DEF Disconnect, TypeInv, TypeOK
      <4>2. effects[c] <= unread[c]
        BY <1>4, <3>7 DEF Disconnect, RepeatInv, EffectsReported
      <4> QED BY <4>1, <4>2
    <3> QED BY <3>6, <3>7
  <2> HIDE DEF error
  <2> QED BY <2>1, <2>2, <2>3, <2>5, <2>6, QuietStep
<1> QED BY <1>1, <1>2, <1>3, <1>4

LEMMA EntryStepRepeats ==
  ASSUME TypeInv, RepeatInv, NEW c \in Command,
         Stamp(c) \/ Take(c) \/ TakeFailsOpen(c) \/ Identify(c) \/ Guard(c)
  PROVE  RepeatInv'
<1>1. /\ UNCHANGED <<call, run, effects, unread>>
      /\ pc[c] \notin {"answered", "done"}
  BY DEF Stamp, Take, TakeFailsOpen, Identify, Guard, client, rows, history
<1>2. \/ answer' = answer /\
           \E l \in Labels \ {"starting", "answered", "done"} : Goto(c, l)
      \/ \E reply : reply # Refusal /\ Reply(c, reply)
  <2>1. CASE Stamp(c)
    BY <2>1 DEF Stamp, Labels
  <2>2. CASE Take(c) \/ TakeFailsOpen(c)
    <3>1. AfterLimit(c) \in Labels \ {"starting", "answered", "done"}
      BY DEF AfterLimit, Labels
    <3>2. Again("RATE_LIMITED") # Refusal
      BY DEF Again, Refusal, No
    <3> QED BY <2>2, <3>1, <3>2 DEF Take, TakeFailsOpen, noReply
  <2>3. CASE Identify(c)
    <3>1. AfterIdentify(c) \in Labels \ {"starting", "answered", "done"}
      BY DEF AfterIdentify, Labels
    <3>2. /\ No("AGENT_TOKEN_EXPIRED") # Refusal
          /\ No("AGENT_TOKEN_INVALID") # Refusal
      BY DEF Refusal, No
    <3> QED BY <2>3, <3>1, <3>2 DEF Identify
  <2>4. CASE Guard(c)
    <3>1. CASE Goto(c, "serving")
      <4>1. "answered" # "serving"
        OBVIOUS
      <4>2. pc'[c] = "serving"
        BY <3>1, GotoType DEF TypeInv, Labels
      <4>3. ~(\E reply : Reply(c, reply))
        BY <4>2, GotoType DEF Reply, TypeInv, Labels
      <4>4. answer' = answer
        BY <2>4, <4>3 DEF Guard, noReply
      <4> QED BY <3>1, <4>4 DEF Labels
    <3> QED BY <2>4, <3>1, ChecksGiveNoRefusal
  <2> QED BY <2>1, <2>2, <2>3, <2>4
<1> QED BY <1>1, <1>2, QuietMove, QuietReply

LEMMA StartStepRepeats ==
  ASSUME TypeInv, RepeatInv, NEW c \in Command,
         StartReads(c) \/ StartWrites(c)
  PROVE  RepeatInv'
<1>1. CASE StartReads(c)
  <2>1. /\ UNCHANGED <<call, run, effects, unread>>
        /\ pc[c] = "serving" /\ call[c].op = "startTask"
    BY <1>1 DEF StartReads, client, rows, history
  <2>2. CASE Goto(c, "starting") /\ UNCHANGED noReply
    <3>1. /\ pc'[c] = "starting"
          /\ \A d \in Command : d # c => pc'[d] = pc[d]
      BY <2>2, GotoType DEF TypeInv, Labels
    <3>2. Quietly(c)
      BY <2>1, <2>2, <3>1
         DEF Quietly, noReply, RepeatInv, TypeInv, TypeOK
    <3>3. ~(\E reply : Reply(c, reply))
      BY <3>1, GotoType DEF Reply, TypeInv, Labels
    <3>4. run = None
      <4>1. run \notin {None, c} \/ run = c \/ run = None
        OBVIOUS
      <4> QED BY <1>1, <3>3, <4>1 DEF StartReads, Refuse
    <3>5. call[c] # None
      BY <2>1, CallAssumption DEF TypeInv, TypeOK
    <3>6. effects[c] = 0
      BY <2>1, <3>4, <3>5 DEF RepeatInv, StartsOnce
    <3>7. effects[c] <= unread'[c]
      BY <2>1, <3>6 DEF TypeInv, TypeOK
    <3> QED BY <2>1, <3>1, <3>2, <3>6, <3>7, QuietStep
  <2>3. ASSUME NEW reply, Reply(c, reply), reply = Refusal => run # c
        PROVE  RepeatInv'
    BY <2>1, <2>3, QuietReply
  <2>4. \/ Goto(c, "starting") /\ UNCHANGED noReply
        \/ \E reply : Reply(c, reply) /\ (reply = Refusal => run # c)
    <3>1. /\ AnswerTo(c, "ErrTaskNotAssignedToCurrentAgent") # Refusal
          /\ AnswerTo(c, "ErrProjectArchived") # Refusal
          /\ Yes # Refusal
      BY <2>1, StartErrors DEF Yes, Refusal, No
    <3> QED BY <1>1, <3>1 DEF StartReads, Refuse
  <2> QED BY <2>2, <2>3, <2>4
<1>2. CASE StartWrites(c)
  <2>1. /\ run' = c /\ call' = call
        /\ effects' = [effects EXCEPT ![c] = effects[c] + 1]
        /\ pc[c] = "starting"
    BY <1>2 DEF StartWrites, client
  <2>2. call[c].op = "startTask" /\ effects[c] = 0
    BY <2>1 DEF RepeatInv, StartsOnce
  <2>3. PICK reply : /\ Reply(c, reply) /\ reply # Refusal
                     /\ \/ reply = Yes /\ unread' = unread
                        \/ unread' = [unread EXCEPT ![c] = unread[c] + 1]
    <3>1. AnswerTo(c, "fault") # Refusal /\ Yes # Refusal
      BY <2>2, StartErrors DEF Yes, Refusal, No
    <3> QED BY <1>2, <3>1 DEF StartWrites, Refuse
  <2>4. /\ pc'[c] = "answered" /\ answer'[c] = reply
        /\ DOMAIN answer' = Command
        /\ \A d \in Command : d # c => /\ pc'[d] = pc[d]
                                       /\ answer'[d] = answer[d]
    BY <2>3, GotoType DEF TypeInv, Reply, Labels, RepeatInv
  <2>5. /\ effects \in [Command -> Nat] /\ unread \in [Command -> Nat]
    BY DEF TypeInv, TypeOK
  <2>6. RunnerAskedToStart'
    BY <2>1, <2>2 DEF RepeatInv, RunnerAskedToStart
  <2>7. StartsOnce'
    BY <2>1, <2>2, <2>4, <2>5, CallAssumption DEF RepeatInv, StartsOnce
  <2>8. RefusedIsNotRunning'
    BY <2>1, <2>3, <2>4 DEF RepeatInv, RefusedIsNotRunning
  <2>9. EffectsReported'
    <3> SUFFICES ASSUME NEW d \in Command
                 PROVE  /\ effects'[d] <= 1 + unread'[d]
                        /\ pc'[d] \notin {"answered", "done"}
                             => effects'[d] <= unread'[d]
                        /\ pc'[d] = "answered" /\ answer'[d] # Yes
                             => effects'[d] <= unread'[d]
      BY DEF EffectsReported
    <3>1. CASE d # c
      BY <2>1, <2>3, <2>4, <2>5, <3>1 DEF RepeatInv, EffectsReported
    <3>2. CASE d = c
      BY <2>1, <2>2, <2>3, <2>4, <2>5, <3>2
    <3> QED BY <3>1, <3>2
  <2> QED BY <2>4, <2>6, <2>7, <2>8, <2>9 DEF RepeatInv
<1> QED BY <1>1, <1>2

LEMMA ServiceStepRepeats ==
  ASSUME TypeInv, RepeatInv, NEW c \in Command,
         \/ CreateTask(c) \/ OtherService(c) \/ ArchivedRefused(c)
         \/ ServiceFails(c)
  PROVE  RepeatInv'
<1>1. CASE CreateTask(c)
  <2>1. /\ run' = run /\ call' = call
        /\ effects' = [effects EXCEPT ![c] = effects[c] + 1]
        /\ pc[c] = "serving" /\ call[c].op = "createTask"
    BY <1>1 DEF CreateTask, client, rows
  <2>2. run # c
    BY <2>1 DEF RepeatInv, RunnerAskedToStart
  <2>3. PICK reply : /\ Reply(c, reply)
                     /\ \/ reply = Yes /\ unread' = unread
                        \/ unread' = [unread EXCEPT ![c] = unread[c] + 1]
    BY <1>1 DEF CreateTask, Refuse
  <2>4. /\ pc'[c] = "answered" /\ answer'[c] = reply
        /\ DOMAIN answer' = Command
        /\ \A d \in Command : d # c => /\ pc'[d] = pc[d]
                                       /\ answer'[d] = answer[d]
    BY <2>3, GotoType DEF TypeInv, Reply, Labels, RepeatInv
  <2>5. /\ effects \in [Command -> Nat] /\ unread \in [Command -> Nat]
    BY DEF TypeInv, TypeOK
  <2>6. RunnerAskedToStart'
    BY <2>1 DEF RepeatInv, RunnerAskedToStart
  <2>7. StartsOnce'
    BY <2>1, <2>4, <2>5 DEF RepeatInv, StartsOnce
  <2>8. RefusedIsNotRunning'
    BY <2>1, <2>2, <2>4 DEF RepeatInv, RefusedIsNotRunning
  <2>9. EffectsReported'
    <3> SUFFICES ASSUME NEW d \in Command
                 PROVE  /\ effects'[d] <= 1 + unread'[d]
                        /\ pc'[d] \notin {"answered", "done"}
                             => effects'[d] <= unread'[d]
                        /\ pc'[d] = "answered" /\ answer'[d] # Yes
                             => effects'[d] <= unread'[d]
      BY DEF EffectsReported
    <3>1. CASE d # c
      BY <2>1, <2>3, <2>4, <2>5, <3>1 DEF RepeatInv, EffectsReported
    <3>2. CASE d = c
      <4>1. effects[c] <= unread[c]
        BY <2>1 DEF RepeatInv, EffectsReported
      <4> QED BY <2>1, <2>3, <2>4, <2>5, <3>2, <4>1
    <3> QED BY <3>1, <3>2
  <2> QED BY <2>4, <2>6, <2>7, <2>8, <2>9 DEF RepeatInv
<1>2. CASE OtherService(c) \/ ArchivedRefused(c) \/ ServiceFails(c)
  <2>1. /\ UNCHANGED <<call, run, effects, unread>>
        /\ pc[c] \notin {"answered", "done"}
    BY <1>2 DEF OtherService, ArchivedRefused, ServiceFails, client, rows,
                history
  <2>2. CASE call[c].op # "startTask"
    <3>1. run # c
      BY <2>2 DEF RepeatInv, RunnerAskedToStart
    <3>2. \E reply : Reply(c, reply)
      BY <1>2 DEF OtherService, ArchivedRefused, ServiceFails, Refuse
    <3> QED BY <2>1, <3>1, <3>2, QuietReply
  <2>3. CASE call[c].op = "startTask"
    <3>1. Reply(c, AnswerTo(c, "fault"))
      BY <1>2, <2>3
         DEF OtherService, ArchivedRefused, ServiceFails, Refuse, Modelled
    <3>2. AnswerTo(c, "fault") # Refusal
      BY <2>3, StartErrors
    <3> QED BY <2>1, <3>1, <3>2, QuietReply
  <2> QED BY <2>2, <2>3
<1> QED BY <1>1, <1>2

LEMMA OutsideStepRepeats ==
  ASSUME TypeInv, RepeatInv,
         \/ RevokeToken \/ ExpireToken \/ BindProject \/ ArchiveProject
         \/ \E k \in Key : Forget(k)
         \/ Tick \/ AllDone \/ UNCHANGED vars
  PROVE  RepeatInv'
<1>1. UNCHANGED <<pc, answer, call, run, effects, unread>>
  BY DEF RevokeToken, ExpireToken, BindProject, ArchiveProject, Change,
         Forget, Tick, AllDone, vars, rows, client, history
<1> QED BY <1>1 DEF RepeatInv, RunnerAskedToStart, StartsOnce,
                    RefusedIsNotRunning, EffectsReported

LEMMA StepRepeats == TypeInv /\ RepeatInv /\ [Next]_vars => RepeatInv'
BY ClientStepRepeats, EntryStepRepeats, StartStepRepeats,
   ServiceStepRepeats, OutsideStepRepeats DEF Next

(* The inductive invariant of repeated requests: who runs, who was refused *)
(* and which effects were reported as failures.                            *)
THEOREM RepeatInvariant == Spec => []RepeatInv
<1>1. Init => RepeatInv
  BY CallAssumption
     DEF Init, RepeatInv, RunnerAskedToStart, StartsOnce,
         RefusedIsNotRunning, EffectsReported
<1> QED BY <1>1, StepRepeats, TypeInvariant, PTL DEF Spec

(* A start is not refused for the status it brought about on an earlier    *)
(* try, whichever front end and whatever failed in between.                *)
THEOREM StartedNotRefused == Spec => []StartedIsNotRefused
<1>1. RepeatInv => StartedIsNotRefused
  BY DEF RepeatInv, RefusedIsNotRunning, StartedIsNotRefused, Refusal
<1> QED BY <1>1, RepeatInvariant, PTL

(* Nothing is done twice unless the first time was answered with an error  *)
(* or not at all, and no start is done twice.                              *)
THEOREM RepeatedAfterFailedReply == Spec => []RepeatedOnlyAfterFailedReply
<1>1. RepeatInv => RepeatedOnlyAfterFailedReply
  BY DEF RepeatInv, StartsOnce, EffectsReported,
         RepeatedOnlyAfterFailedReply
<1> QED BY <1>1, RepeatInvariant, PTL

---------------------------------------------------------------------------
(* The calls of the commands                                               *)

(* The calls a front end serves, and those of them that change nothing.    *)
Served == {Rest(op) : op \in RestOps} \cup {Rpc(op) : op \in RpcOps}
Lookup == {k \in Served : k.op \notin Writes}

(* The looking up that comes first is of this kind.                        *)
LEMMA LookupsServed ==
  /\ Rest("getTask") \in Lookup /\ Rest("listAgents") \in Lookup
  /\ Rpc("getCurrentTask") \in Lookup /\ Rpc("whoAmI") \in Lookup
  /\ Rpc("bootstrap") \in Lookup
<1>1. /\ {"getTask", "listAgents"} \subseteq RestOps
      /\ {"getCurrentTask", "whoAmI", "bootstrap"} \subseteq RpcOps
  BY DEF RestOps, TaskOps, GlobalOps, AgentScope, RpcOps
<1>2. {"getTask", "listAgents", "getCurrentTask", "whoAmI", "bootstrap"}
        \cap Writes = {}
  BY DEF Writes, WritableOps, BodyOps, TaskPlanScope, TaskRunScope,
     MemoryWrites, MemoryWriteScope
<1> QED BY <1>1, <1>2 DEF Lookup, Served, Rest, Rpc

(* What comes last is served too.                                          *)
LEMMA LastServed ==
  /\ \A op \in {"listOwnTasks", "getTask", "heartbeatTask", "failTask",
                "reviewTask", "createTask", "resumeTask", "searchMemory",
                "getRoom", "sendMessage", "listMentions", "listMessages",
                "pinMessage"} : Rest(op) \in Served
  /\ \A op \in {"getCurrentTask", "startTask", "submitTask", "bootstrap",
                "reportContext", "createHandoff", "getCurrentHandoff"} :
       Rpc(op) \in Served
<1>1. {"listOwnTasks", "getTask", "heartbeatTask", "failTask", "reviewTask",
       "createTask", "resumeTask"} \subseteq RestOps
  BY DEF RestOps, TaskOps
<1>2. {"getRoom", "sendMessage", "listMentions", "listMessages",
       "pinMessage"} \subseteq RestOps
  BY DEF RestOps, RoomScope
<1>3. "searchMemory" \in RestOps
  BY DEF RestOps, MemoryOps, MemoryReadScope
<1> QED BY <1>1, <1>2, <1>3 DEF Served, Rest, Rpc, RpcOps

(* A sequence of calls that only looks things up before its last.          *)
Careful(s) ==
  \A n \in DOMAIN s : /\ s[n] \in Served
                      /\ n < Len(s) => s[n] \in Lookup

LEMMA CallThen ==
  ASSUME NEW s \in Seq(Lookup), NEW last \in Served
  PROVE  Careful(Append(s, last))
<1>1. /\ Lookup \subseteq Served /\ s \in Seq(Served)
      /\ \A n \in 1..Len(s) : s[n] \in Lookup
  <2>1. Lookup \subseteq Served
    BY DEF Lookup
  <2> HIDE DEF Lookup
  <2> QED BY <2>1, SeqMonotonic
<1>2. /\ Append(s, last) \in Seq(Served)
      /\ Len(Append(s, last)) = Len(s) + 1
      /\ \A n \in 1..Len(s) : Append(s, last)[n] = s[n]
      /\ Append(s, last)[Len(s) + 1] = last
  BY <1>1, AppendProperties
<1>3. DOMAIN Append(s, last) = 1..(Len(s) + 1) /\ Len(s) \in Nat
  BY <1>1, <1>2, LenProperties
<1> QED BY <1>1, <1>2, <1>3 DEF Careful

(* The sequences of all commands are of this kind.                         *)
LEMMA CarefulCommands == \A s \in Sequences : Careful(s)
<1>1. \A k \in Served : Careful(<<k>>)
  <2> TAKE k \in Served
  <2>1. <<>> \in Seq(Lookup) /\ <<k>> = Append(<<>>, k)
    BY EmptySeq
  <2> QED BY <2>1, CallThen
<1>2. \A S : S \subseteq Seq(Lookup) =>
        \A k \in Served : \A s \in Then(S, k) : Careful(s)
  <2> SUFFICES ASSUME NEW S, S \subseteq Seq(Lookup), NEW k \in Served,
                      NEW s \in Then(S, k)
               PROVE  Careful(s)
    OBVIOUS
  <2>1. PICK t \in S : s = Append(t, k)
    BY DEF Then
  <2>2. t \in Seq(Lookup)
    BY <2>1
  <2>3. Careful(Append(t, k))
    BY <2>2, CallThen
  <2> QED BY <2>1, <2>3
<1>3. \A k \in Lookup : \A l \in Served : Careful(<<k, l>>)
  <2> TAKE k \in Lookup
  <2> TAKE l \in Served
  <2>1. <<k>> \in Seq(Lookup) /\ <<k, l>> = Append(<<k>>, l)
    OBVIOUS
  <2> QED BY <2>1, CallThen
<1>4. /\ ResolveRun(TRUE) \subseteq Seq(Lookup)
      /\ ResolveRun(FALSE) \subseteq Seq(Lookup)
      /\ ResolveTarget \subseteq Seq(Lookup)
      /\ ResolveTask \subseteq Seq(Lookup)
      /\ {<<>>, <<Rpc("bootstrap")>>} \subseteq Seq(Lookup)
  <2>1. \A k \in Lookup : <<k>> \in Seq(Lookup)
    OBVIOUS
  <2>2. \A k, l \in Lookup : <<k, l>> \in Seq(Lookup)
    OBVIOUS
  <2> QED BY <2>1, <2>2, EmptySeq, LookupsServed
          DEF ResolveRun, ResolveTarget, ResolveTask
<1>5. \A k \in DOMAIN TaskLooks : \A s \in TaskLooks[k] : Careful(s)
  BY <1>1, <1>3, LookupsServed, LastServed DEF TaskLooks
<1>6. \A k \in DOMAIN TaskRuns : \A s \in TaskRuns[k] : Careful(s)
  <2>1. /\ Rpc("startTask") \in Served /\ Rest("heartbeatTask") \in Served
        /\ Rpc("submitTask") \in Served /\ Rest("failTask") \in Served
    BY LastServed
  <2>2. \A k \in Served :
          \A s \in Then(ResolveRun(TRUE), k) : Careful(s)
    BY <1>2, <1>4
  <2>3. ResolveRun(TRUE) \cup ResolveRun(FALSE) \subseteq Seq(Lookup)
    BY <1>4
  <2>4. \A k \in Served :
          \A s \in Then(ResolveRun(TRUE) \cup ResolveRun(FALSE), k) :
            Careful(s)
    BY <1>2, <2>3
  <2>5. /\ \A s \in TaskRuns["taskStart"] : Careful(s)
        /\ \A s \in TaskRuns["taskHeartbeat"] : Careful(s)
        /\ \A s \in TaskRuns["taskCheckpoint"] : Careful(s)
        /\ \A s \in TaskRuns["taskSubmit"] : Careful(s)
        /\ \A s \in TaskRuns["taskFail"] : Careful(s)
    <3>1. \A s \in TaskRuns["taskStart"] : Careful(s)
      BY <1>1, <2>1 DEF TaskRuns
    <3>2. \A s \in TaskRuns["taskHeartbeat"] : Careful(s)
      BY <2>1, <2>4 DEF TaskRuns
    <3> QED BY <2>1, <2>2, <3>1, <3>2 DEF TaskRuns
  <2>6. DOMAIN TaskRuns = {"taskStart", "taskHeartbeat", "taskCheckpoint",
                           "taskSubmit", "taskFail"}
    BY DEF TaskRuns
  <2> QED BY <2>5, <2>6
<1>7. \A k \in DOMAIN TaskPlans : \A s \in TaskPlans[k] : Careful(s)
  BY <1>1, <1>2, <1>4, LastServed DEF TaskPlans
<1>8. \A s \in RunEnd : Careful(s)
  BY <1>2, <1>4, LastServed DEF RunEnd
<1>9. \A k \in DOMAIN ContextReports : \A s \in ContextReports[k] : Careful(s)
  <2>1. /\ Rpc("bootstrap") \in Served /\ Rpc("reportContext") \in Served
        /\ Rest("searchMemory") \in Served
    BY LastServed
  <2>2. \A s \in Then({<<>>, <<Rpc("bootstrap")>>}, Rpc("reportContext")) :
          Careful(s)
    BY <1>2, <1>4, <2>1
  <2>3. /\ \A s \in ContextReports["contextStatus"] : Careful(s)
        /\ \A s \in ContextReports["contextReport"] : Careful(s)
        /\ \A s \in ContextReports["contextCompact"] : Careful(s)
    BY <1>1, <2>1, <2>2 DEF ContextReports
  <2>4. DOMAIN ContextReports =
          {"contextStatus", "contextReport", "contextCompact"}
    BY DEF ContextReports
  <2> QED BY <2>3, <2>4
<1>10. \A k \in DOMAIN Handoffs : \A s \in Handoffs[k] : Careful(s)
  BY <1>1, <1>2, <1>3, <1>4, LookupsServed, LastServed DEF Handoffs
<1>11. \A k \in DOMAIN RoomCommands : \A s \in RoomCommands[k] : Careful(s)
  BY <1>1, LastServed DEF RoomCommands
<1> QED
  BY <1>5, <1>6, <1>7, <1>8, <1>9, <1>10, <1>11 DEF Sequences

(* Every call of a task, context, run or room command is one its front end *)
(* serves.                                                                 *)
THEOREM CommandsAreServed == EveryCallIsServed
<1>1. \A k \in Served : k.op \in IF k.front = "rest" THEN RestOps ELSE RpcOps
  BY DEF Served, Rest, Rpc
<1> QED BY <1>1, CarefulCommands DEF EveryCallIsServed, Careful

(* Such a command changes nothing before its last call, so one that ends   *)
(* with an error on its way leaves nothing half done.                      *)
THEOREM CommandsWriteLast == OnlyTheLastCallWrites
BY CarefulCommands DEF OnlyTheLastCallWrites, Careful, Lookup
=============================================================================
