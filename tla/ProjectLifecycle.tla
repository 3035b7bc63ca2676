-------------------------- MODULE ProjectLifecycle --------------------------
(***************************************************************************)
(* The projects: core/internal/service/projects/service.go, the hooks of   *)
(* its Create in cmd/server/main.go, and the binding of agents in          *)
(* agents/service.go.  The jobs that look at projects are in ServerJobs.   *)
(*                                                                         *)
(* A request reads the row in one statement and writes it in a later one   *)
(* that names only the id, so others may write in between.                 *)
(*                                                                         *)
(* The tasks belong to another service; here they move between the classes *)
(* the counts of a project tell apart.                                     *)
(***************************************************************************)
EXTENDS Naturals, FiniteSets

CONSTANTS
  Project, Agent,
  Task,        \* of each project; Task[p] includes the root task
  Root,        \* the task a project is created with
  Required,    \* tasks with is_required
  Request,     \* requests in flight at a time
  Patchable,   \* rules of the completion policy that requests change
  MaxFaults,   \* bound: statements, hooks and commits that fail
  None

Rule == {"required", "blocked", "failed", "review"}
AllTasks == UNION {Task[p] : p \in Project}

ASSUME TaskAssumption ==
  /\ Task \in [Project -> SUBSET AllTasks] /\ Root \in [Project -> AllTasks]
  /\ \A p \in Project : Root[p] \in Task[p] /\ IsFiniteSet(Task[p])
  /\ \A p, q \in Project : p # q => Task[p] \cap Task[q] = {}
  /\ Required \subseteq AllTasks /\ Patchable \subseteq Rule
ASSUME AgentAssumption == Agent # {}
ASSUME BoundAssumption == MaxFaults \in Nat
ASSUME NoneAssumption == None \notin Project

VARIABLES
  project,   \* projects: status and the strict rules of completion_policy
  bound,     \* agent_project_bindings that are enabled
  task,      \* tasks: the class of the status
  req, faults,
  early,     \* history: requests in flight when the project was archived
  passed     \* history: requests whose policy the tasks satisfied meanwhile

vars == <<project, bound, task, req, faults, early, passed>>

Class == {"absent", "open", "pending", "blocked", "failed", "done"}
ProjectStatus == {"absent", "active", "completed", "archived"}

Idle == [op |-> "idle"]
Exists(p) == project[p].status # "absent"

Init ==
  /\ project = [p \in Project |-> [status |-> "absent", policy |-> Rule]]
  /\ bound = {}
  /\ task = [t \in AllTasks |-> "absent"]
  /\ req = [r \in Request |-> Idle]
  /\ faults = 0
  /\ early = [p \in Project |-> {}] /\ passed = {}

rowVars == <<project, bound, task>>
history == <<early, passed>>

---------------------------------------------------------------------------
(* The counts and the policy.                                              *)

Broken(p, moved) ==
  LET some(c) == \E t \in Task[p] : moved[t] = c
      owing == \E t \in Task[p] \cap Required : moved[t] \notin {"absent", "done"}
  IN  {r \in Rule : \/ r = "required" /\ owing
                    \/ r = "blocked" /\ some("blocked")
                    \/ r = "failed" /\ some("failed")
                    \/ r = "review" /\ some("pending")}

(* Bug variant of EvaluatePolicy: pending reviews are not counted.         *)
EvaluatePolicyNoReview(p, policy) ==
  policy \cap Broken(p, task) \subseteq {"review"}

EvaluatePolicy(p, policy) == policy \cap Broken(p, task) = {}

---------------------------------------------------------------------------
(* Requests                                                                *)

Begin(r, q) == req[r] = Idle /\ req' = [req EXCEPT ![r] = q]
End(r) == req' = [req EXCEPT ![r] = Idle]

(* Create: one transaction with a fresh id.                                *)
CreateBegin(r, p) ==
  /\ ~Exists(p)
  /\ \A s \in Request : ~(req[s].op = "create" /\ req[s].of = p)
  /\ Begin(r, [op |-> "create", of |-> p, at |-> "seed"])
  /\ UNCHANGED <<rowVars, faults, history>>

(* The memory space lies outside of the transaction: what a failed Create  *)
(* has written there stays, under an id nobody will use.                   *)
CreateSeed(r) ==
  /\ req[r].op = "create" /\ req[r].at = "seed"
  /\ req' = [req EXCEPT ![r].at = "commit"]
  /\ UNCHANGED <<rowVars, faults, history>>

(* The oldest agent of each default type is bound, or one made for it; a   *)
(* type stands for its agent here.                                         *)
BindDefaultAgents(p) == bound \cup {<<CHOOSE a \in Agent : TRUE, p>>}

(* Session, root task, room and default agents come into being at once.    *)
CreateCommit(r) ==
  /\ req[r].op = "create" /\ req[r].at = "commit"
  /\ LET p == req[r].of IN
     /\ project' = [project EXCEPT ![p].status = "active"]
     /\ task' = [task EXCEPT ![Root[p]] = "open"]
     /\ bound' = BindDefaultAgents(p)
  /\ End(r)
  /\ UNCHANGED <<faults, history>>

(* Update with a patch of the policy, which is merged with what was read.  *)
UpdateRead(r, p, rule, strict) ==
  /\ Exists(p) /\ project[p].status # "archived"
  /\ LET old == project[p].policy IN
     Begin(r, [op |-> "update", of |-> p,
               policy |-> IF strict THEN old \cup {rule} ELSE old \ {rule}])
  /\ UNCHANGED <<rowVars, faults, history>>

UpdateWrite(r) ==
  /\ req[r].op = "update"
  /\ project' = [project EXCEPT ![req[r].of].policy = req[r].policy]
  /\ End(r)
  /\ UNCHANGED <<bound, task, faults, history>>

(* Bug variant of Completable: only a completed project is left alone.     *)
CompletableUnlessCompleted(status) == status \notin {"absent", "completed"}

Completable(status) == status = "active"

CompleteRead(r, p) ==
  /\ Completable(project[p].status)
  /\ Begin(r, [op |-> "complete", of |-> p, policy |-> project[p].policy,
               at |-> "count"])
  /\ passed' = IF project[p].policy \cap Broken(p, task) = {}
               THEN passed \cup {r} ELSE passed \ {r}
  /\ UNCHANGED <<rowVars, faults, early>>

CompleteCount(r) ==
  /\ req[r].op = "complete" /\ req[r].at = "count"
  /\ IF EvaluatePolicy(req[r].of, req[r].policy)
       THEN req' = [req EXCEPT ![r].at = "write"]
       ELSE End(r)
  /\ UNCHANGED <<rowVars, faults, history>>

CompleteWrite(r) ==
  /\ req[r].op = "complete" /\ req[r].at = "write"
  /\ project' = [project EXCEPT ![req[r].of].status = "completed"]
  /\ End(r)
  /\ UNCHANGED <<bound, task, faults, history>>

(* One statement; archiving an archived project changes nothing.           *)
Archive(p) ==
  /\ Exists(p)
  /\ project' = [project EXCEPT ![p].status = "archived"]
  /\ early' = IF project[p].status = "archived" THEN early
              ELSE [early EXCEPT ![p] = {r \in Request : req[r] # Idle}]
  /\ UNCHANGED <<bound, task, req, faults, passed>>

BindRead(r, p, a, enabled) ==
  /\ Exists(p) /\ project[p].status # "archived"
  /\ Begin(r, [op |-> "bind", of |-> p, agent |-> a, enabled |-> enabled])
  /\ UNCHANGED <<rowVars, faults, history>>

BindWrite(r) ==
  /\ req[r].op = "bind"
  /\ LET b == <<req[r].agent, req[r].of>> IN
     bound' = IF req[r].enabled THEN bound \cup {b} ELSE bound \ {b}
  /\ End(r)
  /\ UNCHANGED <<project, task, faults, history>>

(* A statement, a hook or the commit fails; Create rolls back.             *)
RequestFails(r) ==
  /\ req[r] # Idle /\ faults < MaxFaults
  /\ faults' = faults + 1 /\ End(r)
  /\ UNCHANGED <<rowVars, history>>

---------------------------------------------------------------------------
(* The tasks move as the task service lets them; requests in flight and    *)
(* the timeout job move them even after the project was archived.          *)

Moves == {<<"open", "pending">>, <<"open", "blocked">>, <<"open", "failed">>,
          <<"pending", "done">>, <<"pending", "open">>, <<"blocked", "open">>,
          <<"done", "open">>}

TaskMoves(p, t) ==
  /\ t \in Task[p] /\ Exists(p)
  /\ \E c \in Class :
       /\ \/ <<task[t], c>> \in Moves
          \/ task[t] = "absent" /\ c = "open"
       /\ task' = [task EXCEPT ![t] = c]
  /\ passed' = passed \cup
       {r \in Request : req[r].op = "complete"
                        /\ req[r].policy \cap Broken(req[r].of, task') = {}}
  /\ UNCHANGED <<project, bound, req, faults, early>>

---------------------------------------------------------------------------
RequestStep(r) ==
  \/ CreateSeed(r) \/ CreateCommit(r) \/ UpdateWrite(r)
  \/ CompleteCount(r) \/ CompleteWrite(r) \/ BindWrite(r) \/ RequestFails(r)

Next ==
  \/ \E r \in Request, p \in Project :
       \/ CreateBegin(r, p) \/ CompleteRead(r, p)
       \/ \E rule \in Patchable, b \in BOOLEAN : UpdateRead(r, p, rule, b)
       \/ \E a \in Agent, b \in BOOLEAN : BindRead(r, p, a, b)
  \/ \E r \in Request : RequestStep(r)
  \/ \E p \in Project : Archive(p) \/ \E t \in AllTasks : TaskMoves(p, t)

Spec == Init /\ [][Next]_vars

=============================================================================
