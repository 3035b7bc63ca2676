---------------------------- MODULE ProjectProofs ----------------------------
(***************************************************************************)
(* Theorems about the projects, for every number of projects, tasks,       *)
(* agents and requests.                                                    *)
(***************************************************************************)
EXTENDS ProjectSafety, TLAPS

(* A project that is being created has no row yet, and one creator; any    *)
(* other request has read the row of its project.                          *)
RowsFirst ==
  /\ \A r \in Request :
       /\ req[r].op = "create" => ~Exists(req[r].of)
       /\ req[r].op \in {"update", "complete", "bind"} => Exists(req[r].of)
  /\ \A r, s \in Request :
       /\ req[r].op = "create" /\ req[s].op = "create"
       /\ req[r].of = req[s].of
       => r = s

(* The requests that are about to write an archived project began before.  *)
OnlyEarly ==
  \A r \in Request :
    req[r].op \in {"update", "complete", "bind"} =>
      (project[req[r].of].status = "archived" => r \in early[req[r].of])

(* History has noticed what a count would find now.                        *)
PassNoticed ==
  \A r \in Request :
    req[r].op = "complete" =>
      (req[r].policy \cap Broken(req[r].of, task) = {} => r \in passed)

ProjectInv ==
  /\ TypeOK /\ RowsFirst /\ OnlyEarly /\ PassNoticed
  /\ CompletedWasCompletable

---------------------------------------------------------------------------
(* Requests and what they hold                                             *)

USE TaskAssumption, AgentAssumption, BoundAssumption, NoneAssumption

LEMMA RequestFields ==
  ASSUME TypeOK, NEW r \in Request
  PROVE  /\ req[r] \in RequestState
         /\ req[r].op = "create" =>
              /\ req[r].of \in Project
              /\ [req[r] EXCEPT !.at = "commit"] \in RequestState
              /\ [req[r] EXCEPT !.at = "commit"].op = "create"
              /\ [req[r] EXCEPT !.at = "commit"].of = req[r].of
         /\ req[r].op = "update" =>
              req[r].of \in Project /\ req[r].policy \in SUBSET Rule
         /\ req[r].op = "complete" =>
              /\ req[r].of \in Project /\ req[r].policy \in SUBSET Rule
              /\ [req[r] EXCEPT !.at = "write"] \in RequestState
              /\ [req[r] EXCEPT !.at = "write"].op = "complete"
              /\ [req[r] EXCEPT !.at = "write"].of = req[r].of
              /\ [req[r] EXCEPT !.at = "write"].policy = req[r].policy
         /\ req[r].op = "bind" =>
              /\ req[r].of \in Project /\ req[r].agent \in Agent
              /\ req[r].enabled \in BOOLEAN
<1>1. req[r] \in RequestState
  BY DEF TypeOK
<1> QED BY <1>1 DEF RequestState, Idle

LEMMA IdleState == Idle \in RequestState /\ Idle.op = "idle"
BY DEF RequestState, Idle

LEMMA BeginType ==
  ASSUME TypeOK, NEW r \in Request, NEW q \in RequestState, Begin(r, q)
  PROVE  /\ req' \in [Request -> RequestState] /\ req'[r] = q
         /\ \A s \in Request : s # r => req'[s] = req[s]
BY DEF TypeOK, Begin

LEMMA EndType ==
  ASSUME TypeOK, NEW r \in Request, End(r)
  PROVE  /\ req' \in [Request -> RequestState] /\ req'[r] = Idle
         /\ \A s \in Request : s # r => req'[s] = req[s]
BY IdleState DEF TypeOK, End

LEMMA ProjectTypes ==
  ASSUME TypeOK, NEW p \in Project
  PROVE  /\ project[p] \in [status : ProjectStatus, policy : SUBSET Rule]
         /\ \A s \in ProjectStatus :
              [project[p] EXCEPT !.status = s]
                \in [status : ProjectStatus, policy : SUBSET Rule]
         /\ \A S \in SUBSET Rule :
              [project[p] EXCEPT !.policy = S]
                \in [status : ProjectStatus, policy : SUBSET Rule]
<1>1. project[p] \in [status : ProjectStatus, policy : SUBSET Rule]
  BY DEF TypeOK
<1> QED BY <1>1

---------------------------------------------------------------------------
(* Types                                                                   *)

LEMMA InitType == Init => TypeOK
BY IdleState DEF Init, TypeOK, ProjectStatus, Class

LEMMA StepType == TypeOK /\ [Next]_vars => TypeOK'
<1> SUFFICES ASSUME TypeOK, [Next]_vars PROVE TypeOK'
  OBVIOUS
<1>1. ASSUME NEW r \in Request, NEW p \in Project, CreateBegin(r, p)
      PROVE TypeOK'
  <2>1. [op |-> "create", of |-> p, at |-> "seed"] \in RequestState
    BY DEF RequestState
  <2> QED BY <1>1, <2>1, BeginType DEF CreateBegin, rowVars, history, TypeOK
<1>2. ASSUME NEW r \in Request, CreateSeed(r) PROVE TypeOK'
  <2>1. [req[r] EXCEPT !.at = "commit"] \in RequestState
    BY <1>2, RequestFields DEF CreateSeed
  <2>2. req' = [req EXCEPT ![r] = [req[r] EXCEPT !.at = "commit"]]
    BY <1>2 DEF CreateSeed
  <2> QED BY <1>2, <2>1, <2>2 DEF CreateSeed, rowVars, history, TypeOK
<1>3. ASSUME NEW r \in Request, CreateCommit(r) PROVE TypeOK'
  <2>1. req[r].of \in Project
    BY <1>3, RequestFields DEF CreateCommit
  <2>2. project' \in [Project -> [status : ProjectStatus, policy : SUBSET Rule]]
    BY <1>3, <2>1, ProjectTypes DEF CreateCommit, TypeOK, ProjectStatus
  <2>3. task' \in [AllTasks -> Class]
    BY <1>3, <2>1 DEF CreateCommit, TypeOK, Class
  <2>4. bound' \subseteq Agent \X Project
    BY <1>3, <2>1 DEF CreateCommit, BindDefaultAgents, TypeOK
  <2> QED BY <1>3, <2>2, <2>3, <2>4, EndType DEF CreateCommit, history, TypeOK
<1>4. ASSUME NEW r \in Request, NEW p \in Project, NEW rule \in Patchable,
             NEW b \in BOOLEAN, UpdateRead(r, p, rule, b)
      PROVE TypeOK'
  <2> DEFINE S == IF b THEN project[p].policy \cup {rule}
                  ELSE project[p].policy \ {rule}
  <2>1. S \in SUBSET Rule
    BY ProjectTypes
  <2>2. [op |-> "update", of |-> p, policy |-> S] \in RequestState
    <3> HIDE DEF S
    <3> QED BY <2>1 DEF RequestState
  <2>3. Begin(r, [op |-> "update", of |-> p, policy |-> S])
    BY <1>4 DEF UpdateRead
  <2> HIDE DEF S
  <2> QED BY <1>4, <2>2, <2>3, BeginType
          DEF UpdateRead, rowVars, history, TypeOK
<1>5. ASSUME NEW r \in Request, UpdateWrite(r) PROVE TypeOK'
  <2>1. req[r].of \in Project /\ req[r].policy \in SUBSET Rule
    BY <1>5, RequestFields DEF UpdateWrite
  <2>2. project' \in [Project -> [status : ProjectStatus, policy : SUBSET Rule]]
    BY <1>5, <2>1, ProjectTypes DEF UpdateWrite, TypeOK
  <2> QED BY <1>5, <2>2, EndType DEF UpdateWrite, history, TypeOK
<1>6. ASSUME NEW r \in Request, NEW p \in Project, CompleteRead(r, p)
      PROVE TypeOK'
  <2>1. [op |-> "complete", of |-> p, policy |-> project[p].policy,
         at |-> "count"] \in RequestState
    BY ProjectTypes DEF RequestState
  <2> QED BY <1>6, <2>1, BeginType DEF CompleteRead, rowVars, TypeOK
<1>7. ASSUME NEW r \in Request, CompleteCount(r) PROVE TypeOK'
  <2>1. CASE req' = [req EXCEPT ![r].at = "write"]
    <3>1. [req[r] EXCEPT !.at = "write"] \in RequestState
      BY <1>7, RequestFields DEF CompleteCount
    <3>2. req' = [req EXCEPT ![r] = [req[r] EXCEPT !.at = "write"]]
      BY <2>1
    <3> QED BY <1>7, <3>1, <3>2 DEF CompleteCount, rowVars, history, TypeOK
  <2>2. CASE End(r)
    BY <1>7, <2>2, EndType DEF CompleteCount, rowVars, history, TypeOK
  <2> QED BY <1>7, <2>1, <2>2 DEF CompleteCount
<1>8. ASSUME NEW r \in Request, CompleteWrite(r) PROVE TypeOK'
  <2>1. req[r].of \in Project
    BY <1>8, RequestFields DEF CompleteWrite
  <2>2. project' \in [Project -> [status : ProjectStatus, policy : SUBSET Rule]]
    BY <1>8, <2>1, ProjectTypes DEF CompleteWrite, TypeOK, ProjectStatus
  <2> QED BY <1>8, <2>2, EndType DEF CompleteWrite, history, TypeOK
<1>9. ASSUME NEW p \in Project, Archive(p) PROVE TypeOK'
  <2>1. project' \in [Project -> [status : ProjectStatus, policy : SUBSET Rule]]
    BY <1>9, ProjectTypes DEF Archive, TypeOK, ProjectStatus
  <2>2. early' \in [Project -> SUBSET Request]
    BY <1>9 DEF Archive, TypeOK
  <2> QED BY <1>9, <2>1, <2>2 DEF Archive, TypeOK
<1>10. ASSUME NEW r \in Request, NEW p \in Project, NEW a \in Agent,
              NEW b \in BOOLEAN, BindRead(r, p, a, b)
       PROVE TypeOK'
  <2>1. [op |-> "bind", of |-> p, agent |-> a, enabled |-> b] \in RequestState
    BY DEF RequestState
  <2> QED BY <1>10, <2>1, BeginType DEF BindRead, rowVars, history, TypeOK
<1>11. ASSUME NEW r \in Request, BindWrite(r) PROVE TypeOK'
  <2>1. <<req[r].agent, req[r].of>> \in Agent \X Project
    BY <1>11, RequestFields DEF BindWrite
  <2>2. bound' \subseteq Agent \X Project
    BY <1>11, <2>1 DEF BindWrite, TypeOK
  <2> QED BY <1>11, <2>2, EndType DEF BindWrite, history, TypeOK
<1>12. ASSUME NEW r \in Request, RequestFails(r) PROVE TypeOK'
  <2>1. faults' \in 0..MaxFaults
    BY <1>12 DEF RequestFails, TypeOK
  <2> QED BY <1>12, <2>1, EndType DEF RequestFails, rowVars, history, TypeOK
<1>13. ASSUME NEW p \in Project, NEW t \in AllTasks, TaskMoves(p, t)
       PROVE TypeOK'
  BY <1>13 DEF TaskMoves, TypeOK
<1>14. ASSUME UNCHANGED vars PROVE TypeOK'
  BY <1>14 DEF vars, TypeOK
<1> QED
  BY <1>1, <1>2, <1>3, <1>4, <1>5, <1>6, <1>7, <1>8, <1>9, <1>10, <1>11,
     <1>12, <1>13, <1>14 DEF Next, RequestStep

(* Rows, bindings and requests keep their types.                           *)
THEOREM TypeCorrect == Spec => []TypeOK
BY InitType, StepType, PTL DEF Spec

---------------------------------------------------------------------------
(* Rows and history                                                        *)

LEMMA StepRows == TypeOK /\ RowsFirst /\ [Next]_vars => RowsFirst'
<1> SUFFICES ASSUME TypeOK, RowsFirst, [Next]_vars PROVE RowsFirst'
  OBVIOUS
<1>1. ASSUME NEW r \in Request, End(r),
             \A p \in Project : Exists(p)' = Exists(p)
      PROVE RowsFirst'
  <2>1. req'[r].op = "idle" /\ \A s \in Request : s # r => req'[s] = req[s]
    BY <1>1, EndType, IdleState
  <2>2. \A s \in Request : req[s].op \in {"create", "update", "complete", "bind"}
                              => req[s].of \in Project
    BY RequestFields
  <2> QED BY <1>1, <2>1, <2>2 DEF RowsFirst
<1>2. ASSUME NEW r \in Request, NEW q \in RequestState, Begin(r, q),
             project' = project, q.op \in {"update", "complete", "bind"},
             q.of \in Project, Exists(q.of)
      PROVE RowsFirst'
  BY <1>2, BeginType DEF RowsFirst, Exists
<1>3. ASSUME NEW r \in Request, project' = project,
             \A s \in Request : /\ req'[s].op = req[s].op
                                /\ req[s].op # "idle" => req'[s].of = req[s].of
      PROVE RowsFirst'
  BY <1>3 DEF RowsFirst, Exists
<1>4. ASSUME NEW r \in Request, NEW p \in Project, CreateBegin(r, p)
      PROVE RowsFirst'
  <2>1. [op |-> "create", of |-> p, at |-> "seed"] \in RequestState
    BY DEF RequestState
  <2>2. /\ req'[r].op = "create" /\ req'[r].of = p
        /\ \A s \in Request : s # r => req'[s] = req[s]
        /\ ~Exists(p) /\ project' = project
        /\ \A s \in Request : ~(req[s].op = "create" /\ req[s].of = p)
    BY <1>4, <2>1, BeginType DEF CreateBegin, rowVars
  <2> QED BY <2>2 DEF RowsFirst, Exists
<1>5. ASSUME NEW r \in Request, CreateSeed(r) PROVE RowsFirst'
  <2>1. req' = [req EXCEPT ![r] = [req[r] EXCEPT !.at = "commit"]]
    BY <1>5 DEF CreateSeed
  <2>2. \A s \in Request : /\ req'[s].op = req[s].op
                           /\ req[s].op # "idle" => req'[s].of = req[s].of
    BY <1>5, <2>1, RequestFields DEF CreateSeed, TypeOK
  <2> QED BY <1>3, <1>5, <2>2 DEF CreateSeed, rowVars
<1>6. ASSUME NEW r \in Request, CreateCommit(r) PROVE RowsFirst'
  <2>1. /\ req[r].op = "create" /\ req[r].of \in Project
        /\ req'[r] = Idle /\ \A s \in Request : s # r => req'[s] = req[s]
    BY <1>6, RequestFields, EndType DEF CreateCommit
  <2>2. /\ project'[req[r].of].status # "absent"
        /\ \A p \in Project : p # req[r].of => Exists(p)' = Exists(p)
    <3> DEFINE p == req[r].of
    <3>1. project' = [project EXCEPT ![p] = [project[p] EXCEPT !.status = "active"]]
      BY <1>6 DEF CreateCommit
    <3>2. /\ [project[p] EXCEPT !.status = "active"].status = "active"
          /\ p \in Project
      BY <2>1, ProjectTypes
    <3> HIDE DEF p
    <3>3. project'[p].status = "active"
          /\ \A q \in Project : q # p => project'[q] = project[q]
      BY <3>1, <3>2 DEF TypeOK
    <3> QED BY <3>3 DEF Exists, p
  <2>3. \A s \in Request : s # r /\ req[s].op = "create" => req[s].of # req[r].of
    BY <2>1 DEF RowsFirst
  <2>4. \A s \in Request : req[s].op \in {"create", "update", "complete", "bind"}
                              => req[s].of \in Project
    BY RequestFields
  <2>5. \A s \in Request : req[s].op = "create" /\ s # r =>
          project'[req[s].of].status = "absent"
    BY <2>2, <2>3, <2>4 DEF RowsFirst, Exists
  <2>6. \A s \in Request : req[s].op \in {"update", "complete", "bind"} =>
          project'[req[s].of].status # "absent"
    BY <2>2, <2>4 DEF RowsFirst, Exists
  <2> QED BY <2>1, <2>3, <2>5, <2>6, IdleState DEF RowsFirst, Exists
<1>7. ASSUME NEW r \in Request, NEW p \in Project, NEW rule \in Patchable,
             NEW b \in BOOLEAN, UpdateRead(r, p, rule, b)
      PROVE RowsFirst'
  <2> DEFINE S == IF b THEN project[p].policy \cup {rule}
                  ELSE project[p].policy \ {rule}
             q == [op |-> "update", of |-> p, policy |-> S]
  <2>1. S \in SUBSET Rule
    BY ProjectTypes
  <2>2. Begin(r, q) /\ Exists(p) /\ project' = project
    BY <1>7 DEF UpdateRead, rowVars
  <2> HIDE DEF S
  <2>3. q \in RequestState /\ q.op = "update" /\ q.of = p
    BY <2>1 DEF RequestState
  <2> HIDE DEF q
  <2> QED BY <1>2, <2>2, <2>3
<1>8. ASSUME NEW r \in Request, UpdateWrite(r) \/ CompleteWrite(r)
      PROVE RowsFirst'
  <2>1. req[r].of \in Project /\ Exists(req[r].of)
    BY <1>8, RequestFields DEF UpdateWrite, CompleteWrite, RowsFirst
  <2>2. \A p \in Project : Exists(p)' = Exists(p)
    BY <1>8, <2>1, ProjectTypes
       DEF UpdateWrite, CompleteWrite, Exists, TypeOK
  <2> QED BY <1>1, <1>8, <2>2 DEF UpdateWrite, CompleteWrite
<1>9. ASSUME NEW r \in Request, NEW p \in Project, CompleteRead(r, p)
      PROVE RowsFirst'
  <2> DEFINE q == [op |-> "complete", of |-> p, policy |-> project[p].policy,
                   at |-> "count"]
  <2>1. q \in RequestState /\ q.op = "complete" /\ q.of = p
    BY ProjectTypes DEF RequestState
  <2>2. Begin(r, q) /\ Exists(p) /\ project' = project
    BY <1>9 DEF CompleteRead, Completable, Exists, rowVars
  <2> HIDE DEF q
  <2> QED BY <1>2, <2>1, <2>2
<1>10. ASSUME NEW r \in Request, CompleteCount(r) PROVE RowsFirst'
  <2>1. CASE req' = [req EXCEPT ![r].at = "write"]
    <3>1. req' = [req EXCEPT ![r] = [req[r] EXCEPT !.at = "write"]]
      BY <2>1
    <3>2. \A s \in Request : /\ req'[s].op = req[s].op
                             /\ req[s].op # "idle" => req'[s].of = req[s].of
      BY <1>10, <3>1, RequestFields DEF CompleteCount, TypeOK
    <3> QED BY <1>3, <1>10, <3>2 DEF CompleteCount, rowVars
  <2>2. CASE End(r)
    BY <1>1, <1>10, <2>2 DEF CompleteCount, rowVars, Exists
  <2> QED BY <1>10, <2>1, <2>2 DEF CompleteCount
<1>11. ASSUME NEW p \in Project, Archive(p) PROVE RowsFirst'
  <2>1. \A q \in Project : Exists(q)' = Exists(q)
    BY <1>11, ProjectTypes DEF Archive, Exists, TypeOK
  <2> QED BY <1>11, <2>1, RequestFields DEF Archive, RowsFirst
<1>12. ASSUME NEW r \in Request, NEW p \in Project, NEW a \in Agent,
              NEW b \in BOOLEAN, BindRead(r, p, a, b)
       PROVE RowsFirst'
  <2> DEFINE q == [op |-> "bind", of |-> p, agent |-> a, enabled |-> b]
  <2>1. q \in RequestState /\ q.op = "bind" /\ q.of = p
    BY DEF RequestState
  <2>2. Begin(r, q) /\ Exists(p) /\ project' = project
    BY <1>12 DEF BindRead, rowVars
  <2> HIDE DEF q
  <2> QED BY <1>2, <2>1, <2>2
<1>13. ASSUME NEW r \in Request, BindWrite(r) \/ RequestFails(r)
       PROVE RowsFirst'
  BY <1>1, <1>13 DEF BindWrite, RequestFails, rowVars, Exists
<1>14. ASSUME UNCHANGED <<project, req>> PROVE RowsFirst'
  BY <1>14 DEF RowsFirst, Exists
<1> QED
  BY <1>4, <1>5, <1>6, <1>7, <1>8, <1>9, <1>10, <1>11, <1>12, <1>13, <1>14
     DEF Next, RequestStep, TaskMoves, vars

Writes == {"update", "complete", "bind"}

LEMMA StepEarly == TypeOK /\ OnlyEarly /\ [Next]_vars => OnlyEarly'
<1> SUFFICES ASSUME TypeOK, OnlyEarly, [Next]_vars PROVE OnlyEarly'
  OBVIOUS
<1>1. ASSUME NEW r \in Request, early' = early,
             \A s \in Request : s # r => req'[s] = req[s],
             \/ req'[r].op \notin Writes
             \/ /\ req'[r].of \in Project
                /\ project'[req'[r].of].status # "archived"
             \/ req'[r].op = req[r].op /\ req'[r].of = req[r].of,
             \A p \in Project : project'[p].status = "archived"
                                  => project[p].status = "archived"
      PROVE OnlyEarly'
  <2>1. \A s \in Request : req[s].op \in Writes => req[s].of \in Project
    BY RequestFields DEF Writes
  <2>2. ASSUME NEW s \in Request, req'[s].op \in Writes,
               project'[req'[s].of].status = "archived"
        PROVE  s \in early'[req'[s].of]
    <3>1. req'[s].op = req[s].op /\ req'[s].of = req[s].of
      BY <1>1, <2>2
    <3> QED BY <1>1, <2>1, <2>2, <3>1 DEF OnlyEarly, Writes
  <2> QED BY <2>2 DEF OnlyEarly, Writes
<1>2. ASSUME NEW r \in Request, End(r), early' = early,
             \A p \in Project : project'[p].status = "archived"
                                  => project[p].status = "archived"
      PROVE OnlyEarly'
  <2>1. req'[r].op \notin Writes /\ \A s \in Request : s # r => req'[s] = req[s]
    BY <1>2, EndType, IdleState DEF Writes
  <2> QED BY <1>1, <1>2, <2>1
<1>3. ASSUME NEW r \in Request, NEW q \in RequestState, Begin(r, q),
             early' = early, project' = project,
             \/ q.op \notin Writes
             \/ q.of \in Project /\ project[q.of].status # "archived"
      PROVE OnlyEarly'
  <2>1. req'[r] = q /\ \A s \in Request : s # r => req'[s] = req[s]
    BY <1>3, BeginType
  <2> QED BY <1>1, <1>3, <2>1
<1>4. ASSUME NEW r \in Request, NEW p \in Project, CreateBegin(r, p)
      PROVE OnlyEarly'
  <2>1. [op |-> "create", of |-> p, at |-> "seed"] \in RequestState
    BY DEF RequestState
  <2> QED BY <1>3, <1>4, <2>1 DEF CreateBegin, rowVars, history, Writes
<1>5. ASSUME NEW r \in Request, CreateSeed(r) PROVE OnlyEarly'
  <2>1. req' = [req EXCEPT ![r] = [req[r] EXCEPT !.at = "commit"]]
    BY <1>5 DEF CreateSeed
  <2>2. /\ req'[r].op \notin Writes
        /\ \A s \in Request : s # r => req'[s] = req[s]
    BY <1>5, <2>1, RequestFields DEF CreateSeed, TypeOK, Writes
  <2> QED BY <1>1, <1>5, <2>2 DEF CreateSeed, rowVars, history
<1>6. ASSUME NEW r \in Request, CreateCommit(r) PROVE OnlyEarly'
  <2>1. req[r].of \in Project
    BY <1>6, RequestFields DEF CreateCommit
  <2>2. \A p \in Project : project'[p].status = "archived"
                             => project[p].status = "archived"
    BY <1>6, <2>1, ProjectTypes DEF CreateCommit, TypeOK
  <2> QED BY <1>2, <1>6, <2>2 DEF CreateCommit, history
<1>7. ASSUME NEW r \in Request, NEW p \in Project, NEW rule \in Patchable,
             NEW b \in BOOLEAN, UpdateRead(r, p, rule, b)
      PROVE OnlyEarly'
  <2> DEFINE S == IF b THEN project[p].policy \cup {rule}
                  ELSE project[p].policy \ {rule}
             q == [op |-> "update", of |-> p, policy |-> S]
  <2>1. S \in SUBSET Rule
    BY ProjectTypes
  <2>2. /\ Begin(r, q) /\ project[p].status # "archived"
        /\ project' = project /\ early' = early
    BY <1>7 DEF UpdateRead, rowVars, history
  <2> HIDE DEF S
  <2>3. q \in RequestState /\ q.of = p
    BY <2>1 DEF RequestState
  <2> HIDE DEF q
  <2> QED BY <1>3, <2>2, <2>3
<1>8. ASSUME NEW r \in Request, UpdateWrite(r) PROVE OnlyEarly'
  <2>1. req[r].of \in Project /\ req[r].policy \in SUBSET Rule
    BY <1>8, RequestFields DEF UpdateWrite
  <2>2. \A p \in Project : project'[p].status = project[p].status
    BY <1>8, <2>1, ProjectTypes DEF UpdateWrite, TypeOK
  <2> QED BY <1>2, <1>8, <2>2 DEF UpdateWrite, history
<1>9. ASSUME NEW r \in Request, CompleteWrite(r) PROVE OnlyEarly'
  <2>1. req[r].of \in Project
    BY <1>9, RequestFields DEF CompleteWrite
  <2>2. \A p \in Project : project'[p].status = "archived"
                             => project[p].status = "archived"
    BY <1>9, <2>1, ProjectTypes DEF CompleteWrite, TypeOK
  <2> QED BY <1>2, <1>9, <2>2 DEF CompleteWrite, history
<1>10. ASSUME NEW r \in Request, NEW p \in Project, CompleteRead(r, p)
       PROVE OnlyEarly'
  <2> DEFINE q == [op |-> "complete", of |-> p, policy |-> project[p].policy,
                   at |-> "count"]
  <2>1. q \in RequestState /\ q.of = p
    BY ProjectTypes DEF RequestState
  <2>2. /\ Begin(r, q) /\ project[p].status # "archived"
        /\ project' = project /\ early' = early
    BY <1>10 DEF CompleteRead, Completable, rowVars
  <2> HIDE DEF q
  <2> QED BY <1>3, <2>1, <2>2
<1>11. ASSUME NEW r \in Request, CompleteCount(r) PROVE OnlyEarly'
  <2>1. CASE req' = [req EXCEPT ![r].at = "write"]
    <3>1. req' = [req EXCEPT ![r] = [req[r] EXCEPT !.at = "write"]]
      BY <2>1
    <3>2. /\ req'[r].op = req[r].op /\ req'[r].of = req[r].of
          /\ \A s \in Request : s # r => req'[s] = req[s]
      BY <1>11, <3>1, RequestFields DEF CompleteCount, TypeOK
    <3> QED BY <1>1, <1>11, <3>2 DEF CompleteCount, rowVars, history
  <2>2. CASE End(r)
    BY <1>2, <1>11, <2>2 DEF CompleteCount, rowVars, history
  <2> QED BY <1>11, <2>1, <2>2 DEF CompleteCount
<1>12. ASSUME NEW p \in Project, Archive(p) PROVE OnlyEarly'
  <2>1. \A q \in Project : q # p => project'[q] = project[q]
    BY <1>12 DEF Archive, TypeOK
  <2>2. \A q \in Project : q # p => early'[q] = early[q]
    BY <1>12 DEF Archive, TypeOK
  <2>3. \/ early' = early /\ project[p].status = "archived"
        \/ early'[p] = {r \in Request : req[r] # Idle}
    BY <1>12 DEF Archive, TypeOK
  <2>4. \A r \in Request : req[r].op \in Writes =>
          req[r] # Idle /\ req[r].of \in Project
    BY IdleState, RequestFields DEF Writes
  <2>5. req' = req
    BY <1>12 DEF Archive
  <2> QED BY <2>1, <2>2, <2>3, <2>4, <2>5 DEF OnlyEarly, Writes
<1>13. ASSUME NEW r \in Request, NEW p \in Project, NEW a \in Agent,
              NEW b \in BOOLEAN, BindRead(r, p, a, b)
       PROVE OnlyEarly'
  <2> DEFINE q == [op |-> "bind", of |-> p, agent |-> a, enabled |-> b]
  <2>1. q \in RequestState /\ q.of = p
    BY DEF RequestState
  <2>2. /\ Begin(r, q) /\ project[p].status # "archived"
        /\ project' = project /\ early' = early
    BY <1>13 DEF BindRead, rowVars, history
  <2> HIDE DEF q
  <2> QED BY <1>3, <2>1, <2>2
<1>14. ASSUME NEW r \in Request, BindWrite(r) \/ RequestFails(r)
       PROVE OnlyEarly'
  BY <1>2, <1>14 DEF BindWrite, RequestFails, rowVars, history
<1>15. ASSUME UNCHANGED <<project, req, early>> PROVE OnlyEarly'
  BY <1>15 DEF OnlyEarly
<1> QED
  BY <1>4, <1>5, <1>6, <1>7, <1>8, <1>9, <1>10, <1>11, <1>12, <1>13, <1>14,
     <1>15 DEF Next, RequestStep, TaskMoves, vars

(* What the rules find depends on the tasks of the project alone.          *)
LEMMA BrokenLocal ==
  ASSUME NEW p \in Project, NEW m, NEW n, \A t \in Task[p] : m[t] = n[t]
  PROVE  Broken(p, m) = Broken(p, n)
BY DEF Broken

LEMMA StepPassed ==
  TypeOK /\ RowsFirst /\ PassNoticed /\ CompletedWasCompletable /\ [Next]_vars
    => PassNoticed' /\ CompletedWasCompletable'
<1> DEFINE Goal == PassNoticed' /\ CompletedWasCompletable'
<1> SUFFICES ASSUME TypeOK, RowsFirst, PassNoticed, CompletedWasCompletable,
                    [Next]_vars
             PROVE  Goal
  OBVIOUS
<1>1. ASSUME NEW r \in Request, task' = task, passed' = passed,
             \A s \in Request : s # r => req'[s] = req[s],
             \/ req'[r].op # "complete"
             \/ /\ req'[r].op = req[r].op /\ req'[r].of = req[r].of
                /\ req'[r].policy = req[r].policy
                /\ req'[r].at = "write" => r \in passed
      PROVE Goal
  BY <1>1 DEF PassNoticed, CompletedWasCompletable
<1>2. ASSUME NEW r \in Request, End(r), task' = task, passed' = passed
      PROVE Goal
  <2>1. /\ req'[r].op # "complete"
        /\ \A s \in Request : s # r => req'[s] = req[s]
    BY <1>2, EndType, IdleState
  <2> QED BY <1>1, <1>2, <2>1
<1>3. ASSUME NEW r \in Request, NEW q \in RequestState, Begin(r, q),
             q.op # "complete", task' = task, passed' = passed
      PROVE Goal
  <2>1. req'[r] = q /\ \A s \in Request : s # r => req'[s] = req[s]
    BY <1>3, BeginType
  <2> QED BY <1>1, <1>3, <2>1
<1>4. ASSUME NEW r \in Request, NEW p \in Project, CreateBegin(r, p)
      PROVE Goal
  <2>1. [op |-> "create", of |-> p, at |-> "seed"] \in RequestState
    BY DEF RequestState
  <2> QED BY <1>3, <1>4, <2>1 DEF CreateBegin, rowVars, history
<1>5. ASSUME NEW r \in Request, CreateSeed(r) PROVE Goal
  <2>1. req' = [req EXCEPT ![r] = [req[r] EXCEPT !.at = "commit"]]
    BY <1>5 DEF CreateSeed
  <2>2. req'[r].op # "complete" /\ \A s \in Request : s # r => req'[s] = req[s]
    BY <1>5, <2>1, RequestFields DEF CreateSeed, TypeOK
  <2> QED BY <1>1, <1>5, <2>2 DEF CreateSeed, rowVars, history
<1>6. ASSUME NEW r \in Request, CreateCommit(r) PROVE Goal
  <2> DEFINE p == req[r].of
  <2>1. req[r].op = "create" /\ p \in Project /\ ~Exists(p)
    BY <1>6, RequestFields DEF CreateCommit, RowsFirst
  <2>2. /\ req'[r].op # "complete"
        /\ \A s \in Request : s # r => req'[s] = req[s]
    BY <1>6, EndType, IdleState DEF CreateCommit
  <2>3. task' = [task EXCEPT ![Root[p]] = "open"] /\ passed' = passed
    BY <1>6 DEF CreateCommit, history
  <2>4. ASSUME NEW s \in Request, req[s].op = "complete"
        PROVE  Broken(req[s].of, task') = Broken(req[s].of, task)
    <3>1. req[s].of \in Project /\ Exists(req[s].of)
      BY <2>4, RequestFields DEF RowsFirst
    <3>2. req[s].of # p
      BY <2>1, <3>1
    <3> HIDE DEF p
    <3>3. \A t \in Task[req[s].of] : t # Root[p] /\ t \in AllTasks
      <4>1. \A a, b \in Project : a # b =>
               \A t \in Task[a] : t # Root[b] /\ t \in AllTasks
        <5> TAKE a, b \in Project
        <5> HAVE a # b
        <5> TAKE t \in Task[a]
        <5>1. Root[b] \in Task[b] /\ Task[a] \cap Task[b] = {}
          BY TaskAssumption
        <5>2. t \in AllTasks
          BY TaskAssumption
        <5> QED BY <5>1, <5>2
      <4> QED BY <2>1, <3>1, <3>2, <4>1
    <3>4. \A t \in Task[req[s].of] : task'[t] = task[t]
      BY <2>3, <3>3 DEF TypeOK
    <3> QED BY <3>1, <3>4, BrokenLocal
  <2> HIDE DEF p
  <2>5. PassNoticed'
    BY <2>2, <2>3, <2>4 DEF PassNoticed
  <2>6. CompletedWasCompletable'
    BY <2>2, <2>3 DEF CompletedWasCompletable
  <2> QED BY <2>5, <2>6
<1>7. ASSUME NEW r \in Request, NEW p \in Project, NEW rule \in Patchable,
             NEW b \in BOOLEAN, UpdateRead(r, p, rule, b)
      PROVE Goal
  <2> DEFINE S == IF b THEN project[p].policy \cup {rule}
                  ELSE project[p].policy \ {rule}
             q == [op |-> "update", of |-> p, policy |-> S]
  <2>1. S \in SUBSET Rule
    BY ProjectTypes
  <2>2. Begin(r, q) /\ task' = task /\ passed' = passed
    BY <1>7 DEF UpdateRead, rowVars, history
  <2> HIDE DEF S
  <2>3. q \in RequestState /\ q.op # "complete"
    BY <2>1 DEF RequestState
  <2> HIDE DEF q
  <2> QED BY <1>3, <2>2, <2>3
<1>8. ASSUME NEW r \in Request,
             UpdateWrite(r) \/ CompleteWrite(r) \/ BindWrite(r)
             \/ RequestFails(r)
      PROVE Goal
  BY <1>2, <1>8
     DEF UpdateWrite, CompleteWrite, BindWrite, RequestFails, rowVars, history
<1>9. ASSUME NEW r \in Request, NEW p \in Project, CompleteRead(r, p)
      PROVE Goal
  <2> DEFINE q == [op |-> "complete", of |-> p, policy |-> project[p].policy,
                   at |-> "count"]
  <2>1. /\ q \in RequestState /\ q.of = p /\ q.policy = project[p].policy
        /\ q.at = "count"
    BY ProjectTypes DEF RequestState
  <2>2. /\ Begin(r, q) /\ task' = task
        /\ passed' = IF project[p].policy \cap Broken(p, task) = {}
                     THEN passed \cup {r} ELSE passed \ {r}
    BY <1>9 DEF CompleteRead, rowVars
  <2> HIDE DEF q
  <2>3. req'[r] = q /\ \A s \in Request : s # r => req'[s] = req[s]
    BY <2>1, <2>2, BeginType
  <2>4. \A s \in Request : s # r => (s \in passed' <=> s \in passed)
    BY <2>2
  <2>5. project[p].policy \cap Broken(p, task) = {} => r \in passed'
    BY <2>2
  <2>6. PassNoticed'
    BY <2>1, <2>2, <2>3, <2>4, <2>5 DEF PassNoticed
  <2>7. CompletedWasCompletable'
    BY <2>1, <2>3, <2>4 DEF CompletedWasCompletable
  <2> QED BY <2>6, <2>7
<1>10. ASSUME NEW r \in Request, CompleteCount(r) PROVE Goal
  <2>1. CASE /\ EvaluatePolicy(req[r].of, req[r].policy)
             /\ req' = [req EXCEPT ![r].at = "write"]
    <3>1. req' = [req EXCEPT ![r] = [req[r] EXCEPT !.at = "write"]]
      BY <2>1
    <3>2. /\ req'[r].op = req[r].op /\ req'[r].of = req[r].of
          /\ req'[r].policy = req[r].policy
          /\ \A s \in Request : s # r => req'[s] = req[s]
      BY <1>10, <3>1, RequestFields DEF CompleteCount, TypeOK
    <3>3. r \in passed
      BY <1>10, <2>1 DEF CompleteCount, EvaluatePolicy, PassNoticed
    <3> QED BY <1>1, <1>10, <3>2, <3>3 DEF CompleteCount, rowVars, history
  <2>2. CASE End(r)
    BY <1>2, <1>10, <2>2 DEF CompleteCount, rowVars, history
  <2> QED BY <1>10, <2>1, <2>2 DEF CompleteCount
<1>11. ASSUME NEW p \in Project, Archive(p) PROVE Goal
  BY <1>11 DEF Archive, PassNoticed, CompletedWasCompletable
<1>12. ASSUME NEW r \in Request, NEW p \in Project, NEW a \in Agent,
              NEW b \in BOOLEAN, BindRead(r, p, a, b)
       PROVE Goal
  <2>1. [op |-> "bind", of |-> p, agent |-> a, enabled |-> b] \in RequestState
    BY DEF RequestState
  <2> QED BY <1>3, <1>12, <2>1 DEF BindRead, rowVars, history
<1>13. ASSUME NEW p \in Project, NEW t \in AllTasks, TaskMoves(p, t)
       PROVE Goal
  BY <1>13 DEF TaskMoves, PassNoticed, CompletedWasCompletable
<1>14. ASSUME UNCHANGED vars PROVE Goal
  BY <1>14 DEF vars, PassNoticed, CompletedWasCompletable
<1> HIDE DEF Goal
<1> QED
  BY <1>4, <1>5, <1>6, <1>7, <1>8, <1>9, <1>10, <1>11, <1>12, <1>13, <1>14
     DEF Next, RequestStep

---------------------------------------------------------------------------
LEMMA InitInv == Init => ProjectInv
<1> SUFFICES ASSUME Init PROVE ProjectInv
  OBVIOUS
<1>1. \A r \in Request : req[r].op = "idle"
  BY IdleState DEF Init
<1> QED BY <1>1, InitType
        DEF ProjectInv, RowsFirst, OnlyEarly, PassNoticed,
            CompletedWasCompletable

(* The invariant the next two theorems rest on.                            *)
THEOREM ProjectInvariant == Spec => []ProjectInv
<1>1. ProjectInv /\ [Next]_vars => ProjectInv'
  BY StepType, StepRows, StepEarly, StepPassed DEF ProjectInv
<1> QED BY <1>1, InitInv, PTL DEF Spec

(* A project is only completed if its tasks satisfied the policy that was  *)
(* read, at some time of the request.                                      *)
THEOREM CompletedProjectWasCompletable == Spec => []CompletedWasCompletable
<1>1. ProjectInv => CompletedWasCompletable
  BY DEF ProjectInv
<1> QED BY <1>1, ProjectInvariant, PTL

(* Only the end of a request that was in flight when a project was         *)
(* archived changes it or its bindings afterwards.                         *)
THEOREM ArchivedStaysArchived == Spec => ArchiveSticks
<1> DEFINE Sticks ==
      \A p \in Project :
        /\ project[p].status = "archived"
        /\ project'[p] # project[p] \/ BindingsOf(p)' # BindingsOf(p)
        => \E r \in early[p] : req[r] # Idle /\ req'[r] = Idle
<1>1. ProjectInv /\ [Next]_vars => Sticks
  <2> SUFFICES ASSUME ProjectInv, [Next]_vars, NEW p \in Project,
                      project[p].status = "archived",
                      project'[p] # project[p]
                        \/ BindingsOf(p)' # BindingsOf(p)
               PROVE  \E r \in early[p] : req[r] # Idle /\ req'[r] = Idle
    OBVIOUS
  <2>0. TypeOK /\ RowsFirst /\ OnlyEarly
    BY DEF ProjectInv
  <2>1. ASSUME NEW r \in Request, req[r].op \in Writes, req[r].of = p, End(r)
        PROVE  \E s \in early[p] : req[s] # Idle /\ req'[s] = Idle
    <3>1. r \in early[p]
      BY <2>0, <2>1 DEF OnlyEarly, Writes
    <3>2. req[r] # Idle /\ req'[r] = Idle
      BY <2>0, <2>1, IdleState, EndType DEF Writes
    <3> QED BY <3>1, <3>2
  <2>2. ASSUME UNCHANGED <<project, bound>> PROVE FALSE
    BY <2>2 DEF BindingsOf
  <2>3. ASSUME NEW r \in Request, CreateCommit(r) PROVE FALSE
    <3>1. req[r].of \in Project /\ ~Exists(req[r].of)
      BY <2>0, <2>3, RequestFields DEF CreateCommit, RowsFirst
    <3>2. req[r].of # p
      BY <3>1 DEF Exists
    <3>3. project'[p] = project[p]
      BY <2>0, <2>3, <3>1, <3>2 DEF CreateCommit, TypeOK
    <3>4. bound' = bound \cup {<<CHOOSE a \in Agent : TRUE, req[r].of>>}
      BY <2>3 DEF CreateCommit, BindDefaultAgents
    <3>5. BindingsOf(p)' = BindingsOf(p)
      BY <3>2, <3>4 DEF BindingsOf
    <3> QED BY <3>3, <3>5
  <2>4. ASSUME NEW r \in Request, UpdateWrite(r) \/ CompleteWrite(r)
        PROVE  \E s \in early[p] : req[s] # Idle /\ req'[s] = Idle
    <3>1. req[r].of \in Project /\ req[r].op \in Writes /\ End(r)
      BY <2>0, <2>4, RequestFields DEF UpdateWrite, CompleteWrite, Writes
    <3>2. BindingsOf(p)' = BindingsOf(p)
      BY <2>4 DEF UpdateWrite, CompleteWrite, BindingsOf
    <3>3. req[r].of = p
      BY <2>0, <2>4, <3>1, <3>2 DEF UpdateWrite, CompleteWrite, TypeOK
    <3> QED BY <2>1, <3>1, <3>3
  <2>5. ASSUME NEW r \in Request, BindWrite(r)
        PROVE  \E s \in early[p] : req[s] # Idle /\ req'[s] = Idle
    <3>1. req[r].of \in Project /\ req[r].op \in Writes /\ End(r)
      BY <2>0, <2>5, RequestFields DEF BindWrite, Writes
    <3>2. BindingsOf(p)' # BindingsOf(p)
      BY <2>5 DEF BindWrite
    <3>3. bound' = bound \cup {<<req[r].agent, req[r].of>>}
          \/ bound' = bound \ {<<req[r].agent, req[r].of>>}
      BY <2>5 DEF BindWrite
    <3>4. req[r].of = p
      BY <3>2, <3>3 DEF BindingsOf
    <3> QED BY <2>1, <3>1, <3>4
  <2>6. ASSUME NEW q \in Project, Archive(q) PROVE FALSE
    <3>1. project'[p] = project[p]
      <4>1. CASE q = p
        <5>1. project[p] \in [status : ProjectStatus, policy : SUBSET Rule]
          BY <2>0, ProjectTypes
        <5>2. [project[p] EXCEPT !.status = "archived"] = project[p]
          BY <5>1
        <5> QED BY <2>0, <2>6, <4>1, <5>2 DEF Archive, TypeOK
      <4>2. CASE q # p
        BY <2>0, <2>6, <4>2 DEF Archive, TypeOK
      <4> QED BY <4>1, <4>2
    <3> QED BY <2>6, <3>1 DEF Archive, BindingsOf
  <2> QED
    BY <2>2, <2>3, <2>4, <2>5, <2>6
       DEF Next, RequestStep, CreateBegin, CreateSeed, UpdateRead,
           CompleteRead, CompleteCount, BindRead, RequestFails, TaskMoves,
           rowVars, vars
<1>2. ProjectInv /\ [Next]_vars => [Sticks]_vars
  BY <1>1
<1> QED BY <1>2, ProjectInvariant, PTL DEF Spec, ArchiveSticks

===========================================================================
