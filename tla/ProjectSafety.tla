---------------------------- MODULE ProjectSafety ----------------------------
(* What an operator may rely on for a project.                              *)
EXTENDS ProjectLifecycle

(* What a request holds between its statements.                            *)
RequestState ==
  {Idle} \cup [op : {"create"}, of : Project, at : {"seed", "commit"}]
  \cup [op : {"update"}, of : Project, policy : SUBSET Rule]
  \cup [op : {"complete"}, of : Project, policy : SUBSET Rule,
        at : {"count", "write"}]
  \cup [op : {"bind"}, of : Project, agent : Agent, enabled : BOOLEAN]

TypeOK ==
  /\ project \in [Project -> [status : ProjectStatus, policy : SUBSET Rule]]
  /\ bound \subseteq Agent \X Project
  /\ task \in [AllTasks -> Class]
  /\ req \in [Request -> RequestState]
  /\ faults \in 0..MaxFaults
  /\ early \in [Project -> SUBSET Request] /\ passed \subseteq Request

BindingsOf(p) == {b \in bound : b[2] = p}

(* "Project is archived and read-only" (handlers/projects.go), as far as   *)
(* it goes: an archived project changes only by the end of a request that  *)
(* was in flight when it was archived, so at most once per such request.   *)
ArchiveSticks ==
  [][\A p \in Project :
       /\ project[p].status = "archived"
       /\ project'[p] # project[p] \/ BindingsOf(p)' # BindingsOf(p)
       => \E r \in early[p] : req[r] # Idle /\ req'[r] = Idle]_vars

(* Nobody completes a project on counts that were never true: its tasks    *)
(* satisfied the policy the request had read at some time of the request,  *)
(* whatever moved before or since.                                         *)
CompletedWasCompletable ==
  \A r \in Request :
    (req[r].op = "complete" /\ req[r].at = "write") => r \in passed

=============================================================================
