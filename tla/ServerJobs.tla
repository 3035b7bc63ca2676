------------------------------ MODULE ServerJobs ------------------------------
(***************************************************************************)
(* The jobs of the server: core/internal/worker/scheduler.go, their        *)
(* registration in cmd/server/main.go, and five of them: the snapshot of   *)
(* the progress and the notice of a project that can be completed          *)
(* (projects/service.go), the copies of results and handoffs in the memory *)
(* (tasks/service.go, context/service.go) and the digest of the room of a  *)
(* day (room/service.go).  The handlers of Submit, CreateHandoff and       *)
(* SendMessage write the last three as well.  The timeout job is in        *)
(* TaskService, the presence job in RoomPresence.                          *)
(*                                                                         *)
(* cron starts a job whether or not its last pass has ended.  All tables   *)
(* and the memory outlive the server; the jobs, the requests in flight and *)
(* the maps of notices and digests do not.  There is one project.          *)
(***************************************************************************)
EXTENDS OpenVikingClient, Sequences, SequencesExt

CONSTANTS
  Task, Handoff, Day,
  Job,         \* bound: passes that overlap
  Focus,       \* bound: a behaviour has the jobs and the requests, one of
               \* the servers and the faults of one member of Focus
  MaxResult,   \* bound: submissions of a task
  MaxMessage,  \* bound: messages of the room
  None

Kind == {"progress", "notice", "digest", "summary", "handoff"}
Handler == {"submit", "createHandoff", "message"}
Item == Task \cup Handoff \cup {Day}

ASSUME JobsAssumption ==
  /\ \A f \in Focus :
       /\ f.of \subseteq Kind \cup Handler /\ f.servers \subseteq Server
       /\ f.faults \in Nat
  /\ Task \cap Handoff = {} /\ Day \notin Task \cup Handoff
  /\ MaxResult \in Nat /\ MaxMessage \in Nat

VARIABLES
  server,      \* the kind of memory server that is configured
  focus,
  task,        \* tasks: status and the number of the result it holds
  handoff,     \* context_handoffs: status; "writing" before the row exists
  event,       \* tasks with an event task.summary_synced
  snapshot,    \* project_progress_snapshots
  room,        \* messages of the day that are worth a digest
  memory,      \* what the memory server holds of an item; 0 for nothing
  autoSync,    \* system_openviking_settings
  posting,     \* handlers of Submit that still have to write the summary
  sched,       \* the scheduler
  timer,       \* the delayed start of the maintenance
  job,         \* passes
  notice,      \* completionNoticeAt
  notices,     \* history: messages posted since the last notice aged
  mark,        \* lastSummaryByID of the day
  digesting,   \* goroutines of maybeWriteRoomSummary
  skipped,     \* history: items whose write was switched off
  spent,       \* history: a goroutine has marked the day and failed
  faults

tables == <<task, handoff, event, snapshot, room>>
mirror == <<memory, skipped>>
digest == <<mark, digesting, spent>>
process == <<posting, sched, timer, job, notice, notices, digest>>
fixed == <<server, focus>>
vars == <<fixed, tables, mirror, autoSync, process, faults>>

(* A pass: who started it, its jobs that are left, where it stands, the    *)
(* items that are left, and the value it has read.                         *)
Pass(by, jobs, at, left, val) ==
  [by |-> by, jobs |-> jobs, at |-> at, left |-> left, val |-> val]

Idle == Pass("nobody", <<>>, "idle", {}, None)

Init ==
  /\ focus \in Focus /\ server \in focus.servers
  /\ task = [t \in Task |-> [status |-> "open", result |-> 0]]
  /\ handoff = [h \in Handoff |-> "none"]
  /\ event = {} /\ snapshot = None /\ room = 0
  /\ memory = [i \in Item |-> 0] /\ skipped = {}
  /\ autoSync = TRUE
  /\ posting = {}
  /\ sched = "running" /\ timer = "armed"
  /\ job = [j \in Job |-> Idle]
  /\ notice = "never" /\ notices = 0
  /\ mark = "never" /\ digesting = {} /\ spent = FALSE
  /\ faults = 0

(* Failures, crashes, shutdowns, memory writes switched off.               *)
Fault == faults < focus.faults /\ faults' = faults + 1
Live == sched = "running"   \* baseCtx is not cancelled

---------------------------------------------------------------------------
(* One write to the memory.                                                *)

(* fails: what the caller sees.                                            *)
WriteMemory(i, content, fails) ==
  \E mood \in Mood :
    LET w == Write(server, mood, memory[i] # 0, autoSync) IN
    /\ IF Troubled(mood) THEN Fault ELSE UNCHANGED faults
    /\ fails = ~w.ok
    /\ memory' = IF w.stored THEN [memory EXCEPT ![i] = content] ELSE memory
    /\ skipped' = IF autoSync THEN skipped ELSE skipped \cup {i}

---------------------------------------------------------------------------
(* Requests                                                                *)

(* The summary is written after the commit, by the same handler.           *)
Submit(t) ==
  /\ "submit" \in focus.of
  /\ task[t].status = "open" /\ task[t].result < MaxResult
  /\ task' = [task EXCEPT ![t] =
                [status |-> "submitted", result |-> @.result + 1]]
  /\ posting' = posting \cup {<<t, task[t].result + 1>>}
  /\ UNCHANGED <<fixed, handoff, event, snapshot, room, mirror, autoSync,
                 sched, timer, job, notice, notices, digest, faults>>

(* A failure is logged and nothing else; so is a success.                  *)
PostSummary(x) ==
  /\ x \in posting /\ posting' = posting \ {x}
  /\ \E fails \in BOOLEAN : WriteMemory(x[1], x[2], fails)
  /\ UNCHANGED <<fixed, tables, autoSync, sched, timer, job, notice, notices,
                 digest>>

Review(t, status) ==
  /\ task[t].status = "submitted" /\ status \in {"open", "done"}
  /\ task' = [task EXCEPT ![t].status = status]
  /\ UNCHANGED <<fixed, handoff, event, snapshot, room, mirror, autoSync,
                 process, faults>>

(* CreateHandoff writes the memory before it inserts the row.              *)
WriteHandoff(h) ==
  /\ "createHandoff" \in focus.of /\ handoff[h] = "none"
  /\ \E fails \in BOOLEAN : WriteMemory(h, 1, fails)
  /\ handoff' = [handoff EXCEPT ![h] = "writing"]
  /\ UNCHANGED <<fixed, task, event, snapshot, room, autoSync, process>>

InsertHandoff(h) ==
  /\ handoff[h] = "writing"
  /\ handoff' = [handoff EXCEPT ![h] = "created"]
  /\ UNCHANGED <<fixed, task, event, snapshot, room, mirror, autoSync,
                 process, faults>>

Upsert(on) ==
  /\ on # autoSync /\ autoSync' = on
  /\ IF on THEN UNCHANGED faults ELSE Fault
  /\ UNCHANGED <<fixed, tables, mirror, process>>

---------------------------------------------------------------------------
(* SendMessage stores a message; then maybeWriteRoomSummary starts a       *)
(* goroutine that writes the digest of the day, unless there was one in    *)
(* the last ten minutes.                                                   *)

digestFrame == <<fixed, task, handoff, event, snapshot, autoSync, posting,
                 sched, timer, job, notice, notices>>

(* Bug variant of StoreMessage: the mark is set once the digest is written. *)
StoreMessageMarkLater ==
  /\ "message" \in focus.of /\ room < MaxMessage
  /\ room' = room + 1
  /\ digesting' = digesting \cup
       IF mark = "recent" THEN {} ELSE {<<room', "list">>}
  /\ UNCHANGED <<digestFrame, mark, mirror, spent, faults>>

(* The mark is read and set under the mutex, before anything is written.   *)
StoreMessage ==
  /\ "message" \in focus.of /\ room < MaxMessage
  /\ room' = room + 1 /\ mark' = "recent"
  /\ digesting' = digesting \cup
       IF mark = "recent" THEN {} ELSE {<<room', "list">>}
  /\ UNCHANGED <<digestFrame, mirror, spent, faults>>

ListForDigest(x) ==
  /\ x \in digesting /\ x[2] = "list"
  /\ \/ /\ digesting' = (digesting \ {x}) \cup {<<x[1], "write">>}
        /\ UNCHANGED <<spent, faults>>
     \/ Fault /\ digesting' = digesting \ {x} /\ spent' = TRUE
  /\ UNCHANGED <<digestFrame, room, mirror, mark>>

(* A failure is logged, and the mark stays.                                *)
WriteDigest(x) ==
  /\ x \in digesting /\ x[2] = "write" /\ digesting' = digesting \ {x}
  /\ \E fails \in BOOLEAN :
       WriteMemory(Day, 1, fails) /\ spent' = (spent \/ fails)
  /\ UNCHANGED <<digestFrame, room, mark>>

(* Ten minutes are longer than such a goroutine may take.                  *)
MarkAges ==
  /\ mark = "recent" /\ digesting = {} /\ mark' = "old"
  /\ UNCHANGED <<digestFrame, room, mirror, digesting, spent, faults>>

DigestStep == \E x \in digesting :
  ListForDigest(x) \/ WriteDigest(x)

---------------------------------------------------------------------------
(* The scheduler                                                           *)

schedFrame == <<fixed, tables, mirror, autoSync, posting, notice, notices,
                digest>>

(* The delayed job runs the jobs in focus one after the other.             *)
Maintenance == SelectSeq(<<"progress", "digest", "summary", "handoff">>,
                         LAMBDA k : k \in focus.of)

Spawn(j, by, jobs) ==
  /\ job[j] = Idle
  /\ job' = [job EXCEPT ![j] = Pass(by, jobs, "spawned", {}, None)]

CronFires(j, k) ==
  /\ Live /\ k \in focus.of \cap Kind /\ Spawn(j, "cron", <<k>>)
  /\ UNCHANGED <<schedFrame, sched, timer, faults>>

TimerFires(j) ==
  /\ timer = "armed" /\ Maintenance # <<>> /\ Spawn(j, "timer", Maintenance)
  /\ timer' = "fired"
  /\ UNCHANGED <<schedFrame, sched, faults>>

(* runJob: wg.Add, then the goroutine of the pass.                         *)
RunJob(j) ==
  /\ job[j].at = "spawned"
  /\ job' = [job EXCEPT ![j].at = "start"]
  /\ UNCHANGED <<schedFrame, sched, timer, faults>>

Counted == {j \in Job : job[j].at \notin {"idle", "spawned"}}

(* SIGTERM: the context is cancelled and cron stops.                       *)
Cancel ==
  /\ Live /\ sched' = "cancelled" /\ Fault
  /\ UNCHANGED <<schedFrame, timer, job>>

(* Bug variant of CronStops: nobody waits for the functions cron started.  *)
CronStopsAtOnce ==
  /\ sched = "cancelled" /\ sched' = "waiting"
  /\ timer' = IF timer = "armed" THEN "stopped" ELSE timer
  /\ UNCHANGED <<schedFrame, job, faults>>

CronStops ==
  /\ sched = "cancelled" /\ sched' = "waiting"
  /\ \A j \in Job : ~(job[j].at = "spawned" /\ job[j].by = "cron")
  /\ timer' = IF timer = "armed" THEN "stopped" ELSE timer
  /\ UNCHANGED <<schedFrame, job, faults>>

(* wg.Wait returns once no counted pass is left.                           *)
WaitReturns ==
  /\ sched = "waiting" /\ sched' = "stopped" /\ Counted = {}
  /\ UNCHANGED <<schedFrame, timer, job, faults>>

ShutdownTimesOut ==
  /\ sched \in {"cancelled", "waiting"} /\ sched' = "gaveUp"
  /\ UNCHANGED <<schedFrame, timer, job, faults>>

(* The process ends, after Shutdown or by a crash, and starts again.  A    *)
(* handoff without a row is gone: its id is never used again.              *)
Restart ==
  /\ IF sched \in {"stopped", "gaveUp"} THEN UNCHANGED faults ELSE Fault
  /\ posting' = {} /\ job' = [j \in Job |-> Idle]
  /\ handoff' = [h \in Handoff |->
                   IF handoff[h] = "writing" THEN "lost" ELSE handoff[h]]
  /\ sched' = "running" /\ timer' = "armed"
  /\ notice' = "never" /\ notices' = 0
  /\ mark' = "never" /\ digesting' = {} /\ spent' = FALSE
  /\ UNCHANGED <<fixed, task, event, snapshot, room, mirror, autoSync>>

---------------------------------------------------------------------------
(* A pass                                                                  *)

passFrame == <<fixed, task, room, autoSync, posting, sched, timer, digesting,
               spent>>

Runs(j, k, at) ==
  /\ job[j].at = at /\ job[j].jobs # <<>> /\ Head(job[j].jobs) = k

Goto(j, at, left, val) ==
  job' = [job EXCEPT ![j] = Pass(job[j].by, job[j].jobs, at, left, val)]

(* The maintenance ignores errors and goes on with its next job.           *)
EndPass(j) ==
  job' = [job EXCEPT ![j] =
            IF Len(job[j].jobs) <= 1 THEN Idle
            ELSE Pass(job[j].by, Tail(job[j].jobs), "start", {}, None)]

(* A statement fails: the context is cancelled, or the database refuses;   *)
(* with the context, every write to the memory fails, too.                 *)
PassFails(j) ==
  /\ \/ job[j].at \in {"start", "upsert", "post", "gather"}
     \/ Runs(j, "handoff", "mark")
     \/ job[j].at \in {"next", "digest"} /\ ~Live
  /\ IF Live THEN Fault ELSE UNCHANGED faults
  /\ EndPass(j)
  /\ UNCHANGED <<passFrame, mark, handoff, event, snapshot, mirror, notice,
                 notices>>

(* RefreshProgress                                                         *)
Progress == {t \in Task : task[t].status = "done"}

CountProgress(j) ==
  /\ Runs(j, "progress", "start") /\ Live
  /\ Goto(j, "upsert", {}, Cardinality(Progress))
  /\ UNCHANGED <<passFrame, mark, handoff, event, snapshot, mirror, notice,
                 notices, faults>>

(* Bug variant of UpsertProgress: ON CONFLICT DO NOTHING.                  *)
UpsertProgressOnce(j) ==
  /\ Runs(j, "progress", "upsert") /\ Live
  /\ snapshot' = IF snapshot = None THEN job[j].val ELSE snapshot
  /\ EndPass(j)
  /\ UNCHANGED <<passFrame, mark, handoff, event, mirror, notice, notices,
                 faults>>

(* The upsert takes the counts read before, perhaps over newer ones.       *)
UpsertProgress(j) ==
  /\ Runs(j, "progress", "upsert") /\ Live
  /\ snapshot' = job[j].val
  /\ EndPass(j)
  /\ UNCHANGED <<passFrame, mark, handoff, event, mirror, notice, notices,
                 faults>>

(* The completion policy: here every task is required.                     *)
FindCompletable(j) ==
  /\ Runs(j, "notice", "start") /\ Live
  /\ IF Progress = Task THEN Goto(j, "look", {}, None) ELSE EndPass(j)
  /\ UNCHANGED <<passFrame, mark, handoff, event, snapshot, mirror, notice,
                 notices, faults>>

(* The mark is read and set under the mutex, before the message.           *)
MarkNotice(j) ==
  /\ Runs(j, "notice", "look")
  /\ IF notice = "recent" THEN EndPass(j) ELSE Goto(j, "post", {}, None)
  /\ notice' = "recent"
  /\ UNCHANGED <<passFrame, mark, handoff, event, snapshot, mirror, notices,
                 faults>>

PostNotice(j) ==
  /\ Runs(j, "notice", "post") /\ Live
  /\ notices' = notices + 1
  /\ EndPass(j)
  /\ UNCHANGED <<passFrame, mark, handoff, event, snapshot, mirror, notice,
                 faults>>

(* Thirty minutes are longer than a pass takes to post.                    *)
NoticeAges ==
  /\ notice = "recent" /\ \A j \in Job : job[j].at # "post"
  /\ notice' = "old" /\ notices' = 0
  /\ UNCHANGED <<passFrame, mark, handoff, event, snapshot, mirror, job,
                 faults>>

(* GenerateDailySummaries and writeDailySummaryForProject.                 *)
memorySummaryExists == memory[Day] # 0

(* A list of the memory that fails counts as one without the digest.       *)
LookForDigest(j) ==
  /\ Runs(j, "digest", "start") /\ Live
  /\ \E found \in BOOLEAN :
       /\ \/ found = memorySummaryExists /\ UNCHANGED faults
          \/ ~found /\ Fault
       /\ Goto(j, "check", {}, found)
  /\ UNCHANGED <<passFrame, mark, handoff, event, snapshot, mirror, notice,
                 notices>>

(* A day that SendMessage has marked is left alone, digest or not.         *)
CheckMark(j) ==
  /\ Runs(j, "digest", "check")
  /\ mark' = IF job[j].val THEN "recent" ELSE mark
  /\ IF job[j].val \/ mark # "never" THEN EndPass(j)
     ELSE Goto(j, "gather", {}, None)
  /\ UNCHANGED <<passFrame, handoff, event, snapshot, mirror, notice, notices,
                 faults>>

Gather(j) ==
  /\ Runs(j, "digest", "gather") /\ Live
  /\ Goto(j, "digest", {}, 1)
  /\ UNCHANGED <<passFrame, mark, handoff, event, snapshot, mirror, notice,
                 notices, faults>>

WriteDaily(j) ==
  /\ Runs(j, "digest", "digest") /\ Live
  /\ \E fails \in BOOLEAN :
       /\ WriteMemory(Day, job[j].val, fails)
       /\ IF fails THEN EndPass(j) ELSE Goto(j, "digested", {}, None)
  /\ UNCHANGED <<passFrame, mark, handoff, event, snapshot, notice, notices>>

MarkDaily(j) ==
  /\ Runs(j, "digest", "digested")
  /\ mark' = "recent" /\ EndPass(j)
  /\ UNCHANGED <<passFrame, handoff, event, snapshot, mirror, notice, notices,
                 faults>>

(* SyncTaskSummaries and SyncPendingHandoffs: list, then write and mark    *)
(* one after the other, with the content that was listed.                  *)
Unsynced(k) ==
  IF k = "summary"
    THEN {<<t, task[t].result>> : t \in
            {u \in Task : /\ task[u].status \in {"submitted", "done"}
                          /\ task[u].result # 0 /\ u \notin event}}
    ELSE {<<h, 1>> : h \in {g \in Handoff : handoff[g] = "created"}}

ListUnsynced(j) ==
  /\ Live
  /\ \E k \in {"summary", "handoff"} :
       Runs(j, k, "start") /\ Goto(j, "next", Unsynced(k), None)
  /\ UNCHANGED <<passFrame, mark, handoff, event, snapshot, mirror, notice,
                 notices, faults>>

(* Bug variant of WriteListed: marked even if the write failed.            *)
WriteListedAndMark(j) ==
  /\ job[j].at = "next" /\ Live
  /\ \E x \in job[j].left, fails \in BOOLEAN :
       /\ WriteMemory(x[1], x[2], fails)
       /\ Goto(j, "mark", job[j].left \ {x}, x)
  /\ UNCHANGED <<passFrame, mark, handoff, event, snapshot, notice, notices>>

(* What fails is left to a later pass.                                     *)
WriteListed(j) ==
  /\ job[j].at = "next" /\ Live
  /\ \E x \in job[j].left, fails \in BOOLEAN :
       /\ WriteMemory(x[1], x[2], fails)
       /\ IF fails THEN Goto(j, "next", job[j].left \ {x}, None)
          ELSE Goto(j, "mark", job[j].left \ {x}, x)
  /\ UNCHANGED <<passFrame, mark, handoff, event, snapshot, notice, notices>>

(* The event is recorded as well as it goes.                               *)
MarkSummary(j) ==
  /\ Runs(j, "summary", "mark")
  /\ \/ /\ Live /\ event' = event \cup {job[j].val[1]} /\ UNCHANGED faults
     \/ /\ UNCHANGED event
        /\ IF Live THEN Fault ELSE UNCHANGED faults
  /\ Goto(j, "next", job[j].left, None)
  /\ UNCHANGED <<passFrame, mark, handoff, snapshot, mirror, notice, notices>>

MarkHandoff(j) ==
  /\ Runs(j, "handoff", "mark") /\ Live
  /\ handoff' = [handoff EXCEPT ![job[j].val[1]] = "synced"]
  /\ Goto(j, "next", job[j].left, None)
  /\ UNCHANGED <<passFrame, mark, event, snapshot, mirror, notice, notices,
                 faults>>

PassEnds(j) ==
  /\ job[j].at = "next" /\ job[j].left = {}
  /\ EndPass(j)
  /\ UNCHANGED <<passFrame, mark, handoff, event, snapshot, mirror, notice,
                 notices, faults>>

---------------------------------------------------------------------------
PassStep(j) ==
  \/ RunJob(j) \/ CountProgress(j) \/ UpsertProgress(j)
  \/ FindCompletable(j) \/ MarkNotice(j) \/ PostNotice(j)
  \/ LookForDigest(j) \/ CheckMark(j) \/ Gather(j) \/ WriteDaily(j)
  \/ MarkDaily(j)
  \/ ListUnsynced(j) \/ WriteListed(j) \/ MarkSummary(j) \/ MarkHandoff(j)
  \/ PassEnds(j)

Shutdown == CronStops \/ WaitReturns \/ ShutdownTimesOut

Next ==
  \/ \E t \in Task : Submit(t) \/ \E s \in {"open", "done"} : Review(t, s)
  \/ \E x \in posting : PostSummary(x)
  \/ \E h \in Handoff : WriteHandoff(h) \/ InsertHandoff(h)
  \/ StoreMessage \/ DigestStep \/ MarkAges
  \/ \E on \in BOOLEAN : Upsert(on)
  \/ \E j \in Job : \E k \in Kind : CronFires(j, k)
  \/ \E j \in Job : TimerFires(j) \/ PassStep(j) \/ PassFails(j)
  \/ Cancel \/ Shutdown \/ Restart \/ NoticeAges

Spec == Init /\ [][Next]_vars

(* cron starts a job whenever it is time, passes and goroutines take their *)
(* steps, and a server that was stopped is started again.                  *)
Fairness ==
  /\ \A k \in Kind : WF_vars(\E j \in Job : CronFires(j, k))
  /\ \A j \in Job : WF_vars(PassStep(j) \/ (~Live /\ PassFails(j)))
  /\ WF_vars(DigestStep) /\ WF_vars(Shutdown)
  /\ WF_vars(sched \in {"stopped", "gaveUp"} /\ Restart)

FairSpec == Spec /\ Fairness

=============================================================================
