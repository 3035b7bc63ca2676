-------------------------- MODULE ServerJobsProofs --------------------------
(***************************************************************************)
(* Theorems about the jobs of the server, for every number of tasks,       *)
(* handoffs, messages and passes that overlap.                             *)
(***************************************************************************)
EXTENDS ServerJobsSafety, FiniteSetTheorems, TLAPS

USE BusyAssumption, JobsAssumption

By == {"nobody", "cron", "timer"}
Label == {"idle", "spawned", "start", "upsert", "look", "post", "check",
          "gather", "digest", "digested", "next", "mark"}

(* What a pass copies: an item, and content that is not empty.             *)
Content == Item \X (Nat \ {0})

(* A pass nobody runs is Idle.                                             *)
PassType(p) ==
  /\ p = Pass(p.by, p.jobs, p.at, p.left, p.val)
  /\ p.by \in By /\ p.at \in Label /\ p.left \subseteq Content
  /\ p.at = "mark" => p.val \in Content
  /\ p.at = "digest" => p.val = 1
  /\ p.at = "idle" => p.by = "nobody"

JobType == DOMAIN job = Job /\ \A j \in Job : PassType(job[j])

---------------------------------------------------------------------------
(* Helpers: what a pass is after each of its ways to go on                 *)

LEMMA IdleType == PassType(Idle) /\ Idle.at = "idle" /\ Idle.by = "nobody"
BY DEF PassType, Pass, Idle, By, Label

LEMMA GotoStep ==
  ASSUME JobType, NEW j \in Job, NEW at, NEW left, NEW val,
         Goto(j, at, left, val)
  PROVE  /\ DOMAIN job' = Job
         /\ job'[j] = Pass(job[j].by, job[j].jobs, at, left, val)
         /\ \A i \in Job : i # j => job'[i] = job[i]
BY DEF JobType, PassType, Pass, Goto

LEMMA EndPassStep ==
  ASSUME JobType, NEW j \in Job, EndPass(j)
  PROVE  /\ DOMAIN job' = Job
         /\ PassType(job'[j])
         /\ job'[j].at \in {"idle", "start"}
         /\ job'[j].by \in {"nobody", job[j].by}
         /\ \A i \in Job : i # j => job'[i] = job[i]
<1> DEFINE next == Pass(job[j].by, Tail(job[j].jobs), "start", {}, None)
<1>1. job' = [job EXCEPT ![j] = IF Len(job[j].jobs) <= 1 THEN Idle ELSE next]
  BY DEF EndPass
<1>2. PassType(next) /\ next.at = "start" /\ next.by = job[j].by
  BY DEF PassType, Pass, JobType, Label
<1> HIDE DEF next
<1>3. job'[j] = Idle \/ job'[j] = next
  BY <1>1 DEF JobType
<1> QED BY <1>1, <1>2, <1>3, IdleType DEF JobType

LEMMA SpawnStep ==
  ASSUME JobType, NEW j \in Job, NEW by, NEW jobs, Spawn(j, by, jobs)
  PROVE  /\ DOMAIN job' = Job
         /\ job'[j] = Pass(by, jobs, "spawned", {}, None)
         /\ \A i \in Job : i # j => job'[i] = job[i]
BY DEF JobType, PassType, Pass, Spawn, Idle

LEMMA RunJobStep ==
  ASSUME JobType, NEW j \in Job, RunJob(j)
  PROVE  /\ DOMAIN job' = Job
         /\ job'[j] = Pass(job[j].by, job[j].jobs, "start", job[j].left,
                           job[j].val)
         /\ \A i \in Job : i # j => job'[i] = job[i]
BY DEF JobType, PassType, Pass, RunJob

---------------------------------------------------------------------------
(* The steps, by what they do to the passes                                *)

(* Rows, the memory and handlers, as far as the theorems look at them.     *)
MirrorType ==
  /\ task \in [Task -> [status : {"open", "submitted", "done"},
                        result : Nat]]
  /\ DOMAIN handoff = Handoff /\ DOMAIN memory = Item
  /\ posting \subseteq Content /\ event \subseteq Item
  /\ server \in Server

(* A request, or what happens around the passes.                           *)
RequestStep ==
  \/ \E t \in Task : Submit(t) \/ \E s \in {"open", "done"} : Review(t, s)
  \/ \E x \in posting : PostSummary(x)
  \/ \E h \in Handoff : WriteHandoff(h) \/ InsertHandoff(h)
  \/ StoreMessage \/ DigestStep \/ MarkAges
  \/ \E on \in BOOLEAN : Upsert(on)
  \/ NoticeAges \/ UNCHANGED vars

ServerStep == Cancel \/ Shutdown

(* A new pass, of either kind.                                             *)
Starts(j) == (\E k \in Kind : CronFires(j, k)) \/ TimerFires(j)

Moves(j) == PassStep(j) \/ PassFails(j)

LEMMA StepSplit ==
  [Next]_vars => \/ RequestStep \/ ServerStep \/ Restart
                 \/ \E j \in Job : Starts(j) \/ Moves(j)
BY DEF Next, RequestStep, ServerStep, Starts, Moves

LEMMA RequestFrame ==
  ASSUME RequestStep
  PROVE  UNCHANGED <<server, sched, timer, job>>
BY DEF RequestStep, Submit, Review, PostSummary, WriteHandoff, InsertHandoff,
       StoreMessage, DigestStep, ListForDigest, WriteDigest, MarkAges,
       Upsert, NoticeAges, vars, process, fixed, digestFrame, passFrame

LEMMA ServerFrame ==
  ASSUME ServerStep
  PROVE  UNCHANGED <<schedFrame, job>>
BY DEF ServerStep, Cancel, Shutdown, CronStops, WaitReturns,
       ShutdownTimesOut

LEMMA StartsStep ==
  ASSUME JobType, NEW j \in Job, Starts(j)
  PROVE  /\ DOMAIN job' = Job /\ PassType(job'[j])
         /\ job[j] = Idle
         /\ job'[j].at = "spawned"
         /\ \/ job'[j].by = "cron" /\ sched = "running" /\ timer' = timer
            \/ job'[j].by = "timer" /\ timer = "armed" /\ timer' = "fired"
         /\ \A i \in Job : i # j => job'[i] = job[i]
         /\ UNCHANGED <<schedFrame, sched>>
<1>1. ASSUME NEW k \in Kind, CronFires(j, k)
      PROVE  /\ job'[j] = Pass("cron", <<k>>, "spawned", {}, None)
             /\ DOMAIN job' = Job /\ sched = "running" /\ timer' = timer
             /\ job[j] = Idle
             /\ \A i \in Job : i # j => job'[i] = job[i]
             /\ UNCHANGED <<schedFrame, sched>>
  BY <1>1, SpawnStep DEF CronFires, Live, Spawn
<1>2. ASSUME TimerFires(j)
      PROVE  /\ job'[j] = Pass("timer", Maintenance, "spawned", {}, None)
             /\ DOMAIN job' = Job /\ timer = "armed" /\ timer' = "fired"
             /\ job[j] = Idle
             /\ \A i \in Job : i # j => job'[i] = job[i]
             /\ UNCHANGED <<schedFrame, sched>>
  BY <1>2, SpawnStep DEF TimerFires, Spawn
<1>3. \A jobs : \A by \in {"cron", "timer"} :
        LET p == Pass(by, jobs, "spawned", {}, None)
        IN  PassType(p) /\ p.at = "spawned" /\ p.by = by
  BY DEF PassType, Pass, By, Label
<1> QED BY <1>1, <1>2, <1>3 DEF Starts

(* What is listed to be copied has content.                                *)
LEMMA UnsyncedContent ==
  ASSUME MirrorType, NEW k \in {"summary", "handoff"}
  PROVE  Unsynced(k) \subseteq Content
BY DEF MirrorType, Unsynced, Content, Item

(* A pass keeps its type, and what it may become.                          *)
LEMMA MovesStep ==
  ASSUME JobType, MirrorType, NEW j \in Job, Moves(j)
  PROVE  /\ DOMAIN job' = Job /\ PassType(job'[j])
         /\ job'[j].by \in {"nobody", job[j].by}
         /\ job'[j].at # "spawned"
         /\ \A i \in Job : i # j => job'[i] = job[i]
         /\ UNCHANGED <<server, sched, timer>>
<1>1. UNCHANGED <<server, sched, timer>>
  BY DEF Moves, PassStep, PassFails, RunJob, CountProgress, UpsertProgress,
         FindCompletable, MarkNotice, PostNotice, LookForDigest, CheckMark,
         Gather, WriteDaily, MarkDaily, ListUnsynced, WriteListed,
         MarkSummary, MarkHandoff, PassEnds, passFrame, schedFrame, fixed
<1>2. ASSUME EndPass(j)
      PROVE  /\ DOMAIN job' = Job /\ PassType(job'[j])
             /\ job'[j].by \in {"nobody", job[j].by}
             /\ job'[j].at # "spawned"
             /\ \A i \in Job : i # j => job'[i] = job[i]
  <2>1. job'[j].at \in {"idle", "start"}
    BY <1>2, EndPassStep
  <2> QED BY <1>2, <2>1, EndPassStep
<1>3. ASSUME NEW at \in Label \ {"idle", "spawned"}, NEW left, NEW val,
             left \subseteq Content, at = "mark" => val \in Content,
             at = "digest" => val = 1, Goto(j, at, left, val)
      PROVE  /\ DOMAIN job' = Job /\ PassType(job'[j])
             /\ job'[j].by \in {"nobody", job[j].by}
             /\ job'[j].at # "spawned"
             /\ \A i \in Job : i # j => job'[i] = job[i]
  <2>1. /\ DOMAIN job' = Job
        /\ job'[j] = Pass(job[j].by, job[j].jobs, at, left, val)
        /\ \A i \in Job : i # j => job'[i] = job[i]
    BY <1>3, GotoStep
  <2>2. job[j].by \in By
    BY DEF JobType, PassType
  <2> QED BY <1>3, <2>1, <2>2 DEF PassType, Pass
<1>4. job[j].left \subseteq Content
  BY DEF JobType, PassType
<1>5. CASE RunJob(j)
  <2>1. /\ DOMAIN job' = Job
        /\ job'[j] = Pass(job[j].by, job[j].jobs, "start", job[j].left,
                          job[j].val)
        /\ \A i \in Job : i # j => job'[i] = job[i]
    BY <1>5, RunJobStep
  <2>2. job[j].by \in By
    BY DEF JobType, PassType
  <2> QED BY <1>1, <1>4, <2>1, <2>2 DEF PassType, Pass, Label
<1>6. CASE \/ UpsertProgress(j) \/ PostNotice(j) \/ MarkDaily(j)
           \/ PassEnds(j) \/ PassFails(j)
  BY <1>1, <1>2, <1>6
     DEF UpsertProgress, PostNotice, MarkDaily, PassEnds, PassFails
<1>7. CASE \/ CountProgress(j) \/ FindCompletable(j) \/ MarkNotice(j)
           \/ LookForDigest(j) \/ CheckMark(j) \/ Gather(j) \/ WriteDaily(j)
  <2>1. \/ EndPass(j)
        \/ \E at \in Label \ {"idle", "spawned", "mark"} : \E val :
             (at = "digest" => val = 1) /\ Goto(j, at, {}, val)
    BY <1>7
       DEF CountProgress, FindCompletable, MarkNotice, LookForDigest,
           CheckMark, Gather, WriteDaily, Label
  <2> QED BY <1>1, <1>2, <1>3, <2>1
<1>8. CASE ListUnsynced(j)
  <2>1. PICK k \in {"summary", "handoff"} :
          Goto(j, "next", Unsynced(k), None)
    BY <1>8 DEF ListUnsynced
  <2>2. "next" \in Label \ {"idle", "spawned"}
    BY DEF Label
  <2> QED BY <1>1, <1>3, <2>1, <2>2, UnsyncedContent
<1>9. CASE WriteListed(j)
  <2>1. PICK x \in job[j].left :
          \/ Goto(j, "next", job[j].left \ {x}, None)
          \/ Goto(j, "mark", job[j].left \ {x}, x)
    BY <1>9 DEF WriteListed
  <2>2. {"next", "mark"} \subseteq Label \ {"idle", "spawned"}
    BY DEF Label
  <2>3. x \in Content /\ job[j].left \ {x} \subseteq Content
    BY <1>4
  <2> QED BY <1>1, <1>3, <2>1, <2>2, <2>3
<1>10. CASE MarkSummary(j) \/ MarkHandoff(j)
  <2>1. Goto(j, "next", job[j].left, None)
    BY <1>10 DEF MarkSummary, MarkHandoff
  <2>2. "next" \in Label \ {"idle", "spawned"}
    BY DEF Label
  <2> QED BY <1>1, <1>3, <1>4, <2>1, <2>2
<1> QED BY <1>5, <1>6, <1>7, <1>8, <1>9, <1>10 DEF Moves, PassStep

---------------------------------------------------------------------------
(* Types                                                                   *)

LEMMA InitTypes == Init => JobType /\ MirrorType
<1> SUFFICES ASSUME Init PROVE JobType /\ MirrorType
  OBVIOUS
<1>1. JobType
  BY IdleType DEF Init, JobType
<1>2. server \in Server
  BY DEF Init
<1> QED BY <1>1, <1>2 DEF Init, MirrorType

LEMMA StepJobTypes ==
  ASSUME JobType, MirrorType, [Next]_vars
  PROVE  JobType'
<1>1. CASE RequestStep \/ ServerStep
  <2>1. job' = job
    BY <1>1, RequestFrame, ServerFrame
  <2> QED BY <2>1 DEF JobType
<1>2. CASE Restart
  <2>1. job' = [j \in Job |-> Idle]
    BY <1>2 DEF Restart
  <2> QED BY <2>1, IdleType DEF JobType
<1>3. ASSUME NEW j \in Job, Starts(j) \/ Moves(j) PROVE JobType'
  BY <1>3, StartsStep, MovesStep DEF JobType
<1> QED BY <1>1, <1>2, <1>3, StepSplit

LEMMA StepMirrorTypes ==
  ASSUME JobType, MirrorType, [Next]_vars
  PROVE  MirrorType'
<1>1. CASE \E t \in Task : Submit(t)
  <2>1. PICK t \in Task : Submit(t)
    BY <1>1
  <2>2. task[t].result \in Nat
    BY DEF MirrorType
  <2>3. task' \in [Task -> [status : {"open", "submitted", "done"},
                            result : Nat]]
    BY <2>1, <2>2 DEF Submit, MirrorType
  <2>4. posting' \subseteq Content
    BY <2>1, <2>2 DEF Submit, MirrorType, Content, Item
  <2> QED BY <2>1, <2>3, <2>4 DEF Submit, MirrorType, fixed, mirror
<1>2. CASE \E t \in Task, s \in {"open", "done"} : Review(t, s)
  BY <1>2 DEF Review, MirrorType, fixed, mirror, process
<1>3. CASE \E x \in posting : PostSummary(x)
  BY <1>3 DEF PostSummary, WriteMemory, MirrorType, fixed, tables
<1>4. CASE \E h \in Handoff : WriteHandoff(h) \/ InsertHandoff(h)
  BY <1>4
     DEF WriteHandoff, InsertHandoff, WriteMemory, MirrorType, fixed, mirror,
         process
<1>5. CASE \/ StoreMessage \/ DigestStep \/ MarkAges \/ NoticeAges
           \/ UNCHANGED vars \/ \E on \in BOOLEAN : Upsert(on)
  BY <1>5
     DEF StoreMessage, DigestStep, ListForDigest, WriteDigest, WriteMemory,
         MarkAges, NoticeAges, Upsert, vars, MirrorType, digestFrame,
         passFrame, fixed, tables, mirror, process
<1>6. CASE ServerStep
  BY <1>6, ServerFrame DEF MirrorType, schedFrame, fixed, tables, mirror
<1>7. CASE Restart
  BY <1>7 DEF Restart, MirrorType, fixed, mirror
<1>8. ASSUME NEW j \in Job, Starts(j) PROVE MirrorType'
  <2>1. UNCHANGED schedFrame
    BY <1>8, StartsStep
  <2> QED BY <2>1 DEF MirrorType, schedFrame, fixed, tables, mirror
<1>9. ASSUME NEW j \in Job, Moves(j) PROVE MirrorType'
  <2>1. UNCHANGED <<server, task, posting>>
    BY <1>9
       DEF Moves, PassStep, PassFails, RunJob, CountProgress,
           UpsertProgress, FindCompletable, MarkNotice, PostNotice,
           LookForDigest, CheckMark, Gather, WriteDaily, MarkDaily,
           ListUnsynced, WriteListed, MarkSummary, MarkHandoff, PassEnds,
           passFrame, schedFrame, fixed, tables
  <2>2. DOMAIN memory' = Item
    BY <1>9
       DEF Moves, PassStep, PassFails, RunJob, CountProgress,
           UpsertProgress, FindCompletable, MarkNotice, PostNotice,
           LookForDigest, CheckMark, Gather, WriteDaily, MarkDaily,
           ListUnsynced, WriteListed, MarkSummary, MarkHandoff, PassEnds,
           WriteMemory, MirrorType, schedFrame, mirror
  <2>3. DOMAIN handoff' = Handoff
    BY <1>9
       DEF Moves, PassStep, PassFails, RunJob, CountProgress,
           UpsertProgress, FindCompletable, MarkNotice, PostNotice,
           LookForDigest, CheckMark, Gather, WriteDaily, MarkDaily,
           ListUnsynced, WriteListed, MarkSummary, MarkHandoff, PassEnds,
           MirrorType, schedFrame, tables
  <2>4. event' = event \/ \E x \in Content : event' = event \cup {x[1]}
    <3>1. Runs(j, "summary", "mark") => job[j].val \in Content
      BY DEF Runs, JobType, PassType
    <3> QED BY <1>9, <3>1
            DEF Moves, PassStep, PassFails, RunJob, CountProgress,
                UpsertProgress, FindCompletable, MarkNotice, PostNotice,
                LookForDigest, CheckMark, Gather, WriteDaily, MarkDaily,
                ListUnsynced, WriteListed, MarkSummary, MarkHandoff,
                PassEnds, schedFrame, tables
  <2>5. event' \subseteq Item
    BY <2>4 DEF MirrorType, Content
  <2> QED BY <2>1, <2>2, <2>3, <2>5 DEF MirrorType
<1> QED BY <1>1, <1>2, <1>3, <1>4, <1>5, <1>6, <1>7, <1>8, <1>9, StepSplit
        DEF RequestStep

(* Passes and rows keep their types, whatever overlaps.                    *)
THEOREM JobsWellFormed == Spec => [](JobType /\ MirrorType)
BY InitTypes, StepJobTypes, StepMirrorTypes, PTL DEF Spec

---------------------------------------------------------------------------
(* Shutdown                                                                *)

(* Once cron has stopped, no pass of its own is still to be counted, and   *)
(* the delayed pass cannot start any more.                                 *)
CronIsDone ==
  sched \in {"waiting", "stopped"} =>
    /\ timer # "armed"
    /\ \A j \in Job : job[j].at = "spawned" => job[j].by # "cron"

DrainInv == CronIsDone /\ DrainedAtShutdown

LEMMA StepDrains ==
  ASSUME JobType, MirrorType, DrainInv, [Next]_vars
  PROVE  DrainInv'
<1>1. CASE RequestStep
  BY <1>1, RequestFrame DEF DrainInv, CronIsDone, DrainedAtShutdown
<1>2. CASE ServerStep
  <2>1. job' = job
    BY <1>2, ServerFrame
  <2>2. CASE Cancel \/ ShutdownTimesOut
    BY <2>2 DEF Cancel, ShutdownTimesOut, DrainInv, CronIsDone,
                DrainedAtShutdown
  <2>3. CASE CronStops
    <3>1. /\ sched' = "waiting" /\ timer' # "armed"
          /\ \A j \in Job : ~(job[j].at = "spawned" /\ job[j].by = "cron")
      BY <2>3 DEF CronStops
    <3> QED BY <2>1, <3>1 DEF DrainInv, CronIsDone, DrainedAtShutdown
  <2>4. CASE WaitReturns
    <3>1. sched = "waiting" /\ sched' = "stopped" /\ timer' = timer
      BY <2>4 DEF WaitReturns
    <3>2. \A j \in Job : job[j].at \in {"idle", "spawned"}
      BY <2>4 DEF WaitReturns, Counted
    <3>3. \A j \in Job : job[j].by # "cron"
      BY <3>1, <3>2 DEF DrainInv, CronIsDone, JobType, PassType
    <3> QED BY <2>1, <3>1, <3>3 DEF DrainInv, CronIsDone, DrainedAtShutdown
  <2> QED BY <1>2, <2>2, <2>3, <2>4 DEF ServerStep, Shutdown
<1>3. CASE Restart
  BY <1>3 DEF Restart, DrainInv, CronIsDone, DrainedAtShutdown
<1>4. ASSUME NEW j \in Job, Starts(j) PROVE DrainInv'
  <2>1. /\ job'[j].at = "spawned" /\ sched' = sched
        /\ \/ job'[j].by = "cron" /\ sched = "running" /\ timer' = timer
           \/ job'[j].by = "timer" /\ timer = "armed" /\ timer' = "fired"
        /\ \A i \in Job : i # j => job'[i] = job[i]
    BY <1>4, StartsStep
  <2> QED BY <2>1 DEF DrainInv, CronIsDone, DrainedAtShutdown
<1>5. ASSUME NEW j \in Job, Moves(j) PROVE DrainInv'
  <2>1. /\ job'[j].by \in {"nobody", job[j].by} /\ job'[j].at # "spawned"
        /\ \A i \in Job : i # j => job'[i] = job[i]
        /\ sched' = sched /\ timer' = timer
    BY <1>5, MovesStep
  <2> QED BY <2>1 DEF DrainInv, CronIsDone, DrainedAtShutdown
<1> QED BY <1>1, <1>2, <1>3, <1>4, <1>5, StepSplit

(* After a Shutdown that ended in time no pass of cron is left, whatever   *)
(* was about to start when it began.                                       *)
THEOREM ShutdownDrains == Spec => []DrainedAtShutdown
<1>1. Init => DrainInv
  BY DEF Init, DrainInv, CronIsDone, DrainedAtShutdown
<1>2. DrainInv => DrainedAtShutdown
  BY DEF DrainInv
<1> QED BY <1>1, <1>2, StepDrains, JobsWellFormed, PTL DEF Spec

---------------------------------------------------------------------------
(* Notices and digests                                                     *)

(* One pass at a time is about to post, and only after it set the mark.    *)
OnePost ==
  /\ \A i, j \in Job : job[i].at = "post" /\ job[j].at = "post" => i = j
  /\ (\E j \in Job : job[j].at = "post") => notice = "recent" /\ notices = 0
  /\ notices \in {0, 1}
  /\ notices = 1 => notice = "recent"

(* One goroutine at a time writes the digest, and only while the mark is   *)
(* young.                                                                  *)
OneDigest ==
  digesting # {} => mark = "recent" /\ \E x : digesting = {x}

ThrottleInv == OnePost /\ OneDigest

LEMMA NoticeMoves ==
  ASSUME JobType, MirrorType, NEW j \in Job, Moves(j)
  PROVE  \/ notice' \in {notice, "recent"} /\ notice = "recent"
              /\ notices' = notices /\ job'[j].at # "post"
         \/ notice' = notice /\ notices' = notices /\ job'[j].at # "post"
         \/ notice # "recent" /\ notice' = "recent" /\ notices' = notices
         \/ job[j].at = "post" /\ notice' = notice /\ job'[j].at # "post"
              /\ notices' = notices + 1
<1>1. ASSUME EndPass(j) PROVE job'[j].at # "post"
  <2>1. job'[j].at \in {"idle", "start"}
    BY <1>1, EndPassStep
  <2> QED BY <2>1
<1>2. ASSUME NEW at \in Label \ {"post"}, NEW left, NEW val,
             Goto(j, at, left, val)
      PROVE  job'[j].at # "post"
  <2>1. job'[j] = Pass(job[j].by, job[j].jobs, at, left, val)
    BY <1>2, GotoStep
  <2> QED BY <2>1 DEF Pass
<1>3. CASE MarkNotice(j)
  <2>1. CASE notice = "recent"
    BY <1>1, <1>3, <2>1 DEF MarkNotice
  <2>2. CASE notice # "recent"
    BY <1>3, <2>2 DEF MarkNotice
  <2> QED BY <2>1, <2>2
<1>4. CASE PostNotice(j)
  BY <1>1, <1>4 DEF PostNotice, Runs
<1>5. CASE RunJob(j)
  <2>1. job'[j] = Pass(job[j].by, job[j].jobs, "start", job[j].left,
                       job[j].val)
    BY <1>5, RunJobStep
  <2>2. job'[j].at = "start"
    BY <2>1 DEF Pass
  <2> QED BY <1>5, <2>2 DEF RunJob, schedFrame
<1>6. CASE /\ Moves(j) /\ ~MarkNotice(j) /\ ~PostNotice(j) /\ ~RunJob(j)
  <2>1. notice' = notice /\ notices' = notices
    BY <1>6
       DEF Moves, PassStep, PassFails, CountProgress, UpsertProgress,
           FindCompletable, LookForDigest, CheckMark, Gather, WriteDaily,
           MarkDaily, ListUnsynced, WriteListed, MarkSummary, MarkHandoff,
           PassEnds
  <2>2. \/ EndPass(j)
        \/ \E at \in Label \ {"post"} : \E left, val : Goto(j, at, left, val)
    BY <1>6
       DEF Moves, PassStep, PassFails, CountProgress, UpsertProgress,
           FindCompletable, LookForDigest, CheckMark, Gather, WriteDaily,
           MarkDaily, ListUnsynced, WriteListed, MarkSummary, MarkHandoff,
           PassEnds, Label
  <2> QED BY <1>1, <1>2, <2>1, <2>2
<1> QED BY <1>3, <1>4, <1>5, <1>6

LEMMA StepOnePost ==
  ASSUME JobType, MirrorType, OnePost, [Next]_vars
  PROVE  OnePost'
<1>1. CASE RequestStep \/ ServerStep
  <2>1. job' = job
    BY <1>1, RequestFrame, ServerFrame
  <2>2. CASE NoticeAges
    BY <2>1, <2>2 DEF NoticeAges, OnePost
  <2>3. CASE ~NoticeAges
    <3>1. notice' = notice /\ notices' = notices
      BY <1>1, <2>3, ServerFrame
         DEF RequestStep, Submit, Review, PostSummary, WriteHandoff,
             InsertHandoff, StoreMessage, DigestStep, ListForDigest,
             WriteDigest, MarkAges, Upsert, vars, process, digestFrame,
             schedFrame
    <3> QED BY <2>1, <3>1 DEF OnePost
  <2> QED BY <2>2, <2>3
<1>2. CASE Restart
  BY <1>2, IdleType DEF Restart, OnePost
<1>3. ASSUME NEW j \in Job, Starts(j) PROVE OnePost'
  <2>1. /\ job'[j].at = "spawned"
        /\ \A i \in Job : i # j => job'[i] = job[i]
        /\ notice' = notice /\ notices' = notices
    BY <1>3, StartsStep DEF schedFrame
  <2> QED BY <2>1 DEF OnePost
<1>4. ASSUME NEW j \in Job, Moves(j) PROVE OnePost'
  <2>1. \A i \in Job : i # j => job'[i] = job[i]
    BY <1>4, MovesStep
  <2> QED BY <1>4, <2>1, NoticeMoves DEF OnePost
<1> QED BY <1>1, <1>2, <1>3, <1>4, StepSplit

LEMMA StepOneDigest ==
  ASSUME JobType, MirrorType, OneDigest, [Next]_vars
  PROVE  OneDigest'
<1>1. CASE RequestStep
  <2>1. CASE StoreMessage
    BY <2>1 DEF StoreMessage, OneDigest
  <2>2. CASE DigestStep
    BY <2>2 DEF DigestStep, ListForDigest, WriteDigest, OneDigest
  <2>3. CASE MarkAges
    BY <2>3 DEF MarkAges, OneDigest
  <2>4. CASE ~StoreMessage /\ ~DigestStep /\ ~MarkAges
    <3>1. mark' = mark /\ digesting' = digesting
      BY <1>1, <2>4
         DEF RequestStep, Submit, Review, PostSummary, WriteHandoff,
             InsertHandoff, Upsert, NoticeAges, vars, process, digest,
             passFrame
    <3> QED BY <3>1 DEF OneDigest
  <2> QED BY <2>1, <2>2, <2>3, <2>4
<1>2. CASE ServerStep
  BY <1>2, ServerFrame DEF schedFrame, digest, OneDigest
<1>3. CASE Restart
  BY <1>3 DEF Restart, OneDigest
<1>4. ASSUME NEW j \in Job, Starts(j) PROVE OneDigest'
  BY <1>4, StartsStep DEF schedFrame, digest, OneDigest
<1>5. ASSUME NEW j \in Job, Moves(j) PROVE OneDigest'
  <2>1. mark' \in {mark, "recent"} /\ digesting' = digesting
    BY <1>5
       DEF Moves, PassStep, PassFails, RunJob, CountProgress,
           UpsertProgress, FindCompletable, MarkNotice, PostNotice,
           LookForDigest, CheckMark, Gather, WriteDaily, MarkDaily,
           ListUnsynced, WriteListed, MarkSummary, MarkHandoff, PassEnds,
           passFrame, schedFrame, digest
  <2> QED BY <2>1 DEF OneDigest
<1> QED BY <1>1, <1>2, <1>3, <1>4, <1>5, StepSplit

(* However many passes overlap, a notice is posted once per thirty minutes *)
(* and at most one digest is on its way.                                   *)
THEOREM NoticesAreThrottled == Spec => []NoticeThrottled
<1>1. Init => ThrottleInv
  BY IdleType DEF Init, ThrottleInv, OnePost, OneDigest
<1>2. JobType /\ MirrorType /\ ThrottleInv /\ [Next]_vars => ThrottleInv'
  BY StepOnePost, StepOneDigest DEF ThrottleInv
<1>3. ThrottleInv => NoticeThrottled
  <2> SUFFICES ASSUME ThrottleInv PROVE NoticeThrottled
    OBVIOUS
  <2>1. Cardinality(digesting) <= 1
    <3>1. CASE digesting = {}
      BY <3>1, FS_EmptySet
    <3>2. ASSUME NEW x, digesting = {x} PROVE Cardinality(digesting) <= 1
      BY <3>2, FS_Singleton
    <3> QED BY <3>1, <3>2 DEF ThrottleInv, OneDigest
  <2> QED BY <2>1 DEF ThrottleInv, OnePost, NoticeThrottled
<1> QED BY <1>1, <1>2, <1>3, JobsWellFormed, PTL DEF Spec

---------------------------------------------------------------------------
(* Copies in the memory                                                    *)

Marked == event \cup {h \in Handoff : handoff[h] = "synced"}

Stored(i) == i \in skipped \/ (i \in Item /\ memory[i] # 0)
StoredNext(i) == i \in skipped' \/ (i \in Item /\ memory'[i] # 0)

(* What is marked, or about to be, is stored.                              *)
MarkedStored ==
  /\ \A i \in Marked : Stored(i)
  /\ \A j \in Job : job[j].at = "mark" => Stored(job[j].val[1])

(* A write of the client stores what it is given or changes nothing, and   *)
(* what succeeds is stored.                                                *)
LEMMA WriteStores ==
  ASSUME MirrorType, NEW i \in Item, NEW content, content # 0,
         NEW fails \in BOOLEAN, WriteMemory(i, content, fails)
  PROVE  /\ \A k : Stored(k) => StoredNext(k)
         /\ ~fails => StoredNext(i)
BY DEF MirrorType, WriteMemory, Write, Stored, StoredNext

(* A healthy server gives back what it holds, by either API.               *)
LEMMA ReadsBack ==
  ASSUME NEW srv \in Server
  PROVE  ClientRead(srv, [busy |-> 0, down |-> FALSE, lost |-> FALSE]) = "ok"
BY DEF ClientRead, Do, WantsTenant, Server

(* Nothing stored is taken away, whoever moves.                            *)
LEMMA StoredStays ==
  ASSUME JobType, MirrorType, [Next]_vars
  PROVE  \A k : Stored(k) => StoredNext(k)
<1>1. ASSUME UNCHANGED mirror PROVE \A k : Stored(k) => StoredNext(k)
  BY <1>1 DEF mirror, Stored, StoredNext
<1>2. ASSUME NEW i \in Item, NEW content, content # 0, NEW fails \in BOOLEAN,
             WriteMemory(i, content, fails)
      PROVE  \A k : Stored(k) => StoredNext(k)
  BY <1>2, WriteStores
<1>3. CASE RequestStep
  <2>1. CASE \E x \in posting : PostSummary(x)
    <3>1. PICK x \in posting, fails \in BOOLEAN : WriteMemory(x[1], x[2], fails)
      BY <2>1 DEF PostSummary
    <3>2. x[1] \in Item /\ x[2] # 0
      BY DEF MirrorType, Content
    <3> QED BY <1>2, <3>1, <3>2
  <2>2. CASE \E h \in Handoff : WriteHandoff(h)
    <3>1. PICK h \in Handoff, fails \in BOOLEAN : WriteMemory(h, 1, fails)
      BY <2>2 DEF WriteHandoff
    <3>2. h \in Item /\ 1 # 0
      BY DEF Item
    <3> QED BY <1>2, <3>1, <3>2
  <2>3. CASE DigestStep
    <3>1. \/ UNCHANGED mirror
          \/ \E fails \in BOOLEAN : WriteMemory(Day, 1, fails)
      BY <2>3 DEF DigestStep, ListForDigest, WriteDigest
    <3>2. Day \in Item /\ 1 # 0
      BY DEF Item
    <3> QED BY <1>1, <1>2, <3>1, <3>2
  <2>4. CASE /\ ~(\E x \in posting : PostSummary(x)) /\ ~DigestStep
             /\ ~(\E h \in Handoff : WriteHandoff(h))
    <3>1. UNCHANGED mirror
      BY <1>3, <2>4
         DEF RequestStep, Submit, Review, InsertHandoff, StoreMessage,
             MarkAges, Upsert, NoticeAges, vars, passFrame
    <3> QED BY <1>1, <3>1
  <2> QED BY <2>1, <2>2, <2>3, <2>4
<1>4. CASE ServerStep \/ Restart
  BY <1>1, <1>4, ServerFrame DEF Restart, schedFrame
<1>5. ASSUME NEW j \in Job, Starts(j) PROVE \A k : Stored(k) => StoredNext(k)
  BY <1>1, <1>5, StartsStep DEF schedFrame
<1>6. ASSUME NEW j \in Job, Moves(j) PROVE \A k : Stored(k) => StoredNext(k)
  <2>1. CASE WriteDaily(j)
    <3>1. PICK fails \in BOOLEAN : WriteMemory(Day, job[j].val, fails)
      BY <2>1 DEF WriteDaily
    <3>2. Day \in Item /\ job[j].val = 1
      BY <2>1 DEF Item, WriteDaily, Runs, JobType, PassType
    <3>3. job[j].val # 0
      BY <3>2
    <3> QED BY <1>2, <3>1, <3>2, <3>3
  <2>2. CASE WriteListed(j)
    <3>1. PICK x \in job[j].left, fails \in BOOLEAN :
            WriteMemory(x[1], x[2], fails)
      BY <2>2 DEF WriteListed
    <3>2. x \in Content
      BY DEF JobType, PassType
    <3>3. x[1] \in Item /\ x[2] # 0
      BY <3>2 DEF Content
    <3> QED BY <1>2, <3>1, <3>3
  <2>3. CASE ~WriteDaily(j) /\ ~WriteListed(j)
    <3>1. UNCHANGED mirror
      BY <1>6, <2>3
         DEF Moves, PassStep, PassFails, RunJob, CountProgress,
             UpsertProgress, FindCompletable, MarkNotice, PostNotice,
             LookForDigest, CheckMark, Gather, MarkDaily, ListUnsynced,
             MarkSummary, MarkHandoff, PassEnds, schedFrame
    <3> QED BY <1>1, <3>1
  <2> QED BY <2>1, <2>2, <2>3
<1> QED BY <1>3, <1>4, <1>5, <1>6, StepSplit

(* A pass that is about to mark an item has stored it.                     *)
LEMMA MovesToMark ==
  ASSUME JobType, MirrorType, NEW j \in Job, Moves(j), job'[j].at = "mark"
  PROVE  StoredNext(job'[j].val[1])
<1>1. ~EndPass(j)
  <2>1. EndPass(j) => job'[j].at \in {"idle", "start"}
    BY EndPassStep
  <2> QED BY <2>1
<1>2. ASSUME NEW at, at # "mark", NEW left, NEW val
      PROVE  ~Goto(j, at, left, val)
  <2>1. Goto(j, at, left, val) =>
          job'[j] = Pass(job[j].by, job[j].jobs, at, left, val)
    BY GotoStep
  <2> QED BY <1>2, <2>1 DEF Pass
<1>3. ~RunJob(j)
  <2>1. RunJob(j) => job'[j] = Pass(job[j].by, job[j].jobs, "start",
                                    job[j].left, job[j].val)
    BY RunJobStep
  <2> QED BY <2>1 DEF Pass
<1>4. WriteListed(j)
  BY <1>1, <1>2, <1>3
     DEF Moves, PassStep, PassFails, CountProgress, UpsertProgress,
         FindCompletable, MarkNotice, PostNotice, LookForDigest, CheckMark,
         Gather, WriteDaily, MarkDaily, ListUnsynced, MarkSummary,
         MarkHandoff, PassEnds
<1>5. PICK x \in job[j].left, fails \in BOOLEAN :
        /\ WriteMemory(x[1], x[2], fails)
        /\ ~fails /\ Goto(j, "mark", job[j].left \ {x}, x)
  BY <1>2, <1>4 DEF WriteListed
<1>6. x \in Content
  BY DEF JobType, PassType
<1>7. x[1] \in Item /\ x[2] # 0
  BY <1>6 DEF Content
<1>8. StoredNext(x[1])
  BY <1>5, <1>7, WriteStores
<1>9. job'[j] = Pass(job[j].by, job[j].jobs, "mark", job[j].left \ {x}, x)
  BY <1>5, GotoStep
<1>10. job'[j].val = x
  BY <1>9 DEF Pass
<1> QED BY <1>8, <1>10

(* Only the passes mark.                                                   *)
LEMMA NewlyMarked ==
  ASSUME JobType, MirrorType, [Next]_vars
  PROVE  \/ Marked' \subseteq Marked
         \/ \E j \in Job : /\ job[j].at = "mark"
                           /\ Marked' \subseteq Marked \cup {job[j].val[1]}
<1>1. CASE RequestStep \/ ServerStep \/ Restart
  <2>1. event' = event
    BY <1>1, ServerFrame
       DEF RequestStep, Submit, Review, PostSummary, WriteHandoff,
           InsertHandoff, StoreMessage, DigestStep, ListForDigest,
           WriteDigest, MarkAges, Upsert, NoticeAges, Restart, vars, tables,
           digestFrame, passFrame, schedFrame
  <2>2. \A h \in Handoff : handoff'[h] = "synced" => handoff[h] = "synced"
    <3>1. CASE Restart
      BY <3>1 DEF Restart
    <3>2. CASE \E h \in Handoff : WriteHandoff(h) \/ InsertHandoff(h)
      BY <3>2 DEF WriteHandoff, InsertHandoff, MirrorType
    <3>3. CASE /\ ~Restart
               /\ ~(\E h \in Handoff : WriteHandoff(h) \/ InsertHandoff(h))
      <4>1. handoff' = handoff
        BY <1>1, <3>3, ServerFrame
           DEF RequestStep, Submit, Review, PostSummary, StoreMessage,
               DigestStep, ListForDigest, WriteDigest, MarkAges, Upsert,
               NoticeAges, vars, tables, digestFrame, passFrame, schedFrame
      <4> QED BY <4>1
    <3> QED BY <3>1, <3>2, <3>3
  <2> QED BY <2>1, <2>2 DEF Marked
<1>2. ASSUME NEW j \in Job, Starts(j) PROVE Marked' \subseteq Marked
  BY <1>2, StartsStep DEF schedFrame, tables, Marked
<1>3. ASSUME NEW j \in Job, Moves(j)
      PROVE  \/ Marked' \subseteq Marked
             \/ /\ job[j].at = "mark"
                /\ Marked' \subseteq Marked \cup {job[j].val[1]}
  <2>1. CASE MarkSummary(j)
    BY <2>1 DEF MarkSummary, Runs, Marked
  <2>2. CASE MarkHandoff(j)
    BY <2>2 DEF MarkHandoff, Runs, Marked, MirrorType
  <2>3. CASE ~MarkSummary(j) /\ ~MarkHandoff(j)
    <3>1. event' = event /\ handoff' = handoff
      BY <1>3, <2>3
         DEF Moves, PassStep, PassFails, RunJob, CountProgress,
             UpsertProgress, FindCompletable, MarkNotice, PostNotice,
             LookForDigest, CheckMark, Gather, WriteDaily, MarkDaily,
             ListUnsynced, WriteListed, PassEnds, schedFrame, tables
    <3> QED BY <3>1 DEF Marked
  <2> QED BY <2>1, <2>2, <2>3
<1> QED BY <1>1, <1>2, <1>3, StepSplit

LEMMA StepMarkedStored ==
  ASSUME JobType, MirrorType, MarkedStored, [Next]_vars
  PROVE  MarkedStored'
<1>1. \A i \in Marked' : StoredNext(i)
  <2>1. \A i \in Marked' : Stored(i)
    BY NewlyMarked DEF MarkedStored
  <2> QED BY <2>1, StoredStays
<1>2. ASSUME NEW i \in Job, job'[i].at = "mark"
      PROVE  StoredNext(job'[i].val[1])
  <2>1. CASE job'[i] = job[i]
    BY <1>2, <2>1, StoredStays DEF MarkedStored
  <2>2. CASE job'[i] # job[i]
    <3>1. ~RequestStep /\ ~ServerStep
      BY <2>2, RequestFrame, ServerFrame
    <3>2. ~Restart
      BY <1>2, IdleType DEF Restart
    <3>3. PICK j \in Job : Starts(j) \/ Moves(j)
      BY <3>1, <3>2, StepSplit
    <3>4. i = j /\ Moves(i)
      <4>1. \A k \in Job : k # j => job'[k] = job[k]
        BY <3>3, StartsStep, MovesStep
      <4>2. i = j
        BY <2>2, <4>1
      <4> QED BY <1>2, <3>3, <4>2, StartsStep
    <3> QED BY <1>2, <3>4, MovesToMark
  <2> QED BY <2>1, <2>2
<1>3. /\ \A i \in Marked' : Stored(i)'
      /\ \A i \in Job : job'[i].at = "mark" => Stored(job[i].val[1])'
  BY <1>1, <1>2 DEF Stored, StoredNext
<1> QED BY <1>3 DEF MarkedStored

(* What a job has marked as copied can be read back, whatever the servers, *)
(* failures and restarts, unless memory writes were switched off.          *)
THEOREM MarkedCopiesReadable == Spec => []MarkedIsReadable
<1>1. Init => MarkedStored
  BY IdleType DEF Init, MarkedStored, Marked
<1>2. MirrorType /\ MarkedStored => MarkedIsReadable
  BY ReadsBack DEF MirrorType, MarkedStored, Marked, Stored, MarkedIsReadable
<1> QED BY <1>1, <1>2, StepMarkedStored, JobsWellFormed, PTL DEF Spec
=============================================================================
