--------------------------- MODULE ServerJobsSafety ---------------------------
(* What the jobs of the server owe to each other and to their readers.      *)
EXTENDS ServerJobs

TypeOK ==
  /\ focus \in Focus /\ server \in focus.servers
  /\ task \in [Task -> [status : {"open", "submitted", "done"},
                        result : 0..MaxResult]]
  /\ handoff \in [Handoff ->
       {"none", "writing", "created", "synced", "lost"}]
  /\ event \subseteq Task
  /\ snapshot = None \/ snapshot \in 0..Cardinality(Task)
  /\ room \in 0..MaxMessage
  /\ memory \in [Item -> 0..MaxResult \cup {1}] /\ skipped \subseteq Item
  /\ autoSync \in BOOLEAN
  /\ posting \subseteq Task \X (1..MaxResult)
  /\ sched \in {"running", "cancelled", "waiting", "stopped", "gaveUp"}
  /\ timer \in {"armed", "fired", "stopped"}
  /\ \A j \in Job :
       /\ job[j].by \in {"nobody", "cron", "timer"}
       /\ job[j].left \subseteq Item \X (1..MaxResult \cup {1})
  /\ notice \in {"never", "recent", "old"} /\ notices \in Nat
  /\ mark \in {"never", "recent", "old"} /\ spent \in BOOLEAN
  /\ digesting \subseteq (1..MaxMessage) \X {"list", "write"}
  /\ faults \in 0..focus.faults

(* An item that the jobs will not look at again can be read back from the  *)
(* memory, whichever API the server speaks; unless memory writes were      *)
(* switched off when it was written.                                       *)
MarkedIsReadable ==
  LET calm == [busy |-> 0, down |-> FALSE, lost |-> FALSE]
      marked == event \cup {h \in Handoff : handoff[h] = "synced"}
  IN  \A i \in marked \ skipped :
        memory[i] # 0 /\ ClientRead(server, calm) = "ok"

(* Once Shutdown has returned without an error, no pass that cron started  *)
(* is left; the delayed one may be, but finds the context cancelled.       *)
DrainedAtShutdown ==
  sched = "stopped" => \A j \in Job : job[j].by # "cron"

(* However many passes and requests overlap: "Project completion policy    *)
(* satisfied" is posted once in thirty minutes, and one message in ten     *)
(* minutes makes the server write the digest.                              *)
NoticeThrottled ==
  /\ notices <= 1
  /\ Cardinality(digesting) <= 1

(* The snapshot agrees with the tasks once they rest.                      *)
SnapshotSettles ==
  ("progress" \in focus.of /\ <>[][UNCHANGED task]_task)
    => <>[](snapshot = Cardinality(Progress))

(* What the jobs of this behaviour should copy, and where that is done or  *)
(* given up.                                                               *)
Owed ==
  {t \in Task : "summary" \in focus.of /\ task[t].status = "done"}
  \cup {h \in Handoff : "handoff" \in focus.of
                        /\ handoff[h] \in {"created", "synced"}}
  \cup {d \in {Day} : "digest" \in focus.of}

Kept == {i \in Item : memory[i] # 0} \cup skipped \cup
          {d \in {Day} : spent}

(* What is worth remembering reaches the memory, in spite of crashes,      *)
(* failures of the memory server and of the marks; only the digest of a    *)
(* day is given up when a message has marked the day and its write fails.  *)
MirrorComplete == []<>(Owed \subseteq Kept)

=============================================================================
