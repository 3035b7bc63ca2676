--------------------------- MODULE GatewaySafety ---------------------------
(* What requests, tries and buckets must never do. *)
EXTENDS Gateway

Labels == {"ready", "backoff", "arrived", "stamped", "limited", "known",
           "serving", "starting", "answered", "done"}

\* Types.
TypeOK ==
  /\ pc \in [Command -> Labels]
  /\ call \in [Command -> CallSet \cup {None}]
  /\ \A c \in Command : pc[c] # "done" => call[c] \in CallSet
  /\ tries \in [Command -> 0..Tries]
  /\ stamp \in [Command -> Nat] /\ now \in Nat
  /\ live \in [Key -> BOOLEAN] /\ touched \in [Key -> Nat]
  /\ tokens \in [Key -> Nat] /\ ts \in [Key -> Nat]
  /\ used \in [Key -> Nat] /\ base \in [Key -> Nat] /\ late \in [Key -> Nat]
  /\ run \in Command \cup {None}
  /\ effects \in [Command -> Nat] /\ unread \in [Command -> Nat]

\* What a bucket has handed out since Redis made it is at most its capacity
\* and what the time between its first and its last stamp refills, however
\* the requests of several handlers reach the script; only the ticks by
\* which a stamp arrived behind a later one are refilled a second time.  And
\* what it has left is never more than its capacity, so the bound holds from
\* any later moment on as well.
AdmittedWithinRefill ==
  \A k \in Key :
    /\ tokens[k] <= Capacity
    /\ live[k] => used[k] + tokens[k] + base[k] <= Capacity + ts[k] + late[k]

\* A start that is tried again after it took effect is not refused for the
\* status it brought about itself: a command told TASK_STATUS_INVALID is not
\* the one whose run the task is running under.
StartedIsNotRefused ==
  \A c \in Command :
    pc[c] = "done" /\ answer[c] = No("TASK_STATUS_INVALID") => run # c

\* A command is carried out a second time only when the first time ended in
\* an error of the server, or the answer was lost on a Connect call; a start
\* is never carried out twice.
RepeatedOnlyAfterFailedReply ==
  \A c \in Command :
    /\ effects[c] <= 1 + unread[c]
    /\ call[c] # None /\ call[c].op = "startTask" => effects[c] <= 1

=============================================================================
