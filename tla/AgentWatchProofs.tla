-------------------------- MODULE AgentWatchProofs --------------------------
(***************************************************************************)
(* Theorems about the agent watch, for every number of events, watchers,   *)
(* rows per pass and retries.                                              *)
(***************************************************************************)
EXTENDS AgentWatchSafety, WellFoundedInduction, TLAPS

Passing == {"list", "next", "run", "done", "persist", "fail", "skip"}
Working == {"next", "run", "done", "fail"}

(* A watcher in a pass holds the lock of the agent.                        *)
PassHoldsLock == \A w \in Watcher : pc[w] \in Passing => lock = w

(* What was recorded is closed: no UPDATE opens it again.                  *)
RecordedIsClosed ==
  \A e \in recorded : row[e].status \in {"handled", "failed", "skipped"}

(* A batch holds one copy of a row at most.                                *)
OneCopy ==
  \A w \in Watcher : \A c, d \in batch[w] : c.event = d.event => c = d

(* Nothing of a batch was recorded but the row whose recording is under    *)
(* way.                                                                    *)
BatchIsFresh ==
  \A w \in Watcher : \A c \in batch[w] :
    /\ pc[w] \in Working => c.event \notin recorded
    /\ pc[w] \in {"persist", "skip"} /\ c.event \in recorded => c = First(w)

WatchInv ==
  /\ TypeOK /\ PassHoldsLock /\ RecordedIsClosed /\ OneCopy /\ BatchIsFresh

---------------------------------------------------------------------------
(* The row in work                                                         *)

USE CountAssumption, NoneAssumption

(* A set of numbers that is not empty has a least one.                     *)
LEMMA LeastNumber ==
  ASSUME NEW T, T \subseteq Nat, T # {}
  PROVE  \E x \in T : \A y \in T : x <= y
<1>1. PICK x \in T : \A y \in T : ~ (<<y, x>> \in OpToRel(<, Nat))
  BY WFMin, NatLessThanWellFounded
<1>2. \A m, n \in Nat : m < n => <<m, n>> \in OpToRel(<, Nat)
  BY DEF OpToRel
<1>3. \A y \in T : ~ (y < x)
  BY <1>1, <1>2
<1>4. \A y \in T : x <= y
  BY <1>3
<1> QED BY <1>4

LEMMA FirstInBatch ==
  ASSUME TypeOK, NEW w \in Watcher, batch[w] # {}
  PROVE  First(w) \in batch[w] /\ First(w) \in Copy /\ InWork(w) \in Event
<1> DEFINE T == {c.event : c \in batch[w]}
<1>1. batch[w] \subseteq Copy
  BY DEF TypeOK
<1>2. T \subseteq Nat /\ T # {}
  BY <1>1 DEF Copy, Event
<1>3. \E x \in T : \A y \in T : x <= y
  <2> HIDE DEF T
  <2> QED BY <1>2, LeastNumber
<1>4. \E c \in batch[w] : \A d \in batch[w] : c.event <= d.event
  BY <1>3
<1>5. First(w) \in batch[w]
  BY <1>4 DEF First
<1> QED BY <1>1, <1>5 DEF InWork, Copy

(* A step keeps the types of the rows it writes.                           *)
LEMMA SetStatusType ==
  ASSUME TypeOK, NEW e \in Event, NEW s \in Status, SetStatus(e, s)
  PROVE  /\ row' \in [Event -> [status : Status, retries : Nat,
                                stale : BOOLEAN]]
         /\ row'[e].status = s
         /\ \A d \in Event : d # e => row'[d] = row[d]
<1> DEFINE new == [status |-> s, stale |-> row[e].stale,
                   retries |-> IF s = "failed" THEN row[e].retries + 1
                               ELSE row[e].retries]
<1>1. row[e] \in [status : Status, retries : Nat, stale : BOOLEAN]
  BY DEF TypeOK
<1>2. row' = [row EXCEPT ![e] = new]
  BY DEF SetStatus
<1>3. /\ new \in [status : Status, retries : Nat, stale : BOOLEAN]
      /\ new.status = s
  BY <1>1
<1> HIDE DEF new
<1> QED BY <1>2, <1>3 DEF TypeOK

LEMMA ReleaseType ==
  ASSUME TypeOK, NEW w \in Watcher, Release(w)
  PROVE  /\ lock' \in Watcher \cup {None}
         /\ batch' \in [Watcher -> SUBSET Copy]
         /\ ackedNow' \in [Watcher -> BOOLEAN]
         /\ \A v \in Watcher : v # w => batch'[v] = batch[v]
         /\ batch'[w] = {}
BY DEF TypeOK, Release

Label == {"off", "lock", "list", "next", "run", "done", "persist", "fail",
          "skip", "sleep"}

LEMMA GotoType ==
  ASSUME TypeOK, NEW w \in Watcher, NEW l \in Label, Goto(w, l)
  PROVE  /\ pc' \in [Watcher -> Label]
         /\ pc'[w] = l
         /\ \A v \in Watcher : v # w => pc'[v] = pc[v]
BY DEF TypeOK, Goto, Label

LEMMA AdvanceType ==
  ASSUME TypeOK, NEW w \in Watcher, Advance(w)
  PROVE  /\ pc' \in [Watcher -> Label] /\ pc'[w] = "next"
         /\ batch' \in [Watcher -> SUBSET Copy]
         /\ ackedNow' \in [Watcher -> BOOLEAN]
         /\ batch'[w] = batch[w] \ {First(w)}
         /\ \A v \in Watcher : v # w => /\ batch'[v] = batch[v]
                                        /\ pc'[v] = pc[v]
BY DEF TypeOK, Advance, Goto, Label

---------------------------------------------------------------------------
(* Types                                                                   *)

LEMMA InitType == Init => TypeOK
BY DEF Init, TypeOK, Mode, Status, Open, Event

LEMMA ListedType == ASSUME TypeOK PROVE Listed \subseteq Copy
<1> DEFINE copy(e) == [event |-> e, status |-> row[e].status,
                       retries |-> row[e].retries]
           Due == {f \in {e \in Event : row[e].status \in Open} :
                     Cardinality({g \in {e \in Event : row[e].status \in Open}
                                    : g < f}) < MaxBatch}
<1>1. ASSUME NEW e \in Event, row[e].status \in Open PROVE copy(e) \in Copy
  BY <1>1 DEF Copy, TypeOK
<1>2. Listed = {copy(e) : e \in Due}
  BY DEF Listed
<1>3. \A e \in Due : e \in Event /\ row[e].status \in Open
  OBVIOUS
<1> HIDE DEF copy, Due
<1> QED BY <1>1, <1>2, <1>3

Row == [status : Status, retries : Nat, stale : BOOLEAN]

LEMMA RowTypes ==
  ASSUME NEW r \in Row
  PROVE  [r EXCEPT !.stale = TRUE] \in Row /\ [r EXCEPT !.status = "unread"] \in Row
BY DEF Row, Status, Open

LEMMA StepType == TypeOK /\ [Next]_vars => TypeOK'
<1> SUFFICES ASSUME TypeOK, [Next]_vars PROVE TypeOK'
  OBVIOUS
<1> USE DEF Label
<1>1. ASSUME NEW e \in Event, GrowsStale(e) PROVE TypeOK'
  <2>0. row \in [Event -> Row] /\ row[e] \in Row
    BY DEF TypeOK, Row
  <2>1. [row[e] EXCEPT !.stale = TRUE] \in Row
    BY <2>0, RowTypes
  <2> QED BY <1>1, <2>0, <2>1 DEF GrowsStale, watchers, TypeOK, Row
<1>2. ASSUME NEW e \in Event, Ingest(e) PROVE TypeOK'
  <2>0. row \in [Event -> Row] /\ row[e] \in Row
    BY DEF TypeOK, Row
  <2>1. [row[e] EXCEPT !.status = "unread"] \in Row
    BY <2>0, RowTypes
  <2>2. row' = [row EXCEPT ![e].status = "unread"] \/ row' = row
    BY <1>2 DEF Ingest
  <2> QED BY <1>2, <2>0, <2>1, <2>2 DEF Ingest, watchers, TypeOK, Row
<1>3. ASSUME NEW e \in Event, NEW s \in {"acked", "handled", "failed", "skipped"},
             Mark(e, s)
      PROVE TypeOK'
  <2>1. s \in Status
    BY DEF Status, Open
  <2> QED BY <1>3, <2>1, SetStatusType DEF Mark, watchers, TypeOK
<1>4. ASSUME NEW w \in Watcher, NEW m \in Mode, Launch(w, m) PROVE TypeOK'
  BY <1>4, GotoType DEF Launch, TypeOK
<1>5. ASSUME NEW w \in Watcher, TakeLock(w) PROVE TypeOK'
  BY <1>5, GotoType DEF TakeLock, StateVars, TypeOK
<1>6. ASSUME NEW w \in Watcher, Stop(w) PROVE TypeOK'
  BY <1>6, GotoType, ReleaseType DEF Stop, TypeOK
<1>7. ASSUME NEW w \in Watcher, List(w) PROVE TypeOK'
  BY <1>7, GotoType, ListedType DEF List, StateVars, TypeOK
<1>8. ASSUME NEW w \in Watcher, EndPass(w) PROVE TypeOK'
  BY <1>8, GotoType, ReleaseType DEF EndPass, StateVars, TypeOK
<1>9. ASSUME NEW w \in Watcher, PassOver(w) \/ AckRefused(w) \/ DoneRefused(w)
      PROVE TypeOK'
  BY <1>9, AdvanceType DEF PassOver, AckRefused, DoneRefused, StateVars, TypeOK
<1>10. ASSUME NEW w \in Watcher, RunStale(w) PROVE TypeOK'
  BY <1>10, GotoType DEF RunStale, StateVars, TypeOK
<1>11. ASSUME NEW w \in Watcher, AckAndRun(w) PROVE TypeOK'
  <2>1. InWork(w) \in Event /\ "acked" \in Status
    BY <1>11, FirstInBatch DEF AckAndRun, Status, Open
  <2> QED BY <1>11, <2>1, GotoType, SetStatusType DEF AckAndRun, TypeOK
<1>12. ASSUME NEW w \in Watcher, RunEnds(w) PROVE TypeOK'
  BY <1>12, GotoType DEF RunEnds, StateVars, TypeOK
<1>13. ASSUME NEW w \in Watcher, Done(w) PROVE TypeOK'
  <2>1. InWork(w) \in Event /\ "handled" \in Status
    BY <1>13, FirstInBatch DEF Done, Status, TypeOK
  <2> QED BY <1>13, <2>1, GotoType, SetStatusType DEF Done, Record, TypeOK
<1>14. ASSUME NEW w \in Watcher, Persist(w) PROVE TypeOK'
  <2>1. InWork(w) \in Event
    BY <1>14, FirstInBatch DEF Persist, TypeOK
  <2> QED BY <1>14, <2>1, AdvanceType DEF Persist, TypeOK
<1>15. ASSUME NEW w \in Watcher, Fail(w) PROVE TypeOK'
  <2>1. InWork(w) \in Event /\ "failed" \in Status
    BY <1>15, FirstInBatch DEF Fail, Status, TypeOK
  <2>2. row' \in [Event -> [status : Status, retries : Nat, stale : BOOLEAN]]
    BY <1>15, <2>1, SetStatusType DEF Fail
  <2>3. CASE Goto(w, "skip") /\ UNCHANGED <<batch, ackedNow>>
    BY <1>15, <2>1, <2>2, <2>3, GotoType DEF Fail, Record, TypeOK
  <2>4. CASE Advance(w)
    BY <1>15, <2>1, <2>2, <2>4, AdvanceType DEF Fail, Record, TypeOK
  <2> QED BY <1>15, <2>3, <2>4 DEF Fail
<1>16. ASSUME NEW w \in Watcher, FailRefused(w) PROVE TypeOK'
  <2>1. CASE Advance(w) /\ UNCHANGED lock
    BY <1>16, <2>1, AdvanceType DEF FailRefused, StateVars, TypeOK
  <2>2. CASE Release(w) /\ Goto(w, "off")
    BY <1>16, <2>2, GotoType, ReleaseType DEF FailRefused, StateVars, TypeOK
  <2> QED BY <1>16, <2>1, <2>2 DEF FailRefused
<1>17. ASSUME NEW w \in Watcher, Skip(w) PROVE TypeOK'
  <2>1. InWork(w) \in Event /\ "skipped" \in Status
    BY <1>17, FirstInBatch DEF Skip, Status, TypeOK
  <2>2. row' \in [Event -> [status : Status, retries : Nat, stale : BOOLEAN]]
    BY <1>17, <2>1, SetStatusType DEF Skip, TypeOK
  <2> QED BY <1>17, <2>2, AdvanceType DEF Skip, TypeOK
<1>18. ASSUME UNCHANGED vars PROVE TypeOK'
  BY <1>18 DEF vars, TypeOK
<1> QED
  BY <1>1, <1>2, <1>3, <1>4, <1>5, <1>6, <1>7, <1>8, <1>9, <1>10, <1>11,
     <1>12, <1>13, <1>14, <1>15, <1>16, <1>17, <1>18
     DEF Next, MarkCommand, PassStep, RowStep

(* Rows, locks and batches keep their types.                               *)
THEOREM TypeCorrect == Spec => []TypeOK
BY InitType, StepType, PTL DEF Spec

---------------------------------------------------------------------------
(* The lock                                                                *)

LEMMA StepLock == TypeOK /\ PassHoldsLock /\ [Next]_vars => PassHoldsLock'
<1> SUFFICES ASSUME TypeOK, PassHoldsLock, [Next]_vars PROVE PassHoldsLock'
  OBVIOUS
<1> USE DEF Label
<1>1. ASSUME UNCHANGED <<lock, pc>> PROVE PassHoldsLock'
  BY <1>1 DEF PassHoldsLock
<1>2. ASSUME NEW w \in Watcher, lock' = lock,
             \A v \in Watcher : v # w => pc'[v] = pc[v],
             pc[w] \in Passing \/ pc'[w] \notin Passing
      PROVE PassHoldsLock'
  BY <1>2 DEF PassHoldsLock
<1>3. ASSUME NEW w \in Watcher, NEW l \in Label, Goto(w, l), lock' = lock,
             pc[w] \in Passing \/ l \notin Passing
      PROVE PassHoldsLock'
  BY <1>2, <1>3, GotoType
<1>4. ASSUME NEW w \in Watcher, Advance(w), lock' = lock, pc[w] \in Passing
      PROVE PassHoldsLock'
  BY <1>2, <1>4, AdvanceType
<1>5. ASSUME NEW w \in Watcher, NEW l \in {"off", "sleep"},
             Release(w), Goto(w, l)
      PROVE PassHoldsLock'
  BY <1>5, GotoType DEF PassHoldsLock, Release, Passing
<1>6. ASSUME NEW w \in Watcher, NEW m \in Mode, Launch(w, m)
      PROVE PassHoldsLock'
  BY <1>3, <1>6 DEF Launch, Passing
<1>7. ASSUME NEW w \in Watcher, TakeLock(w) PROVE PassHoldsLock'
  <2>1. CASE lock = None
    <3>1. \A v \in Watcher : pc[v] \notin Passing
      BY <2>1 DEF PassHoldsLock
    <3>2. lock' = w /\ \A v \in Watcher : v # w => pc'[v] = pc[v]
      BY <1>7, <2>1, GotoType DEF TakeLock
    <3> QED BY <3>1, <3>2 DEF PassHoldsLock
  <2>2. CASE lock # None
    BY <1>3, <1>7, <2>2 DEF TakeLock, Passing
  <2> QED BY <2>1, <2>2
<1>8. ASSUME NEW w \in Watcher, Stop(w) \/ EndPass(w) PROVE PassHoldsLock'
  BY <1>5, <1>8 DEF Stop, EndPass
<1>9. ASSUME NEW w \in Watcher, FailRefused(w) PROVE PassHoldsLock'
  BY <1>4, <1>5, <1>9 DEF FailRefused, Passing
<1>10. ASSUME NEW w \in Watcher,
              PassOver(w) \/ AckRefused(w) \/ DoneRefused(w) \/ Persist(w)
              \/ Skip(w)
       PROVE PassHoldsLock'
  BY <1>4, <1>10 DEF PassOver, AckRefused, DoneRefused, Persist, Skip, Passing
<1>11. ASSUME NEW w \in Watcher,
              List(w) \/ RunStale(w) \/ AckAndRun(w) \/ RunEnds(w) \/ Done(w)
       PROVE PassHoldsLock'
  BY <1>3, <1>11 DEF List, RunStale, AckAndRun, RunEnds, Done, Passing
<1>12. ASSUME NEW w \in Watcher, Fail(w) PROVE PassHoldsLock'
  BY <1>3, <1>4, <1>12 DEF Fail, Passing
<1> QED
  BY <1>1, <1>6, <1>7, <1>8, <1>9, <1>10, <1>11, <1>12
     DEF Next, MarkCommand, GrowsStale, Ingest, Mark, PassStep, RowStep,
         watchers, vars

---------------------------------------------------------------------------
(* Rows and batches                                                        *)

Closed == {"handled", "failed", "skipped"}

(* No UPDATE opens a closed row.                                           *)
LEMMA SetStatusCloses ==
  ASSUME TypeOK, NEW e \in Event, NEW s \in Closed \cup {"acked"},
         Applies(e, s), SetStatus(e, s)
  PROVE  /\ \A d \in Event : row[d].status \in Closed
                               => row'[d].status \in Closed
         /\ row'[e].status = s
<1>1. s \in Status
  BY DEF Closed, Status, Open
<1>2. s = "acked" => row[e].status \notin Closed
  BY DEF Applies, Allowed, Closed
<1> QED BY <1>1, <1>2, SetStatusType

(* What a step records is closed, and what was closed stays so.            *)
LEMMA StepClosed == TypeOK /\ RecordedIsClosed /\ [Next]_vars => RecordedIsClosed'
<1> SUFFICES ASSUME TypeOK, RecordedIsClosed, [Next]_vars
             PROVE  RecordedIsClosed'
  OBVIOUS
<1>0. recorded \subseteq Event
  BY DEF TypeOK
<1>1. ASSUME recorded' = recorded,
             \A d \in Event : row[d].status \in Closed
                                => row'[d].status \in Closed
      PROVE RecordedIsClosed'
  BY <1>0, <1>1 DEF RecordedIsClosed, Closed
<1>2. ASSUME UNCHANGED <<row, recorded>> PROVE RecordedIsClosed'
  BY <1>1, <1>2
<1>3. ASSUME NEW e \in Event, NEW s \in Closed \cup {"acked"}, Applies(e, s),
             SetStatus(e, s), recorded' = recorded
      PROVE RecordedIsClosed'
  BY <1>1, <1>3, SetStatusCloses
<1>4. ASSUME NEW e \in Event, NEW s \in Closed, Applies(e, s),
             SetStatus(e, s), Record(e)
      PROVE RecordedIsClosed'
  BY <1>0, <1>4, SetStatusCloses DEF RecordedIsClosed, Record, Closed
<1>5. ASSUME NEW e \in Event, GrowsStale(e) PROVE RecordedIsClosed'
  BY <1>1, <1>5 DEF GrowsStale, TypeOK, Closed
<1>6. ASSUME NEW e \in Event, Ingest(e) PROVE RecordedIsClosed'
  <2>1. CASE row[e].status = "absent"
    BY <1>1, <1>6, <2>1 DEF Ingest, TypeOK, Closed
  <2>2. CASE row[e].status # "absent"
    BY <1>2, <1>6, <2>2 DEF Ingest
  <2> QED BY <2>1, <2>2
<1>7. ASSUME NEW e \in Event, NEW s \in {"acked", "handled", "failed", "skipped"},
             Mark(e, s)
      PROVE RecordedIsClosed'
  BY <1>3, <1>7 DEF Mark, Closed
<1>8. ASSUME NEW w \in Watcher, AckAndRun(w) PROVE RecordedIsClosed'
  BY <1>3, <1>8, FirstInBatch DEF AckAndRun
<1>9. ASSUME NEW w \in Watcher, Done(w) PROVE RecordedIsClosed'
  <2>1. InWork(w) \in Event
    BY <1>9, FirstInBatch DEF Done, TypeOK
  <2> QED BY <1>4, <1>9, <2>1 DEF Done, Closed
<1>10. ASSUME NEW w \in Watcher, Fail(w) PROVE RecordedIsClosed'
  <2>1. InWork(w) \in Event
    BY <1>10, FirstInBatch DEF Fail, TypeOK
  <2> QED BY <1>4, <1>10, <2>1 DEF Fail, Closed
<1>11. ASSUME NEW w \in Watcher, Skip(w) PROVE RecordedIsClosed'
  <2>1. InWork(w) \in Event
    BY <1>11, FirstInBatch DEF Skip, TypeOK
  <2> QED BY <1>2, <1>3, <1>11, <2>1 DEF Skip, Closed
<1> QED
  BY <1>2, <1>5, <1>6, <1>7, <1>8, <1>9, <1>10, <1>11
     DEF Next, MarkCommand, PassStep, RowStep, Launch, TakeLock, Stop, List,
         PassOver, RunStale, AckRefused, RunEnds, DoneRefused, Persist,
         FailRefused, EndPass, StateVars, vars

LEMMA ListedOnce ==
  ASSUME TypeOK
  PROVE  /\ \A c, d \in Listed : c.event = d.event => c = d
         /\ \A c \in Listed : row[c.event].status \in Open
<1> DEFINE copy(e) == [event |-> e, status |-> row[e].status,
                       retries |-> row[e].retries]
           Due == {f \in {e \in Event : row[e].status \in Open} :
                     Cardinality({g \in {e \in Event : row[e].status \in Open}
                                    : g < f}) < MaxBatch}
<1>1. Listed = {copy(e) : e \in Due}
  BY DEF Listed
<1>2. \A e \in Due : row[e].status \in Open
  OBVIOUS
<1> HIDE DEF Due
<1>3. \A c \in Listed : \E e \in Due : c = copy(e)
  BY <1>1
<1>4. \A e : copy(e).event = e
  OBVIOUS
<1> HIDE DEF copy
<1> QED BY <1>2, <1>3, <1>4

(* A batch only shrinks once it is listed.                                 *)
LEMMA BatchShrinks ==
  ASSUME TypeOK, [Next]_vars, NEW w \in Watcher
  PROVE  \/ batch'[w] \subseteq batch[w]
         \/ pc[w] = "list" /\ batch'[w] = Listed /\ recorded' = recorded
<1> USE DEF Label
<1>1. ASSUME batch' = batch PROVE batch'[w] \subseteq batch[w]
  BY <1>1
<1>2. ASSUME NEW v \in Watcher, Advance(v) PROVE batch'[w] \subseteq batch[w]
  BY <1>2, AdvanceType
<1>3. ASSUME NEW v \in Watcher, Release(v) PROVE batch'[w] \subseteq batch[w]
  BY <1>3, ReleaseType
<1>4. ASSUME NEW v \in Watcher, List(v)
      PROVE \/ batch'[w] \subseteq batch[w]
            \/ pc[w] = "list" /\ batch'[w] = Listed /\ recorded' = recorded
  BY <1>4 DEF List, StateVars, TypeOK
<1> QED
  BY <1>1, <1>2, <1>3, <1>4
     DEF Next, MarkCommand, GrowsStale, Ingest, Mark, PassStep, RowStep,
         Launch, TakeLock, Stop, PassOver, RunStale, AckAndRun, AckRefused,
         RunEnds, Done, DoneRefused, Persist, Fail, FailRefused, Skip,
         EndPass, watchers, vars

LEMMA StepOneCopy == TypeOK /\ OneCopy /\ [Next]_vars => OneCopy'
BY BatchShrinks, ListedOnce DEF OneCopy

(* Somebody in a pass is the only one in a pass.                           *)
LEMMA OnePass ==
  ASSUME PassHoldsLock, NEW v \in Watcher, NEW w \in Watcher,
         pc[v] \in Passing, pc[w] \in Passing
  PROVE  v = w
BY DEF PassHoldsLock

LEMMA StepFresh == WatchInv /\ [Next]_vars => BatchIsFresh'
<1> SUFFICES ASSUME WatchInv, [Next]_vars PROVE BatchIsFresh'
  OBVIOUS
<1> USE DEF Label
<1>0. TypeOK /\ PassHoldsLock /\ RecordedIsClosed /\ OneCopy /\ BatchIsFresh
  BY DEF WatchInv
<1>1. ASSUME batch' = batch, recorded' = recorded,
             \A v \in Watcher : \/ pc'[v] = pc[v]
                                \/ pc'[v] \notin Working \cup {"persist", "skip"}
                                \/ pc[v] \in Working /\ pc'[v] \in Working
      PROVE BatchIsFresh'
  BY <1>0, <1>1 DEF BatchIsFresh, First, Working
<1>2. ASSUME NEW w \in Watcher, NEW l \in Label, Goto(w, l), batch' = batch,
             recorded' = recorded,
             \/ l \notin Working \cup {"persist", "skip"}
             \/ pc[w] \in Working /\ l \in Working
      PROVE BatchIsFresh'
  BY <1>0, <1>1, <1>2, GotoType
<1>3. ASSUME NEW w \in Watcher, Advance(w), recorded' = recorded,
             pc[w] \in Working \cup {"persist", "skip"}
      PROVE BatchIsFresh'
  <2>1. /\ \A v \in Watcher : v # w => batch'[v] = batch[v] /\ pc'[v] = pc[v]
        /\ pc'[w] = "next" /\ batch'[w] = batch[w] \ {First(w)}
    BY <1>0, <1>3, AdvanceType
  <2>2. \A c \in batch'[w] : c.event \notin recorded
    BY <1>0, <1>3, <2>1 DEF BatchIsFresh
  <2> QED BY <1>0, <1>3, <2>1, <2>2 DEF BatchIsFresh, First, Working
<1>4. ASSUME NEW w \in Watcher, NEW l \in {"off", "sleep"}, Release(w),
             Goto(w, l), recorded' = recorded
      PROVE BatchIsFresh'
  <2>1. /\ \A v \in Watcher : v # w => batch'[v] = batch[v] /\ pc'[v] = pc[v]
        /\ batch'[w] = {}
    BY <1>0, <1>4, GotoType, ReleaseType
  <2> QED BY <1>0, <1>4, <2>1 DEF BatchIsFresh, First
<1>5. ASSUME NEW w \in Watcher, List(w) PROVE BatchIsFresh'
  <2>1. /\ \A v \in Watcher : v # w => batch'[v] = batch[v] /\ pc'[v] = pc[v]
        /\ pc'[w] = "next" /\ batch'[w] = Listed /\ recorded' = recorded
    BY <1>0, <1>5, GotoType DEF List, StateVars, TypeOK
  <2>2. \A c \in Listed : c.event \notin recorded
    BY <1>0, ListedOnce DEF RecordedIsClosed, Open
  <2> QED BY <1>0, <2>1, <2>2 DEF BatchIsFresh, First, Working
<1>6. ASSUME NEW w \in Watcher, Record(InWork(w)),
             pc[w] \in Working, batch[w] # {},
             \/ batch' = batch /\ \E l \in {"persist", "skip"} : Goto(w, l)
             \/ Advance(w)
      PROVE BatchIsFresh'
  <2>1. \A v \in Watcher : v # w => pc[v] \notin Passing
    BY <1>0, <1>6, OnePass DEF Working, Passing
  <2>2. \A v \in Watcher : v # w => pc'[v] = pc[v]
    BY <1>0, <1>6, GotoType, AdvanceType
  <2>3. First(w) \in batch[w]
    BY <1>0, <1>6, FirstInBatch
  <2>4. \A c \in batch[w] : c # First(w) => c.event # InWork(w)
    BY <1>0, <2>3 DEF OneCopy, InWork
  <2>5. \A c \in batch[w] : c.event \in recorded' => c = First(w)
    BY <1>0, <1>6, <2>4 DEF Record, BatchIsFresh
  <2>6. CASE batch' = batch /\ \E l \in {"persist", "skip"} : Goto(w, l)
    <3>1. pc'[w] \in {"persist", "skip"} /\ First(w)' = First(w)
      BY <1>0, <2>6, GotoType DEF First
    <3> QED BY <2>1, <2>2, <2>5, <2>6, <3>1
            DEF BatchIsFresh, Working, Passing
  <2>7. CASE Advance(w)
    <3>1. pc'[w] = "next" /\ batch'[w] = batch[w] \ {First(w)}
      BY <1>0, <2>7, AdvanceType
    <3> QED BY <2>1, <2>2, <2>5, <3>1 DEF BatchIsFresh, Working, Passing
  <2> QED BY <1>6, <2>6, <2>7
<1>7. ASSUME UNCHANGED <<pc, batch, recorded>> PROVE BatchIsFresh'
  BY <1>1, <1>7
<1>8. ASSUME NEW w \in Watcher, NEW m \in Mode, Launch(w, m) PROVE BatchIsFresh'
  <2>1. Goto(w, "lock") /\ batch' = batch /\ recorded' = recorded
    BY <1>8 DEF Launch
  <2>2. "lock" \in Label /\ "lock" \notin Working \cup {"persist", "skip"}
    BY DEF Working
  <2> QED BY <1>2, <2>1, <2>2
<1>9. ASSUME NEW w \in Watcher, TakeLock(w) PROVE BatchIsFresh'
  <2>1. Goto(w, "list") \/ Goto(w, "off")
    BY <1>9 DEF TakeLock
  <2>2. batch' = batch /\ recorded' = recorded
    BY <1>9 DEF TakeLock, StateVars
  <2>3. \A l \in {"list", "off"} :
          l \in Label /\ l \notin Working \cup {"persist", "skip"}
    BY DEF Working
  <2> QED BY <1>2, <2>1, <2>2, <2>3
<1>10. ASSUME NEW w \in Watcher, Stop(w) \/ EndPass(w) PROVE BatchIsFresh'
  BY <1>4, <1>10 DEF Stop, EndPass, StateVars
<1>11. ASSUME NEW w \in Watcher, FailRefused(w) PROVE BatchIsFresh'
  BY <1>3, <1>4, <1>11 DEF FailRefused, StateVars, Working
<1>12. ASSUME NEW w \in Watcher,
              PassOver(w) \/ AckRefused(w) \/ DoneRefused(w) \/ Persist(w)
              \/ Skip(w)
       PROVE BatchIsFresh'
  BY <1>3, <1>12
     DEF PassOver, AckRefused, DoneRefused, Persist, Skip, StateVars, Working
<1>13. ASSUME NEW w \in Watcher, RunStale(w) \/ AckAndRun(w) \/ RunEnds(w)
       PROVE BatchIsFresh'
  BY <1>2, <1>13 DEF RunStale, AckAndRun, RunEnds, StateVars, Working
<1>14. ASSUME NEW w \in Watcher, Done(w) PROVE BatchIsFresh'
  BY <1>0, <1>6, <1>14 DEF Done, Working, TypeOK
<1>15. ASSUME NEW w \in Watcher, Fail(w) PROVE BatchIsFresh'
  BY <1>0, <1>6, <1>15 DEF Fail, Working, TypeOK
<1> QED
  BY <1>5, <1>7, <1>8, <1>9, <1>10, <1>11, <1>12, <1>13, <1>14, <1>15
     DEF Next, MarkCommand, GrowsStale, Ingest, Mark, PassStep, RowStep,
         watchers, vars

---------------------------------------------------------------------------
LEMMA InitInv == Init => WatchInv
<1> SUFFICES ASSUME Init PROVE WatchInv
  OBVIOUS
<1>1. \A w \in Watcher : pc[w] = "off" /\ batch[w] = {}
  BY DEF Init
<1>2. recorded = {}
  BY DEF Init
<1> QED BY <1>1, <1>2, InitType
        DEF WatchInv, PassHoldsLock, Passing, RecordedIsClosed, OneCopy,
            BatchIsFresh

(* The invariant the next theorem rests on.                                *)
THEOREM WatchInvariant == Spec => []WatchInv
<1>1. WatchInv /\ [Next]_vars => WatchInv'
  BY StepType, StepLock, StepClosed, StepOneCopy, StepFresh DEF WatchInv
<1> QED BY <1>1, InitInv, PTL DEF Spec

(* What a watcher has recorded is not run again, by any of them, from      *)
(* whatever copy.                                                          *)
THEOREM RecordedIsNotRunAgain == Spec => RecordedNotRunAgain
<1>1. WatchInv /\ [Next]_vars =>
        [\A w \in Watcher, e \in Event :
           (~Runs(w, e) /\ Runs(w, e)') => e \notin recorded]_vars
  <2> SUFFICES ASSUME WatchInv, [Next]_vars, NEW w \in Watcher,
                      NEW e \in Event, ~Runs(w, e), Runs(w, e)'
               PROVE  e \notin recorded
    OBVIOUS
  <2> USE DEF Label
  <2>0. TypeOK /\ BatchIsFresh
    BY DEF WatchInv
  <2>1. CASE UNCHANGED <<pc, batch>>
    BY <2>1 DEF Runs, InWork, First
  <2>2. ASSUME NEW v \in Watcher, RunStale(v) \/ AckAndRun(v)
        PROVE e \notin recorded
    <3>1. /\ batch[v] # {} /\ batch' = batch /\ pc[v] = "next"
          /\ \A u \in Watcher : u # v => pc'[u] = pc[u]
      BY <2>0, <2>2, GotoType DEF RunStale, AckAndRun
    <3>2. InWork(w)' = InWork(w)
      BY <3>1 DEF InWork, First
    <3>3. w = v
      BY <3>1, <3>2 DEF Runs
    <3>4. First(w) \in batch[w] /\ e = InWork(w)
      BY <2>0, <3>1, <3>2, <3>3, FirstInBatch DEF Runs
    <3> QED BY <2>0, <3>1, <3>3, <3>4 DEF BatchIsFresh, Working, InWork
  <2>3. ASSUME NEW v \in Watcher, NEW l \in Label \ {"run"}, Goto(v, l),
               \A u \in Watcher : u # v => batch'[u] = batch[u]
        PROVE FALSE
    <3>1. pc'[v] # "run" /\ \A u \in Watcher : u # v => pc'[u] = pc[u]
      BY <2>0, <2>3, GotoType
    <3> QED BY <2>3, <3>1 DEF Runs, InWork, First
  <2>4. ASSUME NEW v \in Watcher, Advance(v) PROVE FALSE
    <3>1. \A u \in Watcher : u # v => batch'[u] = batch[u]
      BY <2>0, <2>4, AdvanceType
    <3> QED BY <2>3, <2>4, <3>1 DEF Advance
  <2>5. ASSUME NEW v \in Watcher, NEW l \in {"off", "sleep"}, Release(v),
               Goto(v, l)
        PROVE FALSE
    <3>1. \A u \in Watcher : u # v => batch'[u] = batch[u]
      BY <2>0, <2>5, ReleaseType
    <3> QED BY <2>3, <2>5, <3>1
  <2>6. ASSUME NEW v \in Watcher, List(v) PROVE FALSE
    BY <2>0, <2>3, <2>6 DEF List, TypeOK
  <2>7. ASSUME NEW v \in Watcher, NEW m \in Mode, Launch(v, m) PROVE FALSE
    BY <2>3, <2>7 DEF Launch
  <2>8. ASSUME NEW v \in Watcher, TakeLock(v) \/ RunEnds(v) \/ Done(v)
        PROVE FALSE
    BY <2>3, <2>8 DEF TakeLock, RunEnds, Done
  <2>9. ASSUME NEW v \in Watcher, Fail(v) \/ FailRefused(v) PROVE FALSE
    BY <2>3, <2>4, <2>5, <2>9 DEF Fail, FailRefused
  <2>10. ASSUME NEW v \in Watcher, Stop(v) \/ EndPass(v) PROVE FALSE
    BY <2>5, <2>10 DEF Stop, EndPass
  <2>11. ASSUME NEW v \in Watcher,
                PassOver(v) \/ AckRefused(v) \/ DoneRefused(v) \/ Persist(v)
                \/ Skip(v)
         PROVE FALSE
    BY <2>4, <2>11 DEF PassOver, AckRefused, DoneRefused, Persist, Skip
  <2> QED
    BY <2>1, <2>2, <2>6, <2>7, <2>8, <2>9, <2>10, <2>11
       DEF Next, MarkCommand, GrowsStale, Ingest, Mark, PassStep, RowStep,
           watchers, vars
<1> QED BY <1>1, WatchInvariant, PTL DEF Spec, RecordedNotRunAgain

===========================================================================
