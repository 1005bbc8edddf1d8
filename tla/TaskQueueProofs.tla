--------------------------- MODULE TaskQueueProofs ---------------------------
(* Proofs about TaskQueue: its inductive invariants, that it keeps results   *)
(* for their TTL, and that it implements TaskLifecycle.                      *)
EXTENDS TaskQueue, FiniteSetTheorems, TLAPS

USE QueueAssumption

\* A purge (_purge_locked) takes entries away, all of them of ended tasks.
LEMMA PurgeSparesLive ==
  ASSUME RecordInv, TypeOK, NEW T \in Purged
  PROVE  T \subseteq table /\ \A u \in table \ T : status[u] \in Final
<1>1. PICK E \in SUBSET Evictable : T = Kept \ E
  BY DEF Purged
<1>2. ASSUME NEW u \in table \ T PROVE status[u] \in Final
  <2>1. CASE u \in Expired
    BY <2>1 DEF Expired, RecordInv, TypeOK
  <2>2. CASE u \in E
    BY <2>2 DEF Evictable
  <2> QED
    BY <1>1, <1>2, <2>1, <2>2 DEF Kept
<1> QED
  BY <1>1, <1>2 DEF Kept

\* The records in the table, and how far their workers are, stay consistent.
LEMMA RecordStep ==
  ASSUME TypeOK, RecordInv, LiveAreListed, [Next]_vars
  PROVE  TypeOK' /\ RecordInv' /\ LiveAreListed'
<1> USE DEF TypeOK, Time, Final
<1>1. ASSUME NEW t \in Tasks, Admit(t)
      PROVE  TypeOK' /\ RecordInv' /\ LiveAreListed'
  <2>1. PICK T \in Purged : table' = T \union {t}
    BY <1>1 DEF Admit
  <2>2. T \subseteq table /\ \A u \in table \ T : status[u] \in Final
    BY PurgeSparesLive
  <2>3. TypeOK' /\ RecordInv'
    BY <1>1, <2>1, <2>2 DEF Admit, RecordInv
  <2>4. LiveAreListed'
    BY <1>1, <2>1, <2>2 DEF Admit, LiveAreListed, Live
  <2> QED
    BY <2>3, <2>4
<1>2. ASSUME NEW t \in Tasks, Refuse(t)
      PROVE  TypeOK' /\ RecordInv' /\ LiveAreListed'
  <2>1. PICK T \in Purged : table' = T
    BY <1>2 DEF Refuse
  <2>2. T \subseteq table /\ \A u \in table \ T : status[u] \in Final
    BY PurgeSparesLive
  <2> QED
    BY <1>2, <2>1, <2>2 DEF Refuse, RecordInv, LiveAreListed, Live
<1>3. ASSUME NEW t \in Tasks, FindNoExecutor(t)
      PROVE  TypeOK' /\ RecordInv' /\ LiveAreListed'
  BY <1>3 DEF FindNoExecutor, RecordInv, LiveAreListed, Live
<1>4. ASSUME NEW t \in Tasks, BuildExecutor(t)
      PROVE  TypeOK' /\ RecordInv' /\ LiveAreListed'
  BY <1>4 DEF BuildExecutor, RecordInv, LiveAreListed, Live
<1>5. ASSUME NEW t \in Tasks, Enqueue(t)
      PROVE  TypeOK' /\ RecordInv' /\ LiveAreListed'
  BY <1>5 DEF Enqueue, RecordInv, LiveAreListed, Live
<1>6. ASSUME NEW t \in Tasks, KeepFuture(t)
      PROVE  TypeOK' /\ RecordInv' /\ LiveAreListed'
  BY <1>6 DEF KeepFuture, RecordInv, LiveAreListed, Live
<1>7. ASSUME NEW t \in Tasks, Take(t)
      PROVE  TypeOK' /\ RecordInv' /\ LiveAreListed'
  BY <1>7 DEF Take, RecordInv, LiveAreListed, Live
<1>8. ASSUME NEW t \in Tasks, Start(t)
      PROVE  TypeOK' /\ RecordInv' /\ LiveAreListed'
  BY <1>8 DEF Start, RecordInv, LiveAreListed, Live
<1>9. ASSUME NEW t \in Tasks, Skip(t)
      PROVE  TypeOK' /\ RecordInv' /\ LiveAreListed'
  BY <1>9 DEF Skip, RecordInv, LiveAreListed, Live
<1>10. ASSUME NEW t \in Tasks, Settle(t)
       PROVE  TypeOK' /\ RecordInv' /\ LiveAreListed'
  BY <1>10 DEF Settle, RecordInv, LiveAreListed, Live
<1>11. ASSUME NEW t \in Tasks, Finish(t)
       PROVE  TypeOK' /\ RecordInv' /\ LiveAreListed'
  BY <1>11 DEF Finish, RecordInv, LiveAreListed, Live
<1>12. ASSUME NEW t \in Tasks, Cancel(t)
       PROVE  TypeOK' /\ RecordInv' /\ LiveAreListed'
  BY <1>12 DEF Cancel, RecordInv, LiveAreListed, Live
<1>13. ASSUME NEW t \in Tasks, Revoke(t)
       PROVE  TypeOK' /\ RecordInv' /\ LiveAreListed'
  BY <1>13 DEF Revoke, RecordInv, LiveAreListed, Live
<1>14. ASSUME Poll
       PROVE  TypeOK' /\ RecordInv' /\ LiveAreListed'
  <2>1. PICK T \in Purged : table' = T
    BY <1>14 DEF Poll
  <2>2. T \subseteq table /\ \A u \in table \ T : status[u] \in Final
    BY PurgeSparesLive
  <2> QED
    BY <1>14, <2>1, <2>2 DEF Poll, RecordInv, LiveAreListed, Live
<1>15. ASSUME Tick
       PROVE  TypeOK' /\ RecordInv' /\ LiveAreListed'
  BY <1>15 DEF Tick, RecordInv, LiveAreListed, Live
<1>16. ASSUME UNCHANGED vars
       PROVE  TypeOK' /\ RecordInv' /\ LiveAreListed'
  BY <1>16 DEF vars, RecordInv, LiveAreListed, Live
<1> QED
  BY <1>1, <1>2, <1>3, <1>4, <1>5, <1>6, <1>7, <1>8, <1>9, <1>10, <1>11,
     <1>12, <1>13, <1>14, <1>15, <1>16 DEF Next

\* The live tasks submit counts are all of them: none is missing in the table.
LEMMA CountedAreLive ==
  ASSUME TypeOK, RecordInv, LiveAreListed, NEW T \in Purged
  PROVE  LiveIn(T) = Live
<1>1. T \subseteq table /\ \A u \in table \ T : status[u] \in Final
  BY PurgeSparesLive
<1> QED
  BY <1>1 DEF LiveIn, Live, LiveAreListed, TypeOK, Final

\* Only Admit adds a live task, and it counted them all under the lock.
LEMMA CapStep ==
  ASSUME TypeOK, RecordInv, LiveAreListed, LiveCap, [Next]_vars
  PROVE  LiveCap'
<1> USE DEF TypeOK, Final
<1>1. IsFiniteSet(Live) /\ Cardinality(Live) \in Nat
  <2>1. IsFiniteSet(Live)
    BY FS_Subset DEF Live
  <2> QED
    BY <2>1, FS_CardinalityType
<1>2. ASSUME Live' \subseteq Live PROVE LiveCap'
  <2>1. IsFiniteSet(Live') /\ Cardinality(Live') <= Cardinality(Live)
    BY <1>1, <1>2, FS_Subset
  <2>2. Cardinality(Live') \in Nat
    BY <2>1, FS_CardinalityType
  <2> QED
    BY <1>1, <2>1, <2>2 DEF LiveCap
<1>3. ASSUME NEW t \in Tasks, Admit(t) PROVE LiveCap'
  <2>1. PICK T \in Purged : Cardinality(LiveIn(T)) < MaxTasks
    BY <1>3 DEF Admit
  <2>2. Cardinality(Live) < MaxTasks
    BY <2>1, CountedAreLive
  <2>3. Live' = Live \union {t} /\ t \notin Live
    BY <1>3 DEF Admit, Live, RecordInv
  <2>4. Cardinality(Live') = Cardinality(Live) + 1
    BY <1>1, <2>3, FS_AddElement
  <2> QED
    BY <1>1, <2>2, <2>4 DEF LiveCap
<1>4. ASSUME NEW t \in Tasks, Start(t) PROVE Live' \subseteq Live
  BY <1>4 DEF Start, Live, RecordInv
<1>5. ASSUME NEW t \in Tasks, Settle(t) PROVE Live' \subseteq Live
  BY <1>5 DEF Settle, Live
<1>6. ASSUME NEW t \in Tasks, Cancel(t) PROVE Live' \subseteq Live
  BY <1>6 DEF Cancel, Live
<1>7. ASSUME UNCHANGED status PROVE Live' \subseteq Live
  BY <1>7 DEF Live
<1> QED
  BY <1>2, <1>3, <1>4, <1>5, <1>6, <1>7
  DEF Next, vars, Refuse, FindNoExecutor, BuildExecutor, Enqueue, KeepFuture,
      Take, Skip, Finish, Revoke, Poll, Tick

\* QueueInv is an invariant of the manager.
THEOREM QueueInvariant == Spec => []QueueInv
<1>1. Init => QueueInv
  <2>1. Init => TypeOK /\ RecordInv /\ LiveAreListed
    BY DEF Init, TypeOK, Time, Final, RecordInv, LiveAreListed, Live
  <2>2. Init => LiveCap
    <3> SUFFICES ASSUME Init PROVE LiveCap
      OBVIOUS
    <3>1. Live = {}
      BY DEF Init, Live
    <3> QED
      BY <3>1, FS_EmptySet DEF LiveCap
  <2> QED
    BY <2>1, <2>2 DEF QueueInv
<1>2. QueueInv /\ [Next]_vars => QueueInv'
  BY RecordStep, CapStep DEF QueueInv
<1> QED
  BY <1>1, <1>2, PTL DEF Spec

\* Never more than max_tasks live tasks, whatever the interleaving of submit,
\* its workers and cancel.
THEOREM LiveTasksAreCapped == Spec => []LiveCap
BY QueueInvariant, PTL DEF QueueInv

\* A live task can always be polled and cancelled: no purge takes its entry.
THEOREM LiveTasksAreListed == Spec => []LiveAreListed
BY QueueInvariant, PTL DEF QueueInv

\* Both together: the cap holds and costs no caller its live task.
THEOREM LiveTasksAreSafe == Spec => []LiveTasksAreKept
BY LiveTasksAreCapped, LiveTasksAreListed, PTL DEF LiveTasksAreKept

\* Every variable of the manager keeps its type, and no worker has a task that
\* was put on no pool.
THEOREM TypeCorrect == Spec => []TypeOK
BY QueueInvariant, PTL DEF QueueInv

-----------------------------------------------------------------------------
(* Results are retained.                                                   *)

\* When a task ended is known from then on, and finished_at is no earlier.
LEMMA EndStep ==
  ASSUME QueueInv, EndIsKnown, [Next]_vars
  PROVE  EndIsKnown'
<1> USE DEF QueueInv, TypeOK, Time, Final, EndIsKnown
<1>1. ASSUME NEW t \in Tasks, Start(t) PROVE EndIsKnown'
  BY <1>1 DEF Start, RecordInv
<1>2. ASSUME NEW t \in Tasks, Settle(t) PROVE EndIsKnown'
  BY <1>2 DEF Settle, RecordInv
<1>3. ASSUME NEW t \in Tasks, Finish(t) PROVE EndIsKnown'
  BY <1>3 DEF Finish, RecordInv
<1>4. ASSUME NEW t \in Tasks, Cancel(t) PROVE EndIsKnown'
  BY <1>4 DEF Cancel, RecordInv
<1>5. ASSUME NEW t \in Tasks, Admit(t) PROVE EndIsKnown'
  BY <1>5 DEF Admit, RecordInv
<1>6. ASSUME Tick PROVE EndIsKnown'
  BY <1>6 DEF Tick
<1>7. ASSUME UNCHANGED <<now, status, finished, settled>> PROVE EndIsKnown'
  BY <1>7
<1> QED
  BY <1>1, <1>2, <1>3, <1>4, <1>5, <1>6, <1>7
  DEF Next, vars, Refuse, FindNoExecutor, BuildExecutor, Enqueue, KeepFuture,
      Take, Skip, Revoke, Poll

\* RetentionInv is an invariant of the manager.
THEOREM RetentionInvariant == Spec => []RetentionInv
<1>1. Init => EndIsKnown
  BY DEF Init, EndIsKnown, Final
<1>2. QueueInv /\ EndIsKnown /\ [Next]_vars => EndIsKnown'
  BY EndStep
<1> QED
  BY <1>1, <1>2, QueueInvariant, PTL DEF Spec, RetentionInv

\* A purge takes a result that is ResultTTL old, or makes room in a table that
\* is over its cap.
LEMMA PurgeHasReason ==
  ASSUME RetentionInv, NEW T \in Purged, NEW u \in table \ T
  PROVE  Cardinality(table) > MaxTasks \/ now > settled[u] + ResultTTL
<1> USE DEF RetentionInv, QueueInv, TypeOK, Time
<1>1. PICK E \in SUBSET Evictable :
        T = Kept \ E /\ (E = {} \/ Cardinality(T) >= MaxTasks)
  BY DEF Purged
<1>2. CASE u \in Expired
  BY <1>2 DEF Expired, EndIsKnown
<1>3. CASE u \notin Expired
  <2>1. u \in E /\ u \in table /\ T \subseteq table \ {u}
    BY <1>1, <1>3 DEF Kept
  <2>2. Cardinality(T) >= MaxTasks
    BY <1>1, <2>1
  <2>3. IsFiniteSet(table \ {u}) /\ IsFiniteSet(table)
    BY FS_Subset
  <2>4. IsFiniteSet(T) /\ Cardinality(T) <= Cardinality(table \ {u})
    BY <2>1, <2>3, FS_Subset
  <2>5. Cardinality(table \ {u}) = Cardinality(table) - 1
    BY <2>1, <2>3, FS_RemoveElement
  <2>6. Cardinality(T) \in Nat /\ Cardinality(table) \in Nat
    BY <2>3, <2>4, FS_CardinalityType
  <2> QED
    BY <2>2, <2>4, <2>5, <2>6
<1> QED
  BY <1>2, <1>3

\* Nobody loses a result early: while the table is within max_tasks, an entry
\* goes only when its task ended more than result_ttl_seconds ago, also when
\* the worker's finally clause moved finished_at after a cancel.
THEOREM ResultsAreKept == Spec => ResultsAreRetained
<1> DEFINE Reason(t) == Cardinality(table) > MaxTasks \/ now > settled[t] + ResultTTL
<1>1. ASSUME RetentionInv, [Next]_vars, NEW u \in table \ table' PROVE Reason(u)
  <2>1. ASSUME NEW t \in Tasks, Admit(t) PROVE Reason(u)
    BY <1>1, <2>1, PurgeHasReason DEF Admit
  <2>2. ASSUME NEW t \in Tasks, Refuse(t) PROVE Reason(u)
    BY <1>1, <2>2, PurgeHasReason DEF Refuse
  <2>3. ASSUME Poll PROVE Reason(u)
    BY <1>1, <2>3, PurgeHasReason DEF Poll
  <2> QED
    BY <1>1, <2>1, <2>2, <2>3
    DEF Next, vars, FindNoExecutor, BuildExecutor, Enqueue, KeepFuture, Take,
        Start, Skip, Settle, Finish, Cancel, Revoke, Tick
<1>2. RetentionInv /\ [Next]_vars =>
        [\A t \in table \ table' : Reason(t)]_vars
  BY <1>1
<1> QED
  BY <1>2, RetentionInvariant, PTL DEF Spec, ResultsAreRetained

-----------------------------------------------------------------------------
(* Refinement.                                                             *)

\* The abstract module counts with the same Cardinality.
LEMMA SameCardinality == \A S : Lifecycle!Cardinality(S) = Cardinality(S)
BY DEF Cardinality, Lifecycle!Cardinality, IsFiniteSet, Lifecycle!IsFiniteSet

stages == [t \in Tasks |-> Stage(t)]

\* What the caller sees of a purge: some ended tasks are forgotten.
LEMMA PurgeForgets ==
  ASSUME TypeOK, RecordInv, LiveAreListed, NEW T \in Purged
  PROVE  /\ table \ T \subseteq Lifecycle!Forgettable
         /\ Lifecycle!Live = LiveIn(T)
         /\ \A u \in table \ T : submitter[u] \notin {"idle", "refused"}
         /\ T \subseteq table
<1>1. T \subseteq table /\ \A u \in table \ T : status[u] \in Final
  BY PurgeSparesLive
<1>2. \A u \in table : Stage(u) = status[u] /\ submitter[u] \notin {"idle", "refused"}
  BY DEF Stage, RecordInv, TypeOK
<1>3. table \ T \subseteq Lifecycle!Forgettable
  BY <1>1, <1>2 DEF Lifecycle!Forgettable, Lifecycle!Ended, Final, TypeOK
<1>4. Lifecycle!Live = Live
  BY <1>2 DEF Lifecycle!Live, Live, Stage, LiveAreListed, RecordInv, TypeOK
<1> QED
  BY <1>1, <1>2, <1>3, <1>4, CountedAreLive

\* Every step of the manager is a step of TaskLifecycle or changes nothing
\* its callers can tell.
LEMMA LifecycleStep ==
  ASSUME TypeOK, RecordInv, LiveAreListed, [Next]_vars
  PROVE  [Lifecycle!Next]_stages
<1> USE DEF stages
<1>1. ASSUME NEW t \in Tasks, Admit(t) PROVE Lifecycle!Next
  <2>1. PICK T \in Purged : Cardinality(LiveIn(T)) < MaxTasks /\ table' = T \union {t}
    BY <1>1 DEF Admit
  <2> DEFINE S == table \ T
  <2>2. /\ S \subseteq Lifecycle!Forgettable /\ Cardinality(Lifecycle!Live) < MaxTasks
        /\ \A u \in S : submitter[u] \notin {"idle", "refused"}
        /\ T \subseteq table
    BY <2>1, PurgeForgets
  <2>3. stages[t] = "new" /\ t \notin table
    BY <1>1 DEF Admit, Stage, RecordInv
  <2>4. stages' = [Lifecycle!Without(S) EXCEPT ![t] = "pending"]
    <3>1. \A u \in Tasks \ {t} : Stage(u)' = Lifecycle!Without(S)[u]
      BY <1>1, <2>1, <2>2, <2>3 DEF Admit, Stage, Lifecycle!Without, TypeOK
    <3>2. Stage(t)' = "pending"
      BY <1>1, <2>1 DEF Admit, Stage, TypeOK
    <3> QED
      BY <3>1, <3>2 DEF Lifecycle!Without
  <2>5. Lifecycle!Admit(t, S)
    BY <2>2, <2>3, <2>4, SameCardinality DEF Lifecycle!Admit
  <2> QED
    BY <2>2, <2>5 DEF Lifecycle!Next
<1>2. ASSUME NEW t \in Tasks, Refuse(t) PROVE Lifecycle!Next
  <2>1. PICK T \in Purged : Cardinality(LiveIn(T)) >= MaxTasks /\ table' = T
    BY <1>2 DEF Refuse
  <2> DEFINE S == table \ T
  <2>2. /\ S \subseteq Lifecycle!Forgettable /\ Cardinality(Lifecycle!Live) >= MaxTasks
        /\ \A u \in S : submitter[u] \notin {"idle", "refused"}
        /\ T \subseteq table
    BY <2>1, PurgeForgets
  <2>3. stages[t] = "new" /\ t \notin table
    BY <1>2 DEF Refuse, Stage, RecordInv
  <2>4. stages' = [Lifecycle!Without(S) EXCEPT ![t] = "refused"]
    <3>1. \A u \in Tasks \ {t} : Stage(u)' = Lifecycle!Without(S)[u]
      BY <1>2, <2>1, <2>2, <2>3 DEF Refuse, Stage, Lifecycle!Without, TypeOK
    <3>2. Stage(t)' = "refused"
      BY <1>2, <2>1 DEF Refuse, Stage, TypeOK
    <3> QED
      BY <3>1, <3>2 DEF Lifecycle!Without
  <2>5. Lifecycle!Refuse(t, S)
    BY <2>2, <2>3, <2>4, SameCardinality DEF Lifecycle!Refuse
  <2> QED
    BY <2>2, <2>5 DEF Lifecycle!Next
<1>3. ASSUME Poll PROVE Lifecycle!Next
  <2>1. PICK T \in Purged : table' = T
    BY <1>3 DEF Poll
  <2> DEFINE S == table \ T
  <2>2. /\ S \subseteq Lifecycle!Forgettable
        /\ \A u \in S : submitter[u] \notin {"idle", "refused"}
        /\ T \subseteq table
    BY <2>1, PurgeForgets
  <2>3. \A u \in Tasks : Stage(u)' = Lifecycle!Without(S)[u]
    BY <1>3, <2>1, <2>2 DEF Poll, Stage, Lifecycle!Without
  <2>4. Lifecycle!Forget(S)
    BY <2>3 DEF Lifecycle!Forget, Lifecycle!Without
  <2> QED
    BY <2>2, <2>4 DEF Lifecycle!Next
<1>4. ASSUME NEW t \in Tasks, Start(t) PROVE [Lifecycle!Next]_stages
  <2>1. status[t] = "pending" /\ t \in table /\ submitter[t] \in {"queued", "done"}
    BY <1>4 DEF Start, RecordInv, LiveAreListed, Live, TypeOK
  <2>2. Stage(t) = "pending" /\ Stage(t)' = "running"
    BY <1>4, <2>1 DEF Start, Stage, TypeOK
  <2>3. \A u \in Tasks \ {t} : Stage(u)' = Stage(u)
    BY <1>4 DEF Start, Stage, TypeOK
  <2>4. Lifecycle!Start(t)
    BY <2>2, <2>3 DEF Lifecycle!Start
  <2> QED
    BY <2>4 DEF Lifecycle!Next
<1>5. ASSUME NEW t \in Tasks, Settle(t) PROVE [Lifecycle!Next]_stages
  <2>1. CASE status[t] = "cancelled"
    BY <1>5, <2>1 DEF Settle, Stage, TypeOK
  <2>2. CASE status[t] = "running"
    <3>1. t \in table /\ submitter[t] \in {"queued", "done"}
      BY <1>5, <2>2 DEF Settle, RecordInv, LiveAreListed, Live
    <3>2. PICK s \in {"succeeded", "failed"} : status' = [status EXCEPT ![t] = s]
      BY <1>5, <2>2 DEF Settle, TypeOK
    <3>3. Stage(t) = "running" /\ Stage(t)' = s
      BY <1>5, <2>2, <3>1, <3>2 DEF Settle, Stage, TypeOK
    <3>4. \A u \in Tasks \ {t} : Stage(u)' = Stage(u)
      BY <1>5 DEF Settle, Stage, TypeOK
    <3>5. Lifecycle!End(t)
      BY <3>3, <3>4 DEF Lifecycle!End
    <3> QED
      BY <3>5 DEF Lifecycle!Next
  <2> QED
    BY <1>5, <2>1, <2>2 DEF Settle, RecordInv
<1>6. ASSUME NEW t \in Tasks, Cancel(t) PROVE [Lifecycle!Next]_stages
  <2>1. submitter[t] \notin {"idle", "refused"} /\ t \in table
    BY <1>6 DEF Cancel, RecordInv
  <2>2. Stage(t) \in {"pending", "running"} /\ Stage(t)' = "cancelled"
    BY <1>6, <2>1 DEF Cancel, Stage, TypeOK
  <2>3. \A u \in Tasks \ {t} : Stage(u)' = Stage(u)
    BY <1>6 DEF Cancel, Stage, TypeOK
  <2>4. Lifecycle!Cancel(t)
    BY <2>2, <2>3 DEF Lifecycle!Cancel
  <2> QED
    BY <2>4 DEF Lifecycle!Next
<1>7. ASSUME NEW t \in Tasks,
             FindNoExecutor(t) \/ BuildExecutor(t) \/ Enqueue(t) \/ KeepFuture(t)
      PROVE  UNCHANGED stages
  BY <1>7 DEF FindNoExecutor, BuildExecutor, Enqueue, KeepFuture, Stage, TypeOK
<1>8. ASSUME NEW t \in Tasks, Take(t) \/ Skip(t) \/ Finish(t) \/ Revoke(t)
      PROVE  UNCHANGED stages
  BY <1>8 DEF Take, Skip, Finish, Revoke, Stage
<1>9. ASSUME Tick \/ UNCHANGED vars PROVE UNCHANGED stages
  BY <1>9 DEF Tick, vars, Stage
<1> QED
  BY <1>1, <1>2, <1>3, <1>4, <1>5, <1>6, <1>7, <1>8, <1>9 DEF Next

\* AsyncTaskManager implements TaskLifecycle.
THEOREM QueueImplementsLifecycle == Spec => ImplementsLifecycle
<1>1. Init => Lifecycle!Init
  BY DEF Init, Lifecycle!Init, Stage
<1>2. QueueInv /\ [Next]_vars => [Lifecycle!Next]_stages
  BY LifecycleStep DEF QueueInv
<1> QED
  BY <1>1, <1>2, QueueInvariant, PTL DEF Spec, ImplementsLifecycle, Lifecycle!Spec, stages
=============================================================================
