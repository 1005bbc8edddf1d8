------------------------------ MODULE TaskQueue ------------------------------
(***************************************************************************)
(* AsyncTaskManager: the table of task records, its lock, the lazily built *)
(* thread pool, and the callers and workers that race on them.             *)
(*                                                                         *)
(* A task is one call of submit.  Every section of code under the lock is  *)
(* one action, and so is every step between two sections.  A record        *)
(* outlives its entry in the table (the closure _run holds it), so the     *)
(* status of a task is kept apart from the set of tasks in the table.      *)
(***************************************************************************)
EXTENDS Naturals, FiniteSets, Sequences

CONSTANTS
  Tasks,       \* calls of submit
  None,        \* no time, no pool
  MaxTasks,    \* max_tasks
  MaxWorkers,  \* max_workers
  ResultTTL,   \* result_ttl_seconds
  MaxTime      \* bound on the clock

ASSUME QueueAssumption ==
  /\ IsFiniteSet(Tasks)
  /\ MaxTasks \in Nat /\ MaxWorkers \in Nat \ {0}
  /\ ResultTTL \in Nat /\ MaxTime \in Nat
  /\ None \notin Nat \union Tasks

VARIABLES
  now,         \* time.time()
  table,       \* _tasks: the tasks whose record is in the table
  status,      \* record.status, from its insertion on
  created,     \* record.created_at
  finished,    \* record.finished_at
  submitter,   \* how far each call of submit is
  executor,    \* _executor: named after the call of submit that built it
  pool,        \* the pool whose queue each task was put on
  queue,       \* the work queue of each pool
  worker,      \* how far the pool is with each task
  revoking,    \* calls of cancel between the lock and future.cancel()
  settled      \* history: when the status became final

vars == <<now, table, status, created, finished, submitter, executor, pool,
          queue, worker, revoking, settled>>

Final == {"succeeded", "failed", "cancelled"}
Time == Nat \union {None}

TypeOK ==
  /\ now \in Nat
  /\ table \in SUBSET Tasks
  /\ status \in [Tasks -> {"none", "pending", "running"} \union Final]
  /\ created \in [Tasks -> Time] /\ finished \in [Tasks -> Time]
  /\ submitter \in [Tasks -> {"idle", "refused", "queueing", "building",
                              "queued", "done"}]
  /\ executor \in Tasks \union {None}
  /\ pool \in [Tasks -> Tasks \union {None}]
  /\ queue \in [Tasks -> Seq(Tasks)]
  /\ worker \in [Tasks -> {"none", "queued", "revoked", "taken", "running",
                           "settled", "done"}]
  /\ revoking \in SUBSET Tasks
  /\ settled \in [Tasks -> Time]
  /\ \A t \in Tasks : worker[t] # "none" => pool[t] # None

Init ==
  /\ now = 0 /\ table = {}
  /\ status = [t \in Tasks |-> "none"]
  /\ created = [t \in Tasks |-> None] /\ finished = [t \in Tasks |-> None]
  /\ submitter = [t \in Tasks |-> "idle"]
  /\ executor = None /\ pool = [t \in Tasks |-> None]
  /\ queue = [t \in Tasks |-> <<>>]
  /\ worker = [t \in Tasks |-> "none"]
  /\ revoking = {} /\ settled = [t \in Tasks |-> None]

-----------------------------------------------------------------------------
(* _purge_locked.                                                          *)

Expired == {t \in table : finished[t] # None /\ now > finished[t] + ResultTTL}
Kept == table \ Expired
Evictable == {t \in Kept : status[t] \in Final}

\* finished_at, or created_at while the worker has not set it yet.
Age(t) == IF finished[t] # None THEN finished[t] ELSE created[t]

\* Mutant: results expire as soon as the clock moves.
Purged_NoTTL == {{t \in table : finished[t] = None \/ now = finished[t]}}

\* What the table may be after a purge: expired records are gone, and while
\* there are more than MaxTasks the oldest finished one went (ties are broken
\* by the random task id).
Purged ==
  {Kept \ E : E \in
     {E \in SUBSET Evictable :
        /\ E = Evictable \/ Cardinality(Kept \ E) <= MaxTasks
        /\ E = {} \/ Cardinality(Kept \ E) >= MaxTasks
        /\ \A e \in E, k \in Evictable \ E : Age(e) <= Age(k)}}

-----------------------------------------------------------------------------
(* submit.                                                                 *)

LiveIn(T) == {t \in T : status[t] \in {"pending", "running"}}

\* Mutant: the cap on live tasks is off by one.
Admit_OffByOne(t) ==
  /\ submitter[t] = "idle"
  /\ \E T \in Purged :
       /\ Cardinality(LiveIn(T)) <= MaxTasks
       /\ table' = T \union {t}
  /\ status' = [status EXCEPT ![t] = "pending"]
  /\ created' = [created EXCEPT ![t] = now]
  /\ submitter' = [submitter EXCEPT ![t] = "queueing"]
  /\ UNCHANGED <<now, finished, executor, pool, queue, worker, revoking, settled>>

\* The section under the lock: purge, count the live tasks, insert a record.
Admit(t) ==
  /\ submitter[t] = "idle"
  /\ \E T \in Purged :
       /\ Cardinality(LiveIn(T)) < MaxTasks
       /\ table' = T \union {t}
  /\ status' = [status EXCEPT ![t] = "pending"]
  /\ created' = [created EXCEPT ![t] = now]
  /\ submitter' = [submitter EXCEPT ![t] = "queueing"]
  /\ UNCHANGED <<now, finished, executor, pool, queue, worker, revoking, settled>>

Refuse(t) ==
  /\ submitter[t] = "idle"
  /\ \E T \in Purged :
       /\ Cardinality(LiveIn(T)) >= MaxTasks
       /\ table' = T
  /\ submitter' = [submitter EXCEPT ![t] = "refused"]
  /\ UNCHANGED <<now, status, created, finished, executor, pool, queue,
                 worker, revoking, settled>>

\* _ensure_executor takes no lock: the test and the assignment are two steps,
\* and the attribute is read once more to be returned.
FindNoExecutor(t) ==
  /\ submitter[t] = "queueing" /\ executor = None
  /\ submitter' = [submitter EXCEPT ![t] = "building"]
  /\ UNCHANGED <<now, table, status, created, finished, executor, pool, queue,
                 worker, revoking, settled>>

BuildExecutor(t) ==
  /\ submitter[t] = "building"
  /\ executor' = t
  /\ submitter' = [submitter EXCEPT ![t] = "queueing"]
  /\ UNCHANGED <<now, table, status, created, finished, pool, queue, worker,
                 revoking, settled>>

\* Mutant: the attribute is returned without waiting for a pool.
Enqueue_NoPool(t) ==
  /\ submitter[t] = "queueing"
  /\ pool' = [pool EXCEPT ![t] = executor]
  /\ worker' = [worker EXCEPT ![t] = "queued"]
  /\ submitter' = [submitter EXCEPT ![t] = "queued"]
  /\ UNCHANGED <<now, table, status, created, finished, executor, queue,
                 revoking, settled>>

\* executor.submit(_run).
Enqueue(t) ==
  /\ submitter[t] = "queueing" /\ executor # None
  /\ pool' = [pool EXCEPT ![t] = executor]
  /\ queue' = [queue EXCEPT ![executor] = Append(@, t)]
  /\ worker' = [worker EXCEPT ![t] = "queued"]
  /\ submitter' = [submitter EXCEPT ![t] = "queued"]
  /\ UNCHANGED <<now, table, status, created, finished, executor, revoking,
                 settled>>

\* record.future is assigned, maybe after the worker started.
KeepFuture(t) ==
  /\ submitter[t] = "queued"
  /\ submitter' = [submitter EXCEPT ![t] = "done"]
  /\ UNCHANGED <<now, table, status, created, finished, executor, pool, queue,
                 worker, revoking, settled>>

-----------------------------------------------------------------------------
(* The pool and _run.                                                      *)

Busy(p) == {t \in Tasks : pool[t] = p /\ worker[t] \in {"taken", "running", "settled"}}

\* A free worker takes the first work item, and drops it if it was revoked.
Take(t) ==
  LET p == pool[t] IN
  /\ worker[t] \in {"queued", "revoked"}
  /\ queue[p] # <<>> /\ Head(queue[p]) = t /\ Cardinality(Busy(p)) < MaxWorkers
  /\ queue' = [queue EXCEPT ![p] = Tail(@)]
  /\ worker' = [worker EXCEPT ![t] = IF @ = "queued" THEN "taken" ELSE "done"]
  /\ UNCHANGED <<now, table, status, created, finished, submitter, executor,
                 pool, revoking, settled>>

\* Mutant: the worker does not look at the status before it starts.
Start_Unchecked(t) ==
  /\ worker[t] = "taken"
  /\ status' = [status EXCEPT ![t] = "running"]
  /\ worker' = [worker EXCEPT ![t] = "running"]
  /\ UNCHANGED <<now, table, created, finished, submitter, executor, pool,
                 queue, revoking, settled>>

Start(t) ==
  /\ worker[t] = "taken" /\ status[t] # "cancelled"
  /\ status' = [status EXCEPT ![t] = "running"]
  /\ worker' = [worker EXCEPT ![t] = "running"]
  /\ UNCHANGED <<now, table, created, finished, submitter, executor, pool,
                 queue, revoking, settled>>

Skip(t) ==
  /\ worker[t] = "taken" /\ status[t] = "cancelled"
  /\ worker' = [worker EXCEPT ![t] = "done"]
  /\ UNCHANGED <<now, table, status, created, finished, submitter, executor,
                 pool, queue, revoking, settled>>

\* Mutant: a job that raises leaves its record running.
Settle_IgnoresErrors(t) ==
  /\ worker[t] = "running"
  /\ \E outcome \in {"succeeded", "running"} :
       status' = [status EXCEPT ![t] = IF @ = "cancelled" THEN @ ELSE outcome]
  /\ settled' = [settled EXCEPT ![t] = IF status[t] = "cancelled" THEN @ ELSE now]
  /\ worker' = [worker EXCEPT ![t] = "settled"]
  /\ UNCHANGED <<now, table, created, finished, submitter, executor, pool,
                 queue, revoking>>

\* The job returned or raised.
Settle(t) ==
  /\ worker[t] = "running"
  /\ \E outcome \in {"succeeded", "failed"} :
       status' = [status EXCEPT ![t] = IF @ = "cancelled" THEN @ ELSE outcome]
  /\ settled' = [settled EXCEPT ![t] = IF status[t] = "cancelled" THEN @ ELSE now]
  /\ worker' = [worker EXCEPT ![t] = "settled"]
  /\ UNCHANGED <<now, table, created, finished, submitter, executor, pool,
                 queue, revoking>>

\* The finally clause takes the lock again; it overwrites the time of a cancel.
Finish(t) ==
  /\ worker[t] = "settled"
  /\ finished' = [finished EXCEPT ![t] = now]
  /\ worker' = [worker EXCEPT ![t] = "done"]
  /\ UNCHANGED <<now, table, status, created, submitter, executor, pool,
                 queue, revoking, settled>>

-----------------------------------------------------------------------------
(* cancel, status, list_tasks.                                             *)

Cancel(t) ==
  /\ t \in table /\ status[t] \in {"pending", "running"}
  /\ status' = [status EXCEPT ![t] = "cancelled"]
  /\ finished' = [finished EXCEPT ![t] = now]
  /\ settled' = [settled EXCEPT ![t] = now]
  /\ revoking' = IF status[t] = "pending" THEN revoking \union {t} ELSE revoking
  /\ UNCHANGED <<now, table, created, submitter, executor, pool, queue, worker>>

\* Outside the lock: future.cancel(), which does nothing when the future is
\* not assigned yet or a worker already has the item.
Revoke(t) ==
  /\ t \in revoking
  /\ revoking' = revoking \ {t}
  /\ worker' = [worker EXCEPT ![t] =
                  IF @ = "queued" /\ submitter[t] = "done" THEN "revoked" ELSE @]
  /\ UNCHANGED <<now, table, status, created, finished, submitter, executor,
                 pool, queue, settled>>

\* status and list_tasks purge and then only read.
Poll ==
  /\ table' \in Purged
  /\ UNCHANGED <<now, status, created, finished, submitter, executor, pool,
                 queue, worker, revoking, settled>>

Tick ==
  /\ now < MaxTime
  /\ now' = now + 1
  /\ UNCHANGED <<table, status, created, finished, submitter, executor, pool,
                 queue, worker, revoking, settled>>

-----------------------------------------------------------------------------
Submitting(t) == FindNoExecutor(t) \/ BuildExecutor(t) \/ Enqueue(t) \/ KeepFuture(t)
Working(t) == Take(t) \/ Start(t) \/ Skip(t) \/ Settle(t) \/ Finish(t)

Next ==
  \/ \E t \in Tasks :
       \/ Admit(t) \/ Refuse(t)
       \/ FindNoExecutor(t) \/ BuildExecutor(t) \/ Enqueue(t) \/ KeepFuture(t)
       \/ Take(t) \/ Start(t) \/ Skip(t) \/ Settle(t) \/ Finish(t)
       \/ Cancel(t) \/ Revoke(t)
  \/ Poll
  \/ Tick

Spec == Init /\ [][Next]_vars

\* Threads that can run do run, and a job ends (its RPCs time out, its file
\* walk is capped).  Nobody owes a cancel, a poll or a tick.
FairSpec == Spec /\ \A t \in Tasks : WF_vars(Submitting(t)) /\ WF_vars(Working(t))

-----------------------------------------------------------------------------
(* Properties.                                                             *)

Live == {t \in Tasks : status[t] \in {"pending", "running"}}

\* What the caller of the tools can tell of a task.
Stage(t) ==
  IF submitter[t] \in {"idle", "refused"}
  THEN IF submitter[t] = "idle" THEN "new" ELSE "refused"
  ELSE IF t \in table THEN status[t] ELSE "forgotten"

Lifecycle == INSTANCE TaskLifecycle WITH stage <- [t \in Tasks |-> Stage(t)]

\* The manager keeps the promise of TaskLifecycle: whatever the callers and
\* the workers do, a task cancelled before its start never starts, a final
\* status is never replaced, and only ended tasks are forgotten (_run, cancel,
\* _purge_locked).
ImplementsLifecycle == Lifecycle!Spec

\* No more than MaxTasks tasks are live, counting those in flight between the
\* sections of submit.
LiveCap == Cardinality(Live) <= MaxTasks

\* A task that is live keeps its entry, so its caller can poll and cancel it.
LiveAreListed == Live \subseteq table

\* The purge brings the table down to its cap without dropping a task its
\* caller still waits for: no more than MaxTasks are live, and all are listed.
LiveTasksAreKept == LiveCap /\ LiveAreListed

\* A result stays for ResultTTL after the task ended, unless the table
\* overflows.
ResultsAreRetained ==
  [][\A t \in table \ table' :
       Cardinality(table) > MaxTasks \/ now > settled[t] + ResultTTL]_vars

\* How a record, its entry in the table and its worker go together.
RecordInv ==
  \A t \in Tasks :
    /\ (status[t] = "none") <=> (submitter[t] \in {"idle", "refused"})
    /\ status[t] = "none" => t \notin table
    /\ worker[t] # "none" => submitter[t] \in {"queued", "done"}
    /\ worker[t] \in {"none", "queued", "taken"}
         => status[t] \in {"none", "pending", "cancelled"}
    /\ worker[t] = "revoked" => status[t] = "cancelled"
    /\ worker[t] = "running" => status[t] \in {"running", "cancelled"}
    /\ worker[t] \in {"settled", "done"} => status[t] \in Final
    /\ t \in revoking => status[t] = "cancelled"
    /\ finished[t] # None => status[t] \in Final

\* The inductive invariant behind LiveCap, LiveAreListed and the refinement.
QueueInv == TypeOK /\ RecordInv /\ LiveAreListed /\ LiveCap

\* The purge counts the TTL from finished_at, which is no earlier than the end
\* of the task: a worker that ends after a cancel sets it anew.
EndIsKnown ==
  \A t \in Tasks :
    /\ status[t] \in Final => settled[t] \in 0..now
    /\ finished[t] # None => settled[t] \in 0..finished[t]

\* The inductive invariant behind ResultsAreRetained.
RetentionInv == QueueInv /\ EndIsKnown

\* Every task that was admitted ends.
TasksEnd == \A t \in Tasks : status[t] = "pending" ~> status[t] \in Final

=============================================================================
