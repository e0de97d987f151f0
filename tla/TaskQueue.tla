----------------------------- MODULE TaskQueue -----------------------------
(***************************************************************************)
(* The database task queue and the Worker processes that drain it          *)
(* (net/inspections/queue.py, state.py, worker.py, executor.py).           *)
(*                                                                         *)
(* A TaskRun row owns TaskTargetRun rows.  Web requests enqueue and cancel *)
(* tasks.  A Worker process claims one task at a time under a database     *)
(* lease, runs its targets in a bounded thread pool, renews the lease from *)
(* its main thread and closes the task when every target is terminal.  A   *)
(* task whose lease has expired is recovered by any Worker.                *)
(*                                                                         *)
(* Every action is one database transaction or one step of a Worker's      *)
(* memory.  A Worker is a process incarnation: default_worker_id draws a   *)
(* fresh uuid, so a restarted process is another member of Workers.        *)
(***************************************************************************)
EXTENDS Naturals, FiniteSets

CONSTANTS
  Tasks,              \* TaskRun rows that may be created
  Targets,            \* TaskTargetRun rows
  TaskOf,             \* the immutable task foreign key of each target
  Scopes,             \* scope keys: a kind of task, its profile and its targets
  Workers,            \* Worker process incarnations
  Reliable,           \* the Workers that neither crash nor are stopped
  MAX_TASK_ATTEMPTS,
  MaxWorkers,         \* size of the thread pool, TaskWorker._max_workers
  NoTask, NoWorker,   \* NULL foreign key, empty worker_id
  NoScope             \* the scope of a row that does not exist

ASSUME TaskQueueAssumption ==
  /\ IsFiniteSet(Targets)
  /\ TaskOf \in [Targets -> Tasks]
  /\ \A t \in Tasks : \E x \in Targets : TaskOf[x] = t
  /\ Reliable \subseteq Workers
  /\ MAX_TASK_ATTEMPTS \in Nat \ {0}
  /\ MaxWorkers \in Nat \ {0}
  /\ NoTask \notin Tasks
  /\ NoWorker \notin Workers

VARIABLES
  \* TaskRun columns
  status, scope_key, worker_id, lease, attempt_count, counts,
  ahead,              \* the queued tasks that sort before a queued task by
                      \* available_at, created_at
  \* TaskTargetRun status, and the number of inspection records of each target
  target_status, records,
  \* memory of each Worker process
  pc, claimed, generation, remaining, lost_lease, stop_event, saw_live,
  threads             \* the pool invocations of _run_target that have not ended

taskVars   == <<status, scope_key, worker_id, lease, attempt_count, counts, ahead>>
targetVars == <<target_status, records>>
workerVars == <<pc, claimed, generation, remaining, lost_lease, stop_event,
                saw_live>>
vars == <<taskVars, targetVars, workerVars, threads>>

ACTIVE_STATUSES   == {"queued", "running"}
TERMINAL_STATUSES == {"success", "partial", "failed", "cancelled"}
Status            == ACTIVE_STATUSES \cup TERMINAL_STATUSES
Outcome           == {"success", "partial", "failed"}   \* RecordStatus

Count  == 0 .. Cardinality(Targets)
Counts == [completed : Count, successful : Count, failed : Count]
Thread == [worker : Workers, target : Targets,
           gen : 1 .. MAX_TASK_ATTEMPTS, pc : {"submitted", "collecting"}]

TargetsOf(t) == {x \in Targets : TaskOf[x] = t}

-----------------------------------------------------------------------------
(* Pure helpers of queue.py and state.py; st is a target-status function.  *)

AllTerminal(t, st) == \A x \in TargetsOf(t) : st[x] \in TERMINAL_STATUSES

CountOf(t, st, S) == Cardinality({x \in TargetsOf(t) : st[x] \in S})

\* state.save_target recomputes the counters from the rows: failed is whatever
\* is complete and not a success.
target_progress(t, st) ==
  [completed  |-> CountOf(t, st, TERMINAL_STATUSES),
   successful |-> CountOf(t, st, {"success"}),
   failed     |-> CountOf(t, st, TERMINAL_STATUSES \ {"success"})]

\* _cancel_task_once counts a cancelled target as neither success nor failure.
cancel_progress(t, st) ==
  [completed  |-> CountOf(t, st, Status),
   successful |-> CountOf(t, st, {"success"}),
   failed     |-> CountOf(t, st, {"failed", "partial"})]

\* The status _finish_locked gives a task all of whose targets are terminal.
finished_status(t, st) ==
  IF \A x \in TargetsOf(t) : st[x] = "success" THEN "success"
  ELSE IF \E x \in TargetsOf(t) : st[x] \in {"success", "partial"}
       THEN "partial" ELSE "failed"

\* executor._has_live_lease
has_live_lease(t, w) ==
  /\ status[t] = "running"
  /\ worker_id[t] = w
  /\ lease[t] = "live"

\* worker._Cancellation.is_set
lease_guard(w) == lost_lease[w] \/ stop_event[w]

\* The invocations the main thread of w still waits for.
pending(w) == {h \in threads : h.worker = w}

Queued  == {t \in Tasks : status[t] = "queued"}
\* Mutant: only leases that may still be retried are recovered.
Expired_Retryable == {t \in Tasks : status[t] = "running" /\ lease[t] = "expired"
                                   /\ attempt_count[t] < MAX_TASK_ATTEMPTS}
Expired == {t \in Tasks : status[t] = "running" /\ lease[t] = "expired"}

Dequeued(order, t) == [u \in Tasks |-> IF u = t THEN {} ELSE order[u] \ {t}]

-----------------------------------------------------------------------------
Init ==
  /\ status = [t \in Tasks |-> "absent"]
  /\ scope_key = [t \in Tasks |-> NoScope]
  /\ worker_id = [t \in Tasks |-> NoWorker]
  /\ lease = [t \in Tasks |-> "none"]
  /\ attempt_count = [t \in Tasks |-> 0]
  /\ counts = [t \in Tasks |-> [completed |-> 0, successful |-> 0, failed |-> 0]]
  /\ ahead = [t \in Tasks |-> {}]
  /\ target_status = [x \in Targets |-> "absent"]
  /\ records = [x \in Targets |-> 0]
  /\ pc = [w \in Workers |-> "idle"]
  /\ claimed = [w \in Workers |-> NoTask]
  /\ generation = [w \in Workers |-> 0]
  /\ remaining = [w \in Workers |-> {}]
  /\ lost_lease = [w \in Workers |-> FALSE]
  /\ stop_event = [w \in Workers |-> FALSE]
  /\ saw_live = [w \in Workers |-> FALSE]
  /\ threads = {}

-----------------------------------------------------------------------------
(* Web requests.                                                           *)

\* _enqueue_task: refuses a scope that already has an active task (the query
\* and the unique active_scope_key behind it), else creates the queued rows.
Enqueue(t, key) ==
  /\ status[t] = "absent"
  /\ ~ \E u \in Tasks : scope_key[u] = key /\ status[u] \in ACTIVE_STATUSES
  /\ status' = [status EXCEPT ![t] = "queued"]
  /\ scope_key' = [scope_key EXCEPT ![t] = key]
  /\ ahead' = [ahead EXCEPT ![t] = Queued]
  /\ target_status' = [x \in Targets |->
                         IF TaskOf[x] = t THEN "queued" ELSE target_status[x]]
  /\ UNCHANGED <<worker_id, lease, attempt_count, counts, records, workerVars,
                 threads>>

\* _cancel_task_once: every unfinished target and the task become cancelled and
\* the lease is dropped; worker_id stays.
CancelledTargets(t) ==
  [x \in Targets |->
     IF TaskOf[x] = t /\ target_status[x] \notin TERMINAL_STATUSES
     THEN "cancelled" ELSE target_status[x]]

Cancel(t) ==
  /\ status[t] \in ACTIVE_STATUSES
  /\ target_status' = CancelledTargets(t)
  /\ status' = [status EXCEPT ![t] = "cancelled"]
  /\ counts' = [counts EXCEPT ![t] = cancel_progress(t, target_status')]
  /\ lease' = [lease EXCEPT ![t] = "none"]
  /\ ahead' = Dequeued(ahead, t)
  /\ UNCHANGED <<scope_key, worker_id, attempt_count, records, workerVars, threads>>

-----------------------------------------------------------------------------
(* Lease recovery and claiming, by an idle Worker (run_once).              *)

\* Mutant: the retry limit is forgotten.
recovered_target_Unlimited(x) ==
  IF target_status[x] \in TERMINAL_STATUSES THEN target_status[x] ELSE "queued"

\* Mutant: the running targets of a requeued task are not reset.
recovered_target_NoReset(x) ==
  IF attempt_count[TaskOf[x]] >= MAX_TASK_ATTEMPTS
     /\ target_status[x] \notin TERMINAL_STATUSES
  THEN "failed" ELSE target_status[x]

\* Mutant: a lost attempt is never retried.
recovered_target_NoRetry(x) ==
  IF target_status[x] \in TERMINAL_STATUSES THEN target_status[x] ELSE "failed"

\* _recover_expired_locked on one target of an expired task.
recovered_target(x) ==
  IF target_status[x] \in TERMINAL_STATUSES THEN target_status[x]
  ELSE IF attempt_count[TaskOf[x]] >= MAX_TASK_ATTEMPTS THEN "failed"
  ELSE "queued"

\* The target statuses and the task columns once the expired tasks R have been
\* recovered: closed when all their targets are terminal, requeued otherwise.
RecoveredTargets(R) ==
  [x \in Targets |-> IF TaskOf[x] \in R THEN recovered_target(x)
                                        ELSE target_status[x]]

RecoveredStatus(R) ==
  LET st == RecoveredTargets(R)
  IN [t \in Tasks |-> IF t \notin R THEN status[t]
                      ELSE IF AllTerminal(t, st) THEN finished_status(t, st)
                      ELSE "queued"]

RecoveredCounts(R) ==
  [t \in Tasks |->
     IF t \in R /\ AllTerminal(t, RecoveredTargets(R))
     THEN target_progress(t, RecoveredTargets(R)) ELSE counts[t]]

\* A requeued task gets available_at = now and so sorts behind what was queued.
\* Tasks requeued together tie, and the tie (created_at, pk) is left open.
RecoveredAhead(R) ==
  [t \in Tasks |-> IF t \in R /\ RecoveredStatus(R)[t] = "queued"
                   THEN Queued ELSE ahead[t]]

\* recover_expired_tasks.  The clock is read before the rows are locked, so a
\* lease that expired in between is left for the next call: R is any part.
Recover(w, R) ==
  /\ pc[w] = "idle" /\ ~stop_event[w]
  /\ R # {}
  /\ target_status' = RecoveredTargets(R)
  /\ status' = RecoveredStatus(R)
  /\ counts' = RecoveredCounts(R)
  /\ ahead' = RecoveredAhead(R)
  /\ worker_id' = [t \in Tasks |-> IF t \in R /\ status'[t] = "queued"
                                   THEN NoWorker ELSE worker_id[t]]
  /\ lease' = [t \in Tasks |-> IF t \in R THEN "none" ELSE lease[t]]
  /\ UNCHANGED <<scope_key, attempt_count, records, workerVars, threads>>

\* claim_next_task: recovers, then takes the oldest queued task, which may be
\* one recovered by the same transaction.
Claim(w, R, t) ==
  /\ pc[w] = "idle" /\ ~stop_event[w]
  /\ RecoveredStatus(R)[t] = "queued"
  /\ RecoveredAhead(R)[t] = {}
  /\ target_status' = RecoveredTargets(R)
  /\ counts' = RecoveredCounts(R)
  /\ ahead' = Dequeued(RecoveredAhead(R), t)
  /\ status' = [RecoveredStatus(R) EXCEPT ![t] = "running"]
  /\ worker_id' = [u \in Tasks |-> IF u = t THEN w
                                   ELSE IF u \in R /\ status'[u] = "queued"
                                   THEN NoWorker ELSE worker_id[u]]
  /\ lease' = [u \in Tasks |-> IF u = t THEN "live"
                               ELSE IF u \in R THEN "none" ELSE lease[u]]
  /\ attempt_count' = [attempt_count EXCEPT ![t] = @ + 1]
  /\ pc' = [pc EXCEPT ![w] = "claimed"]
  /\ claimed' = [claimed EXCEPT ![w] = t]
  /\ generation' = [generation EXCEPT ![w] = attempt_count[t] + 1]
  /\ UNCHANGED <<scope_key, records, remaining, lost_lease, stop_event, saw_live,
                 threads>>

-----------------------------------------------------------------------------
(* The main thread of a Worker: _execute_claimed_task.                     *)

\* The list of queued targets is read after the claim has committed.
LoadTargets(w) ==
  /\ pc[w] = "claimed"
  /\ pc' = [pc EXCEPT ![w] = "running"]
  /\ remaining' = [remaining EXCEPT ![w] =
                     {x \in TargetsOf(claimed[w]) : target_status[x] = "queued"}]
  /\ UNCHANGED <<taskVars, targetVars, claimed, generation, lost_lease,
                 stop_event, saw_live, threads>>

\* submit_available hands one more target to the pool.
Submit(w, x) ==
  /\ pc[w] = "running" /\ ~lease_guard(w)
  /\ x \in remaining[w]
  /\ Cardinality(pending(w)) < MaxWorkers
  /\ remaining' = [remaining EXCEPT ![w] = @ \ {x}]
  /\ threads' = threads \cup {[worker |-> w, target |-> x,
                               gen |-> generation[w], pc |-> "submitted"]}
  /\ UNCHANGED <<taskVars, targetVars, pc, claimed, generation,
                 lost_lease, stop_event, saw_live>>

\* The heartbeat.  renew_lease extends the lease of its live owner, which leaves
\* the lease live and is no step here (Expire says when no renewal came in time);
\* a refusal sets the guard.
Renew(w) ==
  /\ pc[w] = "running" /\ ~lease_guard(w) /\ pending(w) # {}
  /\ ~has_live_lease(claimed[w], w)
  /\ lost_lease' = [lost_lease EXCEPT ![w] = TRUE]
  /\ UNCHANGED <<taskVars, targetVars, pc, claimed, generation,
                 remaining, stop_event, saw_live, threads>>

\* The heartbeat raises (database unreachable or busy): 'except BaseException'
\* sets the guard before the pool is shut down.
HeartbeatError(w) ==
  /\ pc[w] = "running" /\ ~lease_guard(w) /\ pending(w) # {}
  /\ lost_lease' = [lost_lease EXCEPT ![w] = TRUE]
  /\ UNCHANGED <<taskVars, targetVars, pc, claimed, generation,
                 remaining, stop_event, saw_live, threads>>

\* Mutant: the main loop leaves once everything is submitted.
Drained_NoWait(w) == remaining[w] = {} \/ lease_guard(w)

\* Mutant: targets that were never submitted are waited for after lease loss.
Drained_All(w) == pending(w) = {} /\ remaining[w] = {}

\* The pool is drained, executor.shutdown(wait=True) included.
Drained(w) == pending(w) = {} /\ (remaining[w] = {} \/ lease_guard(w))

\* With the guard set the Worker leaves the task to lease recovery.
Abandon(w) ==
  /\ pc[w] = "running" /\ Drained(w) /\ lease_guard(w)
  /\ pc' = [pc EXCEPT ![w] = "idle"]
  /\ claimed' = [claimed EXCEPT ![w] = NoTask]
  /\ generation' = [generation EXCEPT ![w] = 0]
  /\ remaining' = [remaining EXCEPT ![w] = {}]
  /\ lost_lease' = [lost_lease EXCEPT ![w] = FALSE]
  /\ UNCHANGED <<taskVars, targetVars, stop_event, saw_live, threads>>

\* The main thread raises outside the loop over the pool (the database is away when
\* the targets are listed or the task is closed): the task is left to recovery.
MainError(w) ==
  /\ pc[w] \in {"claimed", "finishing"}
  /\ pc' = [pc EXCEPT ![w] = "idle"]
  /\ claimed' = [claimed EXCEPT ![w] = NoTask]
  /\ generation' = [generation EXCEPT ![w] = 0]
  /\ remaining' = [remaining EXCEPT ![w] = {}]
  /\ saw_live' = [saw_live EXCEPT ![w] = FALSE]
  /\ UNCHANGED <<taskVars, targetVars, lost_lease, stop_event, threads>>

\* finish_task reads the clock before it locks the task row.
FinishRead(w) ==
  /\ pc[w] = "running" /\ Drained(w) /\ ~lease_guard(w)
  /\ pc' = [pc EXCEPT ![w] = "finishing"]
  /\ saw_live' = [saw_live EXCEPT ![w] = lease[claimed[w]] = "live"]
  /\ UNCHANGED <<taskVars, targetVars, claimed, generation, remaining,
                 lost_lease, stop_event, threads>>

\* Mutant: unfinished targets are not refused.
CanFinish_Unfinished(w, t) ==
  /\ status[t] = "running" /\ worker_id[t] = w
  /\ lease[t] = "live" \/ (lease[t] = "expired" /\ saw_live[w])

\* finish_task's test of the locked row, with the lease compared to the time
\* read before, and _finish_locked's refusal of unfinished targets.
CanFinish(w, t) ==
  /\ status[t] = "running"
  /\ worker_id[t] = w
  /\ lease[t] = "live" \/ (lease[t] = "expired" /\ saw_live[w])
  /\ AllTerminal(t, target_status)

FinishCommit(w) ==
  LET t == claimed[w]
  IN /\ pc[w] = "finishing"
     /\ IF CanFinish(w, t)
        THEN /\ status' = [status EXCEPT ![t] = finished_status(t, target_status)]
             /\ counts' = [counts EXCEPT ![t] = target_progress(t, target_status)]
             /\ lease' = [lease EXCEPT ![t] = "none"]
        ELSE UNCHANGED <<status, counts, lease>>
     /\ pc' = [pc EXCEPT ![w] = "idle"]
     /\ claimed' = [claimed EXCEPT ![w] = NoTask]
     /\ generation' = [generation EXCEPT ![w] = 0]
     /\ saw_live' = [saw_live EXCEPT ![w] = FALSE]
     /\ UNCHANGED <<scope_key, worker_id, attempt_count, ahead,
                    targetVars, remaining, lost_lease, stop_event, threads>>

-----------------------------------------------------------------------------
(* A pool thread: _run_target and execute_target.                          *)

CanBegin(h) ==
  /\ ~lease_guard(h.worker)
  /\ has_live_lease(TaskOf[h.target], h.worker)
  /\ target_status[h.target] = "queued"

\* _begin_target
BeginTarget(h) ==
  /\ h.pc = "submitted"
  /\ CanBegin(h)
  /\ target_status' = [target_status EXCEPT ![h.target] = "running"]
  /\ threads' = (threads \ {h}) \cup {[h EXCEPT !.pc = "collecting"]}
  /\ UNCHANGED <<taskVars, records, workerVars>>

\* Mutant: only the in-memory guard is consulted.
CanPersist_GuardOnly(h) == ~lease_guard(h.worker)

CanPersist(h) ==
  /\ ~lease_guard(h.worker)
  /\ has_live_lease(TaskOf[h.target], h.worker)
  /\ target_status[h.target] = "running"

\* _persist_collection (also behind persist_execution_failure): one record, the
\* terminal status and the counters of the running task, in one transaction
\* that rolls back unless the lease is still live at its end.
Persist(h, outcome) ==
  /\ h.pc = "collecting"
  /\ CanPersist(h)
  /\ records' = [records EXCEPT ![h.target] = @ + 1]
  /\ target_status' = [target_status EXCEPT ![h.target] = outcome]
  /\ counts' = [counts EXCEPT ![TaskOf[h.target]] =
                  target_progress(TaskOf[h.target], target_status')]
  /\ threads' = threads \ {h}
  /\ UNCHANGED <<status, scope_key, worker_id, lease, attempt_count, ahead,
                 workerVars>>

\* The fence refuses the thread: _run_target returns without writing.
Refused(h) ==
  /\ h.pc = "submitted" => ~CanBegin(h)
  /\ h.pc = "collecting" => ~CanPersist(h)
  /\ threads' = threads \ {h}
  /\ UNCHANGED <<taskVars, targetVars, workerVars>>

\* The executor raises and so does its failure path (the database is away):
\* _run_target returns None and the target stays recoverable.
ThreadError(h) ==
  /\ threads' = threads \ {h}
  /\ UNCHANGED <<taskVars, targetVars, workerVars>>

-----------------------------------------------------------------------------
(* The environment: time, service stop, process death.                     *)

Expire(t) ==
  /\ status[t] = "running" /\ lease[t] = "live"
  /\ lease' = [lease EXCEPT ![t] = "expired"]
  /\ UNCHANGED <<status, scope_key, worker_id, attempt_count, ahead,
                 counts, targetVars, workerVars, threads>>

Stop(w) ==
  /\ w \notin Reliable /\ pc[w] # "dead" /\ ~stop_event[w]
  /\ stop_event' = [stop_event EXCEPT ![w] = TRUE]
  /\ UNCHANGED <<taskVars, targetVars, pc, claimed, generation,
                 remaining, lost_lease, saw_live, threads>>

Crash(w) ==
  /\ w \notin Reliable /\ pc[w] # "dead"
  /\ pc' = [pc EXCEPT ![w] = "dead"]
  /\ claimed' = [claimed EXCEPT ![w] = NoTask]
  /\ generation' = [generation EXCEPT ![w] = 0]
  /\ remaining' = [remaining EXCEPT ![w] = {}]
  /\ lost_lease' = [lost_lease EXCEPT ![w] = FALSE]
  /\ stop_event' = [stop_event EXCEPT ![w] = FALSE]
  /\ saw_live' = [saw_live EXCEPT ![w] = FALSE]
  /\ threads' = threads \ pending(w)
  /\ UNCHANGED <<taskVars, targetVars>>

-----------------------------------------------------------------------------
RecoverAny(w) == \E R \in SUBSET Expired : Recover(w, R)
ClaimAny(w)   == \E R \in SUBSET Expired, t \in Tasks : Claim(w, R, t)

MainStep(w) ==
  \/ LoadTargets(w)
  \/ \E x \in Targets : Submit(w, x)
  \/ Renew(w)
  \/ HeartbeatError(w)
  \/ Abandon(w)
  \/ MainError(w)
  \/ FinishRead(w)
  \/ FinishCommit(w)

ThreadStep(h) ==
  \/ BeginTarget(h)
  \/ \E outcome \in Outcome : Persist(h, outcome)
  \/ Refused(h)
  \/ ThreadError(h)

Next ==
  \/ \E t \in Tasks : \/ \E key \in Scopes : Enqueue(t, key)
                      \/ Cancel(t) \/ Expire(t)
  \/ \E w \in Workers : \/ RecoverAny(w) \/ ClaimAny(w)
                        \/ MainStep(w)
                        \/ Stop(w) \/ Crash(w)
  \/ \E h \in threads : ThreadStep(h)

Spec == Init /\ [][Next]_vars

\* Collection calls are bounded by protocol timeouts and the main loop polls, so
\* a Worker that does not die keeps taking the steps open to it.  Time passes:
\* a lease nobody can renew any more expires.
Renewing(t) == \E w \in Workers : claimed[w] = t /\ worker_id[t] = w
                                   /\ pc[w] \in {"claimed", "running"}

Fairness ==
  /\ \A w \in Workers :
       /\ WF_vars(ClaimAny(w)) /\ WF_vars(RecoverAny(w))
       /\ WF_vars(LoadTargets(w)) /\ WF_vars(\E x \in Targets : Submit(w, x))
       /\ WF_vars(Abandon(w)) /\ WF_vars(FinishRead(w)) /\ WF_vars(FinishCommit(w))
  /\ \A w \in Workers, x \in Targets :
       WF_vars(\E h \in threads : h.worker = w /\ h.target = x /\ ThreadStep(h))
  /\ \A t \in Tasks : WF_vars(~Renewing(t) /\ Expire(t))

FairSpec == Spec /\ Fairness

\* The refinement mapping: the columns are those of the abstract task, and leases,
\* heartbeats, Workers and threads are hidden.  The executor of a task in general
\* breaks nothing off; that of a directory operation does, see DomainOperations.
Lifecycle == INSTANCE TaskLifecycle
               WITH task_of <- TaskOf, abortable <- {},
                    status <- status, attempt_count <- attempt_count,
                    target_status <- target_status

-----------------------------------------------------------------------------
(* Properties.                                                             *)

\* Every column and every Worker's memory keeps its type; no task is ever
\* claimed more than MAX_TASK_ATTEMPTS times.
TypeOK ==
  /\ status \in [Tasks -> Status \cup {"absent"}]
  /\ scope_key \in [Tasks -> Scopes \cup {NoScope}]
  /\ worker_id \in [Tasks -> Workers \cup {NoWorker}]
  /\ lease \in [Tasks -> {"none", "live", "expired"}]
  /\ attempt_count \in [Tasks -> 0 .. MAX_TASK_ATTEMPTS]
  /\ ahead \in [Tasks -> SUBSET Tasks]
  /\ counts \in [Tasks -> Counts]
  /\ target_status \in [Targets -> Status \cup {"absent"}]
  /\ records \in [Targets -> Nat]
  /\ pc \in [Workers -> {"idle", "claimed", "running", "finishing", "dead"}]
  /\ claimed \in [Workers -> Tasks \cup {NoTask}]
  /\ generation \in [Workers -> 0 .. MAX_TASK_ATTEMPTS]
  /\ remaining \in [Workers -> SUBSET Targets]
  /\ lost_lease \in [Workers -> BOOLEAN]
  /\ stop_event \in [Workers -> BOOLEAN]
  /\ saw_live \in [Workers -> BOOLEAN]
  /\ threads \in SUBSET Thread

\* A pool thread that the fence of _persist_collection would let write belongs to
\* the claim that is current: a thread left over from an earlier claim, of this
\* or of another Worker, never publishes into a later one, although the executor
\* compares worker_id only and not the attempt.
PublisherIsCurrent ==
  \A h \in threads :
    h.pc = "collecting" /\ CanPersist(h)
      => h.gen = attempt_count[TaskOf[h.target]]

\* For one scope at most one task can still publish results, also while a
\* cancelled task's threads are running and its successor has been claimed.
ScopeHasOnePublisher ==
  \A g, h \in threads :
    /\ g.pc = "collecting" /\ CanPersist(g) /\ h.pc = "collecting" /\ CanPersist(h)
    /\ scope_key[TaskOf[g.target]] = scope_key[TaskOf[h.target]]
    => TaskOf[g.target] = TaskOf[h.target]

\* Only a running task has a running target and only a cancelled one a cancelled
\* target: recovery, cancellation and closing leave no target behind that nobody
\* executes, and cancellation takes the task and its targets together.
OnlyRunningTasksRun ==
  \A x \in Targets :
    /\ target_status[x] = "running" => status[TaskOf[x]] = "running"
    /\ target_status[x] = "cancelled" => status[TaskOf[x]] = "cancelled"

\* A target has an inspection record exactly when a collection was published for
\* it, and never more than one: none while active or after cancellation, one
\* after success or partial, at most one after failure (recovery fails a target
\* without a record).
RecordsMatchStatus ==
  \A x \in Targets :
    /\ records[x] <= 1
    /\ target_status[x] \in {"success", "partial"} => records[x] = 1
    /\ target_status[x] \notin Outcome => records[x] = 0

\* The summary on a task row never disagrees with its target rows: progress is
\* exact while the task is active, and a closed task has only terminal targets
\* and the status and counters that follow from them.
SummaryMatchesTargets ==
  \A t \in Tasks :
    LET n(S) == CountOf(t, target_status, S)
        all  == Cardinality(TargetsOf(t))
    IN /\ counts[t].completed = n(TERMINAL_STATUSES)
       /\ counts[t].successful = n({"success"})
       /\ counts[t].failed = n({"failed", "partial"})
       /\ status[t] \in TERMINAL_STATUSES => counts[t].completed = all
       /\ status[t] = "success" => counts[t].successful = all
       /\ status[t] = "failed" => n({"failed"}) = all
       /\ status[t] = "partial" => counts[t].failed > 0 /\ n({"failed"}) < all
       /\ status[t] # "cancelled" => n({"cancelled"}) = 0

\* What has ended stays as it ended: no later step of any Worker, of recovery or
\* of a second cancellation changes a terminal task, its counters, or a terminal
\* target and its record.
KeepsTerminal ==
  /\ \A t \in Tasks : status[t] \in TERMINAL_STATUSES
       => status'[t] = status[t] /\ counts'[t] = counts[t] /\ lease'[t] = lease[t]
  /\ \A x \in Targets : target_status[x] \in TERMINAL_STATUSES
       => target_status'[x] = target_status[x] /\ records'[x] = records[x]

TerminalIsFinal == [][KeepsTerminal]_vars

\* The queue, with its Workers, leases and threads, implements the life cycle of
\* a task: bounded attempts, one result per target, a verdict that follows from
\* the results, failure without a result only when no attempt is left.
ImplementsLifecycle == Lifecycle!Spec

\* Every task that was enqueued ends, whatever crashes, stops, lost heartbeats
\* and failed threads happen, as long as one Worker survives.
EnqueuedTaskEnds ==
  \A t \in Tasks : status[t] = "queued" ~> status[t] \in TERMINAL_STATUSES

\* A Worker that took a task comes back for the next one, also when the guard is
\* set while targets are still waiting for the pool.
WorkerReturns ==
  \A w \in Workers : pc[w] = "running" ~> pc[w] \in {"idle", "dead"}

-----------------------------------------------------------------------------
(* The parts of the inductive invariant that the proofs rest on.           *)

\* A task that can be claimed has an attempt left, and the rows of a task that
\* was not enqueued are untouched.
AttemptsLeft ==
  \A t \in Tasks :
    /\ status[t] = "queued" => attempt_count[t] < MAX_TASK_ATTEMPTS
    /\ status[t] = "absent" => /\ attempt_count[t] = 0
                               /\ \A x \in TargetsOf(t) : target_status[x] = "absent"

\* A busy Worker knows its task and the number of its claim, and what it has not
\* submitted are targets of that task.
BusyWorkers ==
  \A w \in Workers :
    /\ pc[w] \in {"claimed", "running", "finishing"} =>
         claimed[w] \in Tasks /\ generation[w] \in 1 .. MAX_TASK_ATTEMPTS
    /\ remaining[w] # {} =>
         pc[w] = "running" /\ remaining[w] \subseteq TargetsOf(claimed[w])

\* A pool thread belongs to the claim its Worker is executing: the pool has been
\* drained whenever the Worker is elsewhere.
ThreadsOfClaim ==
  \A h \in threads :
    /\ pc[h.worker] = "running"
    /\ claimed[h.worker] = TaskOf[h.target]
    /\ generation[h.worker] = h.gen

\* While a task still names a busy Worker as its owner, the Worker's claim is the
\* latest one.
OwnerIsLatest ==
  \A w \in Workers :
    /\ pc[w] \in {"claimed", "running", "finishing"}
    /\ status[claimed[w]] = "running"
    /\ worker_id[claimed[w]] = w
    => attempt_count[claimed[w]] = generation[w]

\* A scope has at most one active task: what the unique active_scope_key demands.
ActiveScopesUnique ==
  \A t, u \in Tasks :
    /\ status[t] \in ACTIVE_STATUSES /\ status[u] \in ACTIVE_STATUSES
    /\ scope_key[t] = scope_key[u]
    => t = u

IInv ==
  /\ TypeOK /\ AttemptsLeft /\ BusyWorkers /\ ThreadsOfClaim /\ OwnerIsLatest
  /\ OnlyRunningTasksRun /\ RecordsMatchStatus
=============================================================================
