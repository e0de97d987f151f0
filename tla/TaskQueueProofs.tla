-------------------------- MODULE TaskQueueProofs --------------------------
(***************************************************************************)
(* Proofs about TaskQueue for every number of tasks, targets, Workers,     *)
(* attempts and pool threads.                                              *)
(***************************************************************************)
EXTENDS TaskQueue, FiniteSetTheorems, TLAPS

-----------------------------------------------------------------------------
(* Lemmas about the helpers.                                               *)

\* A count over the targets of a task fits the counter columns.
LEMMA CountOfType ==
  ASSUME NEW t, NEW st, NEW S
  PROVE  CountOf(t, st, S) \in Count
<1> DEFINE C == {x \in TargetsOf(t) : st[x] \in S}
<1>1. C \subseteq Targets
  BY DEF TargetsOf
<1>2. IsFiniteSet(Targets)
  BY TaskQueueAssumption
<1>3. IsFiniteSet(C) /\ Cardinality(C) <= Cardinality(Targets)
  BY <1>1, <1>2, FS_Subset
<1>4. Cardinality(C) \in Nat /\ Cardinality(Targets) \in Nat
  BY <1>2, <1>3, FS_CardinalityType
<1>5. Cardinality(C) \in Count
  BY <1>3, <1>4 DEF Count
<1> QED
  BY <1>5 DEF CountOf

\* The counters written by closing, publishing and cancelling are well typed.
LEMMA ProgressType ==
  ASSUME NEW t, NEW st
  PROVE  target_progress(t, st) \in Counts /\ cancel_progress(t, st) \in Counts
  BY CountOfType DEF target_progress, cancel_progress, Counts

\* _finish_locked gives one of the three outcomes.
LEMMA FinishedStatusType ==
  ASSUME NEW t, NEW st
  PROVE  finished_status(t, st) \in Outcome
  BY DEF finished_status, Outcome

\* What recovery does to the targets: those of other tasks and the terminal ones
\* are left alone, no recovered target stays running, and one that is queued
\* again belongs to a task with an attempt left.
LEMMA RecoveredTargetsFacts ==
  ASSUME TypeOK, NEW R \in SUBSET Expired
  PROVE  /\ RecoveredTargets(R) \in [Targets -> Status \cup {"absent"}]
         /\ \A x \in Targets :
              /\ TaskOf[x] \notin R => RecoveredTargets(R)[x] = target_status[x]
              /\ target_status[x] \in TERMINAL_STATUSES
                   => RecoveredTargets(R)[x] = target_status[x]
              /\ TaskOf[x] \in R /\ target_status[x] \notin TERMINAL_STATUSES
                   => \/ /\ RecoveredTargets(R)[x] = "queued"
                         /\ attempt_count[TaskOf[x]] < MAX_TASK_ATTEMPTS
                      \/ /\ RecoveredTargets(R)[x] = "failed"
                         /\ attempt_count[TaskOf[x]] >= MAX_TASK_ATTEMPTS
<1>1. \A x \in Targets : TaskOf[x] \in Tasks
  BY TaskQueueAssumption
<1>2. \A t \in Tasks : attempt_count[t] \in Nat
  BY TaskQueueAssumption DEF TypeOK
<1>3. MAX_TASK_ATTEMPTS \in Nat
  BY TaskQueueAssumption
<1> QED
  BY <1>1, <1>2, <1>3 DEF TypeOK, RecoveredTargets, recovered_target, Status,
     ACTIVE_STATUSES, TERMINAL_STATUSES

\* What recovery does to the tasks: a recovered task is closed or queued, and
\* queued only with an attempt left.
LEMMA RecoveredStatusFacts ==
  ASSUME TypeOK, NEW R \in SUBSET Expired
  PROVE  /\ RecoveredStatus(R) \in [Tasks -> Status \cup {"absent"}]
         /\ \A t \in Tasks \ R : RecoveredStatus(R)[t] = status[t]
         /\ \A t \in R : /\ t \in Tasks /\ status[t] = "running"
                         /\ RecoveredStatus(R)[t] \in Outcome \cup {"queued"}
                         /\ RecoveredStatus(R)[t] = "queued"
                              => attempt_count[t] < MAX_TASK_ATTEMPTS
                         /\ RecoveredStatus(R)[t] # "queued"
                              => AllTerminal(t, RecoveredTargets(R))
<1> DEFINE st == RecoveredTargets(R)
<1>1. R \subseteq Tasks /\ \A t \in R : status[t] = "running"
  BY DEF Expired
<1>2. \A t : finished_status(t, st) \in Outcome
  BY FinishedStatusType
<1>3. ASSUME NEW t \in R, ~AllTerminal(t, st)
      PROVE  attempt_count[t] < MAX_TASK_ATTEMPTS
  <2>1. PICK x \in TargetsOf(t) : st[x] \notin TERMINAL_STATUSES
    BY <1>3 DEF AllTerminal
  <2>2. x \in Targets /\ TaskOf[x] = t
    BY <2>1 DEF TargetsOf
  <2> QED
    BY <1>1, <2>1, <2>2, RecoveredTargetsFacts DEF TERMINAL_STATUSES
<1>4. "queued" \notin Outcome /\ Outcome \subseteq Status /\ "queued" \in Status
  BY DEF Outcome, Status, ACTIVE_STATUSES, TERMINAL_STATUSES
<1>5. RecoveredStatus(R) = [t \in Tasks |-> IF t \notin R THEN status[t]
                      ELSE IF AllTerminal(t, st) THEN finished_status(t, st)
                      ELSE "queued"]
  BY DEF RecoveredStatus
<1> HIDE DEF st
<1> QED
  BY <1>1, <1>2, <1>3, <1>4, <1>5 DEF TypeOK, st

\* The counters and the claim order after recovery are well typed.
LEMMA RecoveredOtherType ==
  ASSUME TypeOK, NEW R \in SUBSET Expired
  PROVE  /\ RecoveredCounts(R) \in [Tasks -> Counts]
         /\ RecoveredAhead(R) \in [Tasks -> SUBSET Tasks]
  BY ProgressType DEF TypeOK, RecoveredCounts, RecoveredAhead, Queued

-----------------------------------------------------------------------------
(* The inductive invariant, action by action.                              *)

\* Initially no row and no thread exists.
LEMMA InitIInv == Init => IInv
<1> SUFFICES ASSUME Init PROVE IInv
  OBVIOUS
<1>1. 0 \in Count
  BY TaskQueueAssumption, FS_CardinalityType DEF Count
<1>2. TypeOK
  BY <1>1, TaskQueueAssumption DEF Init, TypeOK, Counts
<1>3. AttemptsLeft
  BY TaskQueueAssumption DEF Init, AttemptsLeft, TargetsOf
<1>4. BusyWorkers /\ ThreadsOfClaim /\ OwnerIsLatest
  BY DEF Init, BusyWorkers, ThreadsOfClaim, OwnerIsLatest
<1>5. OnlyRunningTasksRun /\ RecordsMatchStatus
  BY DEF Init, OnlyRunningTasksRun, RecordsMatchStatus
<1> QED
  BY <1>2, <1>3, <1>4, <1>5 DEF IInv

\* Enqueue touches only an absent task, which no Worker can have claimed.
LEMMA EnqueueIInv ==
  ASSUME IInv, NEW t \in Tasks, NEW key \in Scopes, Enqueue(t, key)
  PROVE  IInv'
<1> USE DEF workerVars
<1>1. TypeOK'
  BY DEF IInv, TypeOK, Enqueue, Status, ACTIVE_STATUSES, Queued
<1>2. AttemptsLeft'
  BY TaskQueueAssumption DEF IInv, TypeOK, AttemptsLeft, Enqueue, TargetsOf
<1>3. BusyWorkers' /\ ThreadsOfClaim'
  BY DEF IInv, BusyWorkers, ThreadsOfClaim, Enqueue
<1>4. OwnerIsLatest'
  BY DEF IInv, TypeOK, BusyWorkers, OwnerIsLatest, Enqueue
<1>5. OnlyRunningTasksRun'
  BY TaskQueueAssumption DEF IInv, TypeOK, OnlyRunningTasksRun, Enqueue
<1>6. RecordsMatchStatus'
  BY DEF IInv, TypeOK, AttemptsLeft, RecordsMatchStatus, Enqueue, TargetsOf, Outcome
<1> QED
  BY <1>1, <1>2, <1>3, <1>4, <1>5, <1>6 DEF IInv

\* Cancel closes an active task together with its unfinished targets.
LEMMA CancelIInv ==
  ASSUME IInv, NEW t \in Tasks, Cancel(t)
  PROVE  IInv'
<1> USE DEF workerVars
<1>1. target_status' \in [Targets -> Status \cup {"absent"}]
  BY DEF IInv, TypeOK, Cancel, CancelledTargets, Status, TERMINAL_STATUSES
<1>2. counts' \in [Tasks -> Counts]
  BY ProgressType DEF IInv, TypeOK, Cancel
<1>3. TypeOK'
  BY <1>1, <1>2 DEF IInv, TypeOK, Cancel, Status, TERMINAL_STATUSES, Dequeued
<1>4. AttemptsLeft'
  BY TaskQueueAssumption DEF IInv, TypeOK, AttemptsLeft, Cancel, CancelledTargets, TargetsOf,
     ACTIVE_STATUSES
<1>5. BusyWorkers' /\ ThreadsOfClaim'
  BY DEF IInv, BusyWorkers, ThreadsOfClaim, Cancel
<1>6. OwnerIsLatest'
  BY DEF IInv, TypeOK, BusyWorkers, OwnerIsLatest, Cancel
<1>7. OnlyRunningTasksRun'
  BY TaskQueueAssumption DEF IInv, TypeOK, OnlyRunningTasksRun, Cancel, CancelledTargets,
     TERMINAL_STATUSES
<1>8. RecordsMatchStatus'
  BY DEF IInv, TypeOK, RecordsMatchStatus, Cancel, CancelledTargets, Outcome, TERMINAL_STATUSES
<1> QED
  BY <1>3, <1>4, <1>5, <1>6, <1>7, <1>8 DEF IInv

\* Expire changes a lease only.
LEMMA ExpireIInv ==
  ASSUME IInv, NEW t \in Tasks, Expire(t)
  PROVE  IInv'
  BY DEF IInv, TypeOK, AttemptsLeft, BusyWorkers, ThreadsOfClaim, OwnerIsLatest,
     OnlyRunningTasksRun, RecordsMatchStatus, Expire, workerVars, targetVars

\* The target part of a recovery, alone or in a claim: no target of a recovered
\* task stays running, and one that had no result has no record.
LEMMA RecoveredRows ==
  ASSUME IInv, NEW R \in SUBSET Expired,
         target_status' = RecoveredTargets(R), UNCHANGED records
  PROVE  /\ \A x \in Targets : target_status'[x] = "running"
                              => TaskOf[x] \notin R /\ target_status[x] = "running"
         /\ \A x \in Targets : target_status'[x] = "cancelled"
                              => status[TaskOf[x]] = "cancelled" /\ TaskOf[x] \notin R
         /\ \A t \in Tasks \ R : \A x \in TargetsOf(t) : target_status'[x] = target_status[x]
         /\ RecordsMatchStatus'
<1> USE TaskQueueAssumption DEF IInv
<1>1. \A x \in Targets : TaskOf[x] \in Tasks
  OBVIOUS
<1>2. \A x \in Targets : target_status'[x] = "running"
                              => TaskOf[x] \notin R /\ target_status[x] = "running"
  BY <1>1, RecoveredTargetsFacts DEF TERMINAL_STATUSES
<1>3. \A t \in Tasks \ R : \A x \in TargetsOf(t) : target_status'[x] = target_status[x]
  BY RecoveredTargetsFacts DEF TargetsOf
<1>4. RecordsMatchStatus'
  BY <1>1, RecoveredTargetsFacts DEF RecordsMatchStatus, Outcome, TERMINAL_STATUSES
<1>5. \A x \in Targets : target_status'[x] = "cancelled"
                          => status[TaskOf[x]] = "cancelled" /\ TaskOf[x] \notin R
  BY <1>1, RecoveredTargetsFacts DEF OnlyRunningTasksRun, Expired, TERMINAL_STATUSES
<1> QED
  BY <1>2, <1>3, <1>4, <1>5

\* Recovery requeues a task only with an attempt left, and forgets its owner.
LEMMA RecoverIInv ==
  ASSUME IInv, NEW w \in Workers, NEW R \in SUBSET Expired, Recover(w, R)
  PROVE  IInv'
<1> USE DEF workerVars
<1>1. TypeOK
  BY DEF IInv
<1>2. TypeOK'
  BY <1>1, RecoveredTargetsFacts, RecoveredStatusFacts, RecoveredOtherType
     DEF TypeOK, Recover
<1>3. /\ \A x \in Targets : target_status'[x] = "running"
                              => TaskOf[x] \notin R /\ target_status[x] = "running"
      /\ \A x \in Targets : target_status'[x] = "cancelled"
                              => status[TaskOf[x]] = "cancelled" /\ TaskOf[x] \notin R
      /\ \A t \in Tasks \ R : \A x \in TargetsOf(t) : target_status'[x] = target_status[x]
      /\ RecordsMatchStatus'
  BY RecoveredRows DEF Recover
<1>4. /\ \A t \in Tasks \ R : status'[t] = status[t] /\ worker_id'[t] = worker_id[t]
      /\ \A t \in R : status'[t] \in {"success", "partial", "failed", "queued"}
      /\ \A t \in R : status'[t] = "queued" => attempt_count[t] < MAX_TASK_ATTEMPTS
      /\ \A t \in R : t \in Tasks
  BY <1>1, RecoveredStatusFacts DEF Recover, Outcome
<1>5. AttemptsLeft'
  BY <1>3, <1>4 DEF IInv, AttemptsLeft, Recover, TargetsOf
<1>6. BusyWorkers' /\ ThreadsOfClaim'
  BY DEF IInv, BusyWorkers, ThreadsOfClaim, Recover
<1>7. OwnerIsLatest'
  BY <1>4 DEF IInv, BusyWorkers, OwnerIsLatest, Recover
<1>8. OnlyRunningTasksRun'
  BY <1>3, <1>4, TaskQueueAssumption DEF IInv, OnlyRunningTasksRun
<1> QED
  BY <1>2, <1>3, <1>5, <1>6, <1>7, <1>8 DEF IInv

\* A claim spends one of the attempts that are left and makes the claiming Worker
\* the owner; every other Worker that had claimed the task stops being one.
LEMMA ClaimIInv ==
  ASSUME IInv, NEW w \in Workers, NEW R \in SUBSET Expired, NEW t \in Tasks,
         Claim(w, R, t)
  PROVE  IInv'
<1>1. TypeOK
  BY DEF IInv
<1>2. /\ \A x \in Targets : target_status'[x] = "running"
                              => TaskOf[x] \notin R /\ target_status[x] = "running"
      /\ \A x \in Targets : target_status'[x] = "cancelled"
                              => status[TaskOf[x]] = "cancelled" /\ TaskOf[x] \notin R
      /\ \A u \in Tasks \ R : \A x \in TargetsOf(u) : target_status'[x] = target_status[x]
      /\ RecordsMatchStatus'
  BY RecoveredRows DEF Claim
<1>3. /\ \A u \in Tasks \ (R \cup {t}) : status'[u] = status[u] /\ worker_id'[u] = worker_id[u]
      /\ \A u \in R \ {t} : status'[u] \in {"success", "partial", "failed", "queued"}
      /\ \A u \in R \ {t} : status'[u] = "queued" => attempt_count[u] < MAX_TASK_ATTEMPTS
      /\ \A u \in R : u \in Tasks
      /\ status'[t] = "running" /\ worker_id'[t] = w
      /\ status[t] \in {"running", "queued"}
  BY <1>1, RecoveredStatusFacts DEF Claim, Outcome
<1>4. attempt_count[t] \in Nat /\ attempt_count[t] < MAX_TASK_ATTEMPTS
  BY <1>1, RecoveredStatusFacts, TaskQueueAssumption DEF IInv, TypeOK, AttemptsLeft, Claim
<1>5. /\ attempt_count' \in [Tasks -> 0 .. MAX_TASK_ATTEMPTS]
      /\ generation' \in [Workers -> 0 .. MAX_TASK_ATTEMPTS]
      /\ attempt_count'[t] = attempt_count[t] + 1
      /\ generation'[w] = attempt_count[t] + 1
      /\ generation'[w] \in 1 .. MAX_TASK_ATTEMPTS
  BY <1>1, <1>4, TaskQueueAssumption DEF TypeOK, Claim
<1>6. TypeOK'
  <2>1. status' \in [Tasks -> Status \cup {"absent"}]
    BY <1>1, RecoveredStatusFacts DEF Claim, Status, ACTIVE_STATUSES
  <2>2. target_status' \in [Targets -> Status \cup {"absent"}]
    BY <1>1, RecoveredTargetsFacts DEF Claim
  <2>3. counts' \in [Tasks -> Counts] /\ ahead' \in [Tasks -> SUBSET Tasks]
    BY <1>1, RecoveredOtherType DEF Claim, Dequeued
  <2>4. worker_id' \in [Tasks -> Workers \cup {NoWorker}]
        /\ lease' \in [Tasks -> {"none", "live", "expired"}]
    BY <1>1 DEF TypeOK, Claim
  <2> QED
    BY <1>1, <1>5, <2>1, <2>2, <2>3, <2>4 DEF TypeOK, Claim
<1>7. AttemptsLeft'
  <2>1. \A u \in Tasks \ {t} : attempt_count'[u] = attempt_count[u]
    BY <1>1 DEF TypeOK, Claim
  <2>2. ASSUME NEW u \in Tasks, status'[u] = "queued"
        PROVE  attempt_count'[u] < MAX_TASK_ATTEMPTS
    BY <1>3, <2>1, <2>2 DEF IInv, AttemptsLeft
  <2>3. ASSUME NEW u \in Tasks, status'[u] = "absent"
        PROVE  /\ u \in Tasks \ (R \cup {t}) /\ status[u] = "absent"
               /\ attempt_count'[u] = attempt_count[u]
               /\ \A x \in TargetsOf(u) : target_status'[x] = target_status[x]
    BY <1>2, <1>3, <2>1, <2>3
  <2> QED
    BY <2>2, <2>3 DEF IInv, AttemptsLeft, TargetsOf
<1>8. BusyWorkers'
  BY <1>1, <1>5 DEF IInv, BusyWorkers, Claim, TypeOK
<1>9. ThreadsOfClaim'
  BY <1>1 DEF IInv, ThreadsOfClaim, Claim, TypeOK, Thread
<1>10. OwnerIsLatest'
  BY <1>1, <1>3, <1>5 DEF IInv, BusyWorkers, OwnerIsLatest, Claim, TypeOK
<1>11. OnlyRunningTasksRun'
  BY <1>2, <1>3, TaskQueueAssumption DEF IInv, OnlyRunningTasksRun
<1> QED
  BY <1>2, <1>6, <1>7, <1>8, <1>9, <1>10, <1>11 DEF IInv

\* Actions that leave every row and the pool alone preserve the parts of the
\* invariant about rows.
LEMMA RowsUntouched ==
  ASSUME IInv, UNCHANGED taskVars, UNCHANGED targetVars
  PROVE  AttemptsLeft' /\ OnlyRunningTasksRun' /\ RecordsMatchStatus'
  BY DEF IInv, AttemptsLeft, OnlyRunningTasksRun, RecordsMatchStatus, taskVars, targetVars,
     TargetsOf

\* The main thread starts on its claim with targets of the claimed task only.
LEMMA LoadTargetsIInv ==
  ASSUME IInv, NEW w \in Workers, LoadTargets(w)
  PROVE  IInv'
<1>1. AttemptsLeft' /\ OnlyRunningTasksRun' /\ RecordsMatchStatus'
  BY RowsUntouched DEF LoadTargets
<1>2. TypeOK'
  BY DEF IInv, TypeOK, LoadTargets, taskVars, targetVars, TargetsOf
<1>3. BusyWorkers'
  BY DEF IInv, TypeOK, BusyWorkers, LoadTargets, TargetsOf
<1>4. ThreadsOfClaim'
  BY DEF IInv, TypeOK, ThreadsOfClaim, LoadTargets, Thread
<1>5. OwnerIsLatest'
  BY DEF IInv, TypeOK, OwnerIsLatest, LoadTargets, taskVars
<1> QED
  BY <1>1, <1>2, <1>3, <1>4, <1>5 DEF IInv

\* A submitted thread carries the claim of its Worker.
LEMMA SubmitIInv ==
  ASSUME IInv, NEW w \in Workers, NEW x \in Targets, Submit(w, x)
  PROVE  IInv'
<1>1. AttemptsLeft' /\ OnlyRunningTasksRun' /\ RecordsMatchStatus'
  BY RowsUntouched DEF Submit
<1>2. generation[w] \in 1 .. MAX_TASK_ATTEMPTS /\ TaskOf[x] = claimed[w]
  BY DEF IInv, BusyWorkers, Submit, TargetsOf
<1>3. TypeOK'
  BY <1>2 DEF IInv, TypeOK, Submit, taskVars, targetVars, Thread
<1>4. BusyWorkers'
  BY DEF IInv, TypeOK, BusyWorkers, Submit, TargetsOf
<1>5. ThreadsOfClaim'
  BY <1>2 DEF IInv, ThreadsOfClaim, Submit
<1>6. OwnerIsLatest'
  BY DEF IInv, OwnerIsLatest, Submit, taskVars
<1> QED
  BY <1>1, <1>3, <1>4, <1>5, <1>6 DEF IInv

\* Setting a guard changes nothing the invariant speaks of.
LEMMA GuardIInv ==
  ASSUME IInv, NEW w \in Workers, Renew(w) \/ HeartbeatError(w) \/ Stop(w)
  PROVE  IInv'
<1>1. AttemptsLeft' /\ OnlyRunningTasksRun' /\ RecordsMatchStatus'
  BY RowsUntouched DEF Renew, HeartbeatError, Stop
<1>2. TypeOK'
  <2>1. UNCHANGED <<status, scope_key, worker_id, lease, attempt_count, counts, ahead,
                    target_status, records, pc, claimed, generation, remaining, saw_live,
                    threads>>
    BY DEF Renew, HeartbeatError, Stop, taskVars, targetVars
  <2>2. \/ lost_lease' = [lost_lease EXCEPT ![w] = TRUE] /\ UNCHANGED stop_event
        \/ stop_event' = [stop_event EXCEPT ![w] = TRUE] /\ UNCHANGED lost_lease
    BY DEF Renew, HeartbeatError, Stop
  <2>3. lost_lease' \in [Workers -> BOOLEAN] /\ stop_event' \in [Workers -> BOOLEAN]
    BY <2>2 DEF IInv, TypeOK
  <2> QED
    BY <2>1, <2>3 DEF IInv, TypeOK
<1>3. UNCHANGED <<status, worker_id, attempt_count, pc, claimed, generation, remaining,
                  threads>>
  BY DEF Renew, HeartbeatError, Stop, taskVars
<1>4. BusyWorkers' /\ ThreadsOfClaim' /\ OwnerIsLatest'
  BY <1>3 DEF IInv, BusyWorkers, ThreadsOfClaim, OwnerIsLatest, TargetsOf
<1> QED
  BY <1>1, <1>2, <1>4 DEF IInv

\* A Worker leaves its claim only with an empty pool.
LEMMA LeaveIInv ==
  ASSUME IInv, NEW w \in Workers, Abandon(w) \/ MainError(w) \/ FinishRead(w) \/ Crash(w)
  PROVE  IInv'
<1>1. AttemptsLeft' /\ OnlyRunningTasksRun' /\ RecordsMatchStatus'
  BY RowsUntouched DEF Abandon, MainError, FinishRead, Crash
<1>2. TypeOK'
  <2>1. CASE Abandon(w)
    BY <2>1, TaskQueueAssumption DEF IInv, TypeOK, Abandon, taskVars, targetVars
  <2>2. CASE FinishRead(w)
    BY <2>2 DEF IInv, TypeOK, FinishRead, taskVars, targetVars
  <2>3. CASE Crash(w)
    BY <2>3, TaskQueueAssumption DEF IInv, TypeOK, Crash, taskVars, targetVars
  <2>4. CASE MainError(w)
    BY <2>4, TaskQueueAssumption DEF IInv, TypeOK, MainError, taskVars, targetVars
  <2> QED
    BY <2>1, <2>2, <2>3, <2>4
<1>3. BusyWorkers'
  <2>1. CASE FinishRead(w)
    BY <2>1 DEF IInv, TypeOK, BusyWorkers, FinishRead, Drained, TargetsOf
  <2>2. CASE Abandon(w) \/ MainError(w) \/ Crash(w)
    BY <2>2 DEF IInv, TypeOK, BusyWorkers, Abandon, MainError, Crash, TargetsOf
  <2> QED
    BY <2>1, <2>2
<1>4. ThreadsOfClaim'
  <2>1. \A h \in threads' : h \in threads /\ h.worker # w
    BY DEF IInv, ThreadsOfClaim, Abandon, MainError, FinishRead, Crash, Drained, pending
  <2>2. \A u \in Workers \ {w} : /\ pc'[u] = pc[u] /\ claimed'[u] = claimed[u]
                                /\ generation'[u] = generation[u]
    BY DEF IInv, TypeOK, Abandon, MainError, FinishRead, Crash
  <2>3. \A h \in threads : h.worker \in Workers
    BY DEF IInv, TypeOK, Thread
  <2> QED
    BY <2>1, <2>2, <2>3 DEF IInv, ThreadsOfClaim
<1>5. OwnerIsLatest'
  <2>1. UNCHANGED <<status, worker_id, attempt_count>>
    BY DEF Abandon, MainError, FinishRead, Crash, taskVars
  <2>2. \A u \in Workers : pc'[u] \in {"claimed", "running", "finishing"}
          => /\ pc[u] \in {"claimed", "running", "finishing"}
             /\ claimed'[u] = claimed[u] /\ generation'[u] = generation[u]
    BY DEF IInv, TypeOK, Abandon, MainError, FinishRead, Crash
  <2> QED
    BY <2>1, <2>2 DEF IInv, OwnerIsLatest
<1> QED
  BY <1>1, <1>2, <1>3, <1>4, <1>5 DEF IInv

\* finish_task closes a task of which no target is running.
LEMMA FinishCommitIInv ==
  ASSUME IInv, NEW w \in Workers, FinishCommit(w)
  PROVE  IInv'
<1> DEFINE t == claimed[w]
<1>1. t \in Tasks
  BY DEF IInv, BusyWorkers, FinishCommit
<1>2. finished_status(t, target_status) \in Outcome
  BY FinishedStatusType
<1>3. Outcome \subseteq Status /\ Outcome = {"success", "partial", "failed"}
  BY DEF Outcome, Status, TERMINAL_STATUSES
<1>4. TypeOK'
  <2>1. counts' \in [Tasks -> Counts]
    BY ProgressType DEF IInv, TypeOK, FinishCommit
  <2>2. status' \in [Tasks -> Status \cup {"absent"}]
    BY <1>2, <1>3 DEF IInv, TypeOK, FinishCommit
  <2>3. /\ lease' \in [Tasks -> {"none", "live", "expired"}]
        /\ pc' \in [Workers -> {"idle", "claimed", "running", "finishing", "dead"}]
        /\ claimed' \in [Workers -> Tasks \cup {NoTask}]
        /\ saw_live' \in [Workers -> BOOLEAN]
    BY DEF IInv, TypeOK, FinishCommit
  <2>4. generation' \in [Workers -> 0 .. MAX_TASK_ATTEMPTS]
    BY TaskQueueAssumption DEF IInv, TypeOK, FinishCommit
  <2>5. UNCHANGED <<scope_key, worker_id, attempt_count, ahead, target_status, records,
                    remaining, lost_lease, stop_event, threads>>
    BY DEF FinishCommit, targetVars
  <2> QED
    BY <2>1, <2>2, <2>3, <2>4, <2>5 DEF IInv, TypeOK
<1>5. /\ \A u \in Tasks \ {t} : status'[u] = status[u]
      /\ status'[t] # status[t] =>
           status'[t] \in Outcome /\ status[t] = "running" /\ AllTerminal(t, target_status)
  BY <1>1, <1>2 DEF IInv, TypeOK, FinishCommit, CanFinish
<1> HIDE DEF t
<1>6. AttemptsLeft'
  BY <1>3, <1>5 DEF IInv, AttemptsLeft, FinishCommit, targetVars, TargetsOf
<1>7. BusyWorkers'
  BY DEF IInv, TypeOK, BusyWorkers, FinishCommit, TargetsOf
<1>8. ThreadsOfClaim'
  BY DEF IInv, TypeOK, ThreadsOfClaim, FinishCommit, Thread
<1>9. OwnerIsLatest'
  <2> SUFFICES ASSUME NEW u \in Workers,
                      pc'[u] \in {"claimed", "running", "finishing"},
                      status'[claimed'[u]] = "running",
                      worker_id'[claimed'[u]] = u
               PROVE  attempt_count'[claimed'[u]] = generation'[u]
    BY DEF OwnerIsLatest
  <2>1. u # w /\ pc'[u] = pc[u] /\ claimed'[u] = claimed[u] /\ generation'[u] = generation[u]
    BY DEF IInv, TypeOK, FinishCommit
  <2>2. claimed[u] \in Tasks
    BY <2>1 DEF IInv, BusyWorkers
  <2>3. status[claimed[u]] = "running"
    BY <2>1, <2>2, <1>3, <1>5
  <2> QED
    BY <2>1, <2>3 DEF IInv, OwnerIsLatest, FinishCommit
<1>10. OnlyRunningTasksRun'
  BY <1>5, TaskQueueAssumption DEF IInv, OnlyRunningTasksRun, FinishCommit, targetVars,
     AllTerminal, TargetsOf, TERMINAL_STATUSES
<1>11. RecordsMatchStatus'
  BY DEF IInv, RecordsMatchStatus, FinishCommit, targetVars
<1> QED
  BY <1>4, <1>6, <1>7, <1>8, <1>9, <1>10, <1>11 DEF IInv

\* A thread that ends without writing leaves the other threads as they are.
LEMMA ThreadEndIInv ==
  ASSUME IInv, NEW h \in threads, Refused(h) \/ ThreadError(h)
  PROVE  IInv'
<1>1. AttemptsLeft' /\ OnlyRunningTasksRun' /\ RecordsMatchStatus'
  BY RowsUntouched DEF Refused, ThreadError
<1>2. TypeOK'
  BY DEF IInv, TypeOK, Refused, ThreadError, taskVars, targetVars, workerVars
<1>3. BusyWorkers' /\ ThreadsOfClaim' /\ OwnerIsLatest'
  BY DEF IInv, BusyWorkers, ThreadsOfClaim, OwnerIsLatest, Refused, ThreadError,
     taskVars, workerVars, TargetsOf
<1> QED
  BY <1>1, <1>2, <1>3 DEF IInv

\* _begin_target starts a queued target of a running task.
LEMMA BeginTargetIInv ==
  ASSUME IInv, NEW h \in threads, BeginTarget(h)
  PROVE  IInv'
<1> USE DEF taskVars, workerVars
<1>1. h \in Thread /\ TaskOf[h.target] \in Tasks
  BY TaskQueueAssumption DEF IInv, TypeOK, Thread
<1>2. [h EXCEPT !.pc = "collecting"] \in Thread
      /\ [h EXCEPT !.pc = "collecting"].worker = h.worker
      /\ [h EXCEPT !.pc = "collecting"].target = h.target
      /\ [h EXCEPT !.pc = "collecting"].gen = h.gen
  BY <1>1 DEF Thread
<1>3. TypeOK'
  <2>1. threads' \in SUBSET Thread
    BY <1>2 DEF IInv, TypeOK, BeginTarget
  <2>2. target_status' \in [Targets -> Status \cup {"absent"}]
    BY DEF IInv, TypeOK, BeginTarget, Status, ACTIVE_STATUSES
  <2> QED
    BY <2>1, <2>2 DEF IInv, TypeOK, BeginTarget
<1>4. AttemptsLeft'
  BY <1>1 DEF IInv, TypeOK, AttemptsLeft, BeginTarget, CanBegin, has_live_lease, TargetsOf
<1>5. BusyWorkers' /\ OwnerIsLatest'
  BY DEF IInv, BusyWorkers, OwnerIsLatest, BeginTarget, TargetsOf
<1>6. ThreadsOfClaim'
  <2> DEFINE g == [h EXCEPT !.pc = "collecting"]
  <2>1. threads' = (threads \ {h}) \cup {g}
    BY DEF BeginTarget
  <2>2. g.worker = h.worker /\ g.target = h.target /\ g.gen = h.gen
    BY <1>2
  <2> HIDE DEF g
  <2> QED
    BY <2>1, <2>2 DEF IInv, ThreadsOfClaim, BeginTarget
<1>7. OnlyRunningTasksRun'
  BY <1>1 DEF IInv, TypeOK, OnlyRunningTasksRun, BeginTarget, CanBegin, has_live_lease
<1>8. RecordsMatchStatus'
  BY <1>1 DEF IInv, TypeOK, RecordsMatchStatus, BeginTarget, CanBegin, Outcome
<1> QED
  BY <1>3, <1>4, <1>5, <1>6, <1>7, <1>8 DEF IInv

\* _persist_collection gives a running target, which has no record, its one
\* record and its outcome.
LEMMA PersistIInv ==
  ASSUME IInv, NEW h \in threads, NEW outcome \in Outcome, Persist(h, outcome)
  PROVE  IInv'
<1> USE DEF workerVars
<1>1. h \in Thread /\ TaskOf[h.target] \in Tasks
  BY TaskQueueAssumption DEF IInv, TypeOK, Thread
<1>2. counts' \in [Tasks -> Counts]
  BY ProgressType DEF IInv, TypeOK, Persist
<1>3. outcome \in Status /\ outcome \in {"success", "partial", "failed"}
  BY DEF Outcome, Status, TERMINAL_STATUSES
<1>4. records[h.target] = 0 /\ records'[h.target] = 1
  BY <1>1 DEF IInv, TypeOK, RecordsMatchStatus, Persist, CanPersist, Outcome, Thread
<1>5. TypeOK'
  <2>1. records' \in [Targets -> Nat]
    BY <1>1, <1>4 DEF IInv, TypeOK, Persist, Thread
  <2> QED
    BY <2>1, <1>1, <1>2, <1>3 DEF IInv, TypeOK, Persist
<1>6. AttemptsLeft'
  BY <1>1 DEF IInv, TypeOK, AttemptsLeft, Persist, CanPersist, has_live_lease, TargetsOf
<1>7. BusyWorkers' /\ OwnerIsLatest' /\ ThreadsOfClaim'
  BY DEF IInv, BusyWorkers, OwnerIsLatest, ThreadsOfClaim, Persist, TargetsOf
<1>8. OnlyRunningTasksRun'
  BY <1>1, <1>3 DEF IInv, TypeOK, OnlyRunningTasksRun, Persist
<1>9. RecordsMatchStatus'
  BY <1>1, <1>3, <1>4 DEF IInv, TypeOK, RecordsMatchStatus, Persist, Outcome
<1> QED
  BY <1>5, <1>6, <1>7, <1>8, <1>9 DEF IInv

\* Every step preserves the invariant.
LEMMA NextIInv == IInv /\ [Next]_vars => IInv'
<1> SUFFICES ASSUME IInv, [Next]_vars PROVE IInv'
  OBVIOUS
<1>1. CASE UNCHANGED vars
  BY <1>1 DEF vars, taskVars, targetVars, workerVars, IInv, TypeOK, AttemptsLeft, BusyWorkers,
     ThreadsOfClaim, OwnerIsLatest, OnlyRunningTasksRun, RecordsMatchStatus, TargetsOf
<1>2. CASE \E t \in Tasks : (\E key \in Scopes : Enqueue(t, key)) \/ Cancel(t) \/ Expire(t)
  BY <1>2, EnqueueIInv, CancelIInv, ExpireIInv
<1>3. CASE \E w \in Workers : RecoverAny(w) \/ ClaimAny(w)
  BY <1>3, RecoverIInv, ClaimIInv DEF RecoverAny, ClaimAny
<1>4. CASE \E w \in Workers : MainStep(w) \/ Stop(w) \/ Crash(w)
  BY <1>4, LoadTargetsIInv, SubmitIInv, GuardIInv, LeaveIInv, FinishCommitIInv DEF MainStep
<1>5. CASE \E h \in threads : ThreadStep(h)
  BY <1>5, BeginTargetIInv, PersistIInv, ThreadEndIInv DEF ThreadStep
<1> QED
  BY <1>1, <1>2, <1>3, <1>4, <1>5 DEF Next

\* The inductive invariant holds in every reachable state.
THEOREM QueueInvariant == Spec => []IInv
  BY InitIInv, NextIInv, PTL DEF Spec

-----------------------------------------------------------------------------
(* What follows for every size of the system.                              *)

\* All columns and memories keep their types and no task is claimed more than
\* MAX_TASK_ATTEMPTS times.
THEOREM QueueTyped == Spec => []TypeOK
<1>1. IInv => TypeOK
  BY DEF IInv
<1> QED
  BY <1>1, QueueInvariant, PTL

\* Only a thread of the current claim can publish a result: worker_id alone is
\* enough of a fence because a Worker drains its pool before it claims again.
THEOREM PublisherFenced == Spec => []PublisherIsCurrent
<1>1. IInv => PublisherIsCurrent
  BY DEF IInv, TypeOK, Thread, ThreadsOfClaim, OwnerIsLatest, PublisherIsCurrent, CanPersist,
     has_live_lease
<1> QED
  BY <1>1, QueueInvariant, PTL

\* No target is left running by recovery, cancellation or closing.
THEOREM NoOrphanTarget == Spec => []OnlyRunningTasksRun
<1>1. IInv => OnlyRunningTasksRun
  BY DEF IInv
<1> QED
  BY <1>1, QueueInvariant, PTL

\* A target never has two records, nor one without having been published.
THEOREM OneRecordPerTarget == Spec => []RecordsMatchStatus
<1>1. IInv => RecordsMatchStatus
  BY DEF IInv
<1> QED
  BY <1>1, QueueInvariant, PTL

\* Only enqueueing activates a task or gives it a scope.
LEMMA ActiveBefore ==
  ASSUME IInv, Next
  PROVE  \/ \E t \in Tasks, key \in Scopes : Enqueue(t, key)
         \/ /\ scope_key' = scope_key
            /\ \A t \in Tasks : status'[t] \in ACTIVE_STATUSES => status[t] \in ACTIVE_STATUSES
<1> DEFINE Stays == /\ scope_key' = scope_key
                    /\ \A t \in Tasks : status'[t] \in ACTIVE_STATUSES
                                         => status[t] \in ACTIVE_STATUSES
<1>0. TypeOK /\ "running" \in ACTIVE_STATUSES /\ "queued" \in ACTIVE_STATUSES
  BY DEF IInv, ACTIVE_STATUSES
<1>1. ASSUME NEW t \in Tasks, Cancel(t) \/ Expire(t) PROVE Stays
  BY <1>0, <1>1 DEF TypeOK, Cancel, Expire
<1>2. ASSUME NEW R \in SUBSET Expired, NEW t \in Tasks, RecoveredStatus(R)[t] \in ACTIVE_STATUSES
      PROVE  status[t] \in ACTIVE_STATUSES
  BY <1>0, <1>2, RecoveredStatusFacts
<1>3. ASSUME NEW w \in Workers, NEW R \in SUBSET Expired, Recover(w, R) PROVE Stays
  BY <1>2, <1>3 DEF Recover
<1>4. ASSUME NEW w \in Workers, NEW R \in SUBSET Expired, NEW t \in Tasks, Claim(w, R, t)
      PROVE  Stays
  <2>1. \A u \in Tasks : u # t => status'[u] = RecoveredStatus(R)[u]
    BY <1>0, <1>4, RecoveredStatusFacts DEF Claim
  <2>2. RecoveredStatus(R)[t] \in ACTIVE_STATUSES /\ scope_key' = scope_key
    BY <1>0, <1>4 DEF Claim
  <2> QED
    BY <1>2, <2>1, <2>2
<1>5. ASSUME NEW w \in Workers, MainStep(w) \/ Stop(w) \/ Crash(w) PROVE Stays
  <2>1. CASE FinishCommit(w)
    BY <1>0, <2>1 DEF IInv, TypeOK, BusyWorkers, FinishCommit, CanFinish
  <2>2. CASE ~FinishCommit(w)
    BY <1>5, <2>2 DEF MainStep, LoadTargets, Submit, Renew, HeartbeatError, Abandon, MainError,
       FinishRead, Stop, Crash, taskVars
  <2> QED
    BY <2>1, <2>2
<1>6. ASSUME NEW h \in threads, ThreadStep(h) PROVE Stays
  BY <1>6 DEF ThreadStep, BeginTarget, Persist, Refused, ThreadError, taskVars
<1> QED
  BY <1>1, <1>3, <1>4, <1>5, <1>6 DEF Next, RecoverAny, ClaimAny

\* No step makes two active tasks of one scope.
LEMMA ScopesStayUnique == IInv /\ ActiveScopesUnique /\ [Next]_vars => ActiveScopesUnique'
<1> SUFFICES ASSUME IInv, ActiveScopesUnique, [Next]_vars PROVE ActiveScopesUnique'
  OBVIOUS
<1>1. CASE UNCHANGED vars
  BY <1>1 DEF vars, taskVars, ActiveScopesUnique
<1>2. ASSUME NEW t \in Tasks, NEW key \in Scopes, Enqueue(t, key) PROVE ActiveScopesUnique'
  BY <1>2 DEF IInv, TypeOK, Enqueue, ActiveScopesUnique
<1>3. CASE /\ scope_key' = scope_key
           /\ \A t \in Tasks : status'[t] \in ACTIVE_STATUSES => status[t] \in ACTIVE_STATUSES
  BY <1>3 DEF ActiveScopesUnique
<1> QED
  BY <1>1, <1>2, <1>3, ActiveBefore

\* For one scope at most one task can publish, because a thread that may publish
\* belongs to a running task and a scope has one active task.
THEOREM ScopePublishesOnce == Spec => []ScopeHasOnePublisher
<1>1. Init => ActiveScopesUnique
  BY DEF Init, ActiveScopesUnique, ACTIVE_STATUSES
<1>2. IInv /\ ActiveScopesUnique => ScopeHasOnePublisher
  BY TaskQueueAssumption DEF IInv, TypeOK, Thread, ActiveScopesUnique, ScopeHasOnePublisher,
     CanPersist, has_live_lease, ACTIVE_STATUSES
<1>3. Spec => []ActiveScopesUnique
  BY <1>1, QueueInvariant, ScopesStayUnique, PTL DEF Spec
<1> QED
  BY <1>2, <1>3, QueueInvariant, PTL

\* Recovery touches running tasks only, and only their unfinished targets.
LEMMA RecoveryKeepsTerminal ==
  ASSUME IInv, NEW R \in SUBSET Expired, target_status' = RecoveredTargets(R),
         counts' = RecoveredCounts(R), UNCHANGED records
  PROVE  /\ \A t \in Tasks : status[t] \in TERMINAL_STATUSES
              => /\ t \notin R
                 /\ RecoveredStatus(R)[t] = status[t] /\ counts'[t] = counts[t]
         /\ \A x \in Targets : target_status[x] \in TERMINAL_STATUSES
              => target_status'[x] = target_status[x] /\ records'[x] = records[x]
<1>1. TypeOK
  BY DEF IInv
<1>2. \A t \in R : status[t] = "running"
  BY DEF Expired
<1>3. \A t \in Tasks \ R : RecoveredStatus(R)[t] = status[t] /\ counts'[t] = counts[t]
  BY <1>1, RecoveredStatusFacts DEF RecoveredCounts
<1> QED
  BY <1>1, <1>2, <1>3, RecoveredTargetsFacts DEF TERMINAL_STATUSES

\* No step changes what has ended.
LEMMA TerminalKept ==
  ASSUME IInv, Next
  PROVE  KeepsTerminal
<1>0. "queued" \notin TERMINAL_STATUSES /\ "running" \notin TERMINAL_STATUSES
      /\ "absent" \notin TERMINAL_STATUSES
  BY DEF TERMINAL_STATUSES
<1>1. ASSUME NEW t \in Tasks, NEW key \in Scopes, Enqueue(t, key) PROVE KeepsTerminal
  <2>1. \A x \in TargetsOf(t) : target_status[x] = "absent"
    BY <1>1 DEF IInv, AttemptsLeft, Enqueue
  <2> QED
    BY <1>0, <1>1, <2>1 DEF IInv, TypeOK, Enqueue, KeepsTerminal, TargetsOf
<1>2. ASSUME NEW t \in Tasks, Cancel(t) PROVE KeepsTerminal
  BY <1>0, <1>2 DEF IInv, TypeOK, Cancel, CancelledTargets, KeepsTerminal, ACTIVE_STATUSES
<1>3. ASSUME NEW t \in Tasks, Expire(t) PROVE KeepsTerminal
  BY <1>0, <1>3 DEF IInv, TypeOK, Expire, KeepsTerminal, targetVars
<1>4. ASSUME NEW w \in Workers, NEW R \in SUBSET Expired, Recover(w, R)
      PROVE  KeepsTerminal
  BY <1>4, RecoveryKeepsTerminal DEF Recover, KeepsTerminal
<1>5. ASSUME NEW w \in Workers, NEW R \in SUBSET Expired, NEW t \in Tasks,
             Claim(w, R, t)
      PROVE  KeepsTerminal
  <2>1. RecoveredStatus(R) \in [Tasks -> Status \cup {"absent"}]
    BY RecoveredStatusFacts DEF IInv
  <2>2. \A u \in Tasks : status[u] \in TERMINAL_STATUSES =>
          u \notin R /\ RecoveredStatus(R)[u] = status[u] /\ counts'[u] = counts[u]
    BY <1>5, RecoveryKeepsTerminal DEF Claim
  <2>3. status[t] \notin TERMINAL_STATUSES
    BY <1>0, <1>5, <2>2 DEF Claim
  <2>4. \A x \in Targets : target_status[x] \in TERMINAL_STATUSES
          => target_status'[x] = target_status[x] /\ records'[x] = records[x]
    BY <1>5, RecoveryKeepsTerminal DEF Claim
  <2> QED
    BY <1>5, <2>1, <2>2, <2>3, <2>4 DEF Claim, KeepsTerminal
<1>6. ASSUME NEW w \in Workers, MainStep(w) \/ Stop(w) \/ Crash(w)
      PROVE  KeepsTerminal
  <2>1. CASE FinishCommit(w)
    BY <1>0, <2>1 DEF IInv, TypeOK, BusyWorkers, FinishCommit, CanFinish, KeepsTerminal,
       targetVars
  <2>2. CASE ~FinishCommit(w)
    BY <1>6, <2>2 DEF MainStep, LoadTargets, Submit, Renew, HeartbeatError, Abandon,
       MainError, FinishRead, Stop, Crash, taskVars, targetVars, KeepsTerminal
  <2> QED
    BY <2>1, <2>2
<1>7. ASSUME NEW h \in threads, BeginTarget(h) \/ Refused(h) \/ ThreadError(h)
      PROVE  KeepsTerminal
  BY <1>0, <1>7 DEF IInv, TypeOK, BeginTarget, CanBegin, Refused, ThreadError, taskVars,
     targetVars, KeepsTerminal
<1>8. ASSUME NEW h \in threads, NEW outcome \in Outcome, Persist(h, outcome)
      PROVE  KeepsTerminal
  BY <1>0, <1>8 DEF IInv, TypeOK, Persist, CanPersist, has_live_lease, KeepsTerminal
<1> QED
  BY <1>1, <1>2, <1>3, <1>4, <1>5, <1>6, <1>7, <1>8
     DEF Next, RecoverAny, ClaimAny, ThreadStep

\* What has ended stays as it ended, whoever moves afterwards.
THEOREM EndedStaysEnded == Spec => TerminalIsFinal
<1>1. IInv /\ [Next]_vars => [KeepsTerminal]_vars
  BY TerminalKept
<1> QED
  BY <1>1, QueueInvariant, PTL DEF Spec, TerminalIsFinal
-----------------------------------------------------------------------------
(* The summary on a task row.                                              *)

\* The counters as the rows of the targets have them.
Tally(t, st) ==
  [completed  |-> CountOf(t, st, TERMINAL_STATUSES),
   successful |-> CountOf(t, st, {"success"}),
   failed     |-> CountOf(t, st, {"failed", "partial"})]

CountsExact == \A t \in Tasks : counts[t] = Tally(t, target_status)

\* A closed task has nothing left to do, and its status follows from its targets.
VerdictFits ==
  \A t \in Tasks :
    /\ status[t] \in TERMINAL_STATUSES => AllTerminal(t, target_status)
    /\ status[t] \in Outcome => status[t] = finished_status(t, target_status)

\* Counts agree when the same targets are counted.
LEMMA CountSame ==
  ASSUME NEW t, NEW st, NEW su, NEW S, NEW T,
         \A x \in TargetsOf(t) : st[x] \in S <=> su[x] \in T
  PROVE  CountOf(t, st, S) = CountOf(t, su, T)
<1>1. {x \in TargetsOf(t) : st[x] \in S} = {x \in TargetsOf(t) : su[x] \in T}
  OBVIOUS
<1> QED
  BY <1>1 DEF CountOf

LEMMA TallySame ==
  ASSUME NEW t, NEW st, NEW su,
         \A x \in TargetsOf(t) : \/ su[x] = st[x]
                                 \/ {st[x], su[x]} \cap TERMINAL_STATUSES = {}
  PROVE  Tally(t, su) = Tally(t, st)
<1>1. /\ \A x \in TargetsOf(t) : st[x] \in TERMINAL_STATUSES <=> su[x] \in TERMINAL_STATUSES
      /\ \A x \in TargetsOf(t) : st[x] \in {"success"} <=> su[x] \in {"success"}
      /\ \A x \in TargetsOf(t) : st[x] \in {"failed", "partial"} <=> su[x] \in {"failed", "partial"}
  BY DEF TERMINAL_STATUSES
<1>2. CountOf(t, st, TERMINAL_STATUSES) = CountOf(t, su, TERMINAL_STATUSES)
  BY <1>1, CountSame
<1>3. CountOf(t, st, {"success"}) = CountOf(t, su, {"success"})
  BY <1>1, CountSame
<1>4. CountOf(t, st, {"failed", "partial"}) = CountOf(t, su, {"failed", "partial"})
  BY <1>1, CountSame
<1> QED
  BY <1>2, <1>3, <1>4 DEF Tally

\* What closing and publishing write is the tally as long as no target is cancelled.
LEMMA ProgressIsTally ==
  ASSUME NEW t, NEW st, \A x \in TargetsOf(t) : st[x] # "cancelled"
  PROVE  target_progress(t, st) = Tally(t, st)
<1>1. \A x \in TargetsOf(t) : st[x] \in TERMINAL_STATUSES \ {"success"}
                              <=> st[x] \in {"failed", "partial"}
  BY DEF TERMINAL_STATUSES
<1>2. CountOf(t, st, TERMINAL_STATUSES \ {"success"}) = CountOf(t, st, {"failed", "partial"})
  BY <1>1, CountSame
<1> QED
  BY <1>2 DEF Tally, target_progress

\* What a cancellation writes is the tally because nothing is left unfinished.
LEMMA CancelIsTally ==
  ASSUME NEW t, NEW st, AllTerminal(t, st)
  PROVE  cancel_progress(t, st) = Tally(t, st)
<1>1. \A x \in TargetsOf(t) : st[x] \in Status <=> st[x] \in TERMINAL_STATUSES
  BY DEF AllTerminal, Status
<1>2. CountOf(t, st, Status) = CountOf(t, st, TERMINAL_STATUSES)
  BY <1>1, CountSame
<1> QED
  BY <1>2 DEF Tally, cancel_progress

\* A count over all targets of a task, over none and over some.
LEMMA CountExtremes ==
  ASSUME NEW t \in Tasks, NEW st, NEW S
  PROVE  /\ (\A x \in TargetsOf(t) : st[x] \in S)
              => CountOf(t, st, S) = Cardinality(TargetsOf(t))
         /\ (\A x \in TargetsOf(t) : st[x] \notin S) => CountOf(t, st, S) = 0
         /\ (\E x \in TargetsOf(t) : st[x] \in S) => CountOf(t, st, S) > 0
         /\ (\E x \in TargetsOf(t) : st[x] \notin S)
              => CountOf(t, st, S) < Cardinality(TargetsOf(t))
<1> DEFINE C == {x \in TargetsOf(t) : st[x] \in S}
<1>1. IsFiniteSet(TargetsOf(t)) /\ C \subseteq TargetsOf(t)
  BY TaskQueueAssumption, FS_Subset DEF TargetsOf
<1>2. IsFiniteSet(C) /\ Cardinality(C) <= Cardinality(TargetsOf(t))
      /\ (Cardinality(C) = Cardinality(TargetsOf(t)) => C = TargetsOf(t))
  BY <1>1, FS_Subset
<1>3. Cardinality(C) \in Nat /\ Cardinality(TargetsOf(t)) \in Nat
      /\ (Cardinality(C) = 0 <=> C = {})
  BY <1>1, <1>2, FS_CardinalityType, FS_EmptySet
<1>4. CountOf(t, st, S) = Cardinality(C)
  BY DEF CountOf
<1>5. /\ (\A x \in TargetsOf(t) : st[x] \in S) => C = TargetsOf(t)
      /\ (\A x \in TargetsOf(t) : st[x] \notin S) => C = {}
      /\ (\E x \in TargetsOf(t) : st[x] \in S) => C # {}
      /\ (\E x \in TargetsOf(t) : st[x] \notin S) => C # TargetsOf(t)
  OBVIOUS
<1> HIDE DEF C
<1> QED
  BY <1>2, <1>3, <1>4, <1>5

\* Exact counters and a verdict that fits are all that the property says.
LEMMA SummaryFollows ==
  ASSUME IInv, CountsExact, VerdictFits
  PROVE  SummaryMatchesTargets
<1> SUFFICES ASSUME NEW t \in Tasks
             PROVE  LET n(S) == CountOf(t, target_status, S)
                        all  == Cardinality(TargetsOf(t))
                    IN /\ counts[t].completed = n(TERMINAL_STATUSES)
                       /\ counts[t].successful = n({"success"})
                       /\ counts[t].failed = n({"failed", "partial"})
                       /\ status[t] \in TERMINAL_STATUSES => counts[t].completed = all
                       /\ status[t] = "success" => counts[t].successful = all
                       /\ status[t] = "failed" => n({"failed"}) = all
                       /\ status[t] = "partial" => counts[t].failed > 0 /\ n({"failed"}) < all
                       /\ status[t] # "cancelled" => n({"cancelled"}) = 0
  BY DEF SummaryMatchesTargets
<1>1. /\ counts[t].completed = CountOf(t, target_status, TERMINAL_STATUSES)
      /\ counts[t].successful = CountOf(t, target_status, {"success"})
      /\ counts[t].failed = CountOf(t, target_status, {"failed", "partial"})
  <2>1. counts[t] = [completed  |-> CountOf(t, target_status, TERMINAL_STATUSES),
                     successful |-> CountOf(t, target_status, {"success"}),
                     failed     |-> CountOf(t, target_status, {"failed", "partial"})]
    BY Zenon DEF CountsExact, Tally
  <2> QED
    BY <2>1
<1>2. status[t] # "cancelled" => \A x \in TargetsOf(t) : target_status[x] \notin {"cancelled"}
  BY DEF IInv, OnlyRunningTasksRun, TargetsOf
<1>3. status[t] \in TERMINAL_STATUSES
        => \A x \in TargetsOf(t) : target_status[x] \in TERMINAL_STATUSES
  BY DEF VerdictFits, AllTerminal
<1>4. status[t] = "success" => \A x \in TargetsOf(t) : target_status[x] \in {"success"}
  BY DEF VerdictFits, finished_status, Outcome
<1>5. status[t] = "failed" => \A x \in TargetsOf(t) : target_status[x] \in {"failed"}
  BY <1>2, <1>3 DEF VerdictFits, finished_status, Outcome, TERMINAL_STATUSES
<1>6. status[t] = "partial" => /\ \E x \in TargetsOf(t) : target_status[x] \in {"failed", "partial"}
                               /\ \E x \in TargetsOf(t) : target_status[x] \notin {"failed"}
  BY <1>2, <1>3 DEF VerdictFits, finished_status, Outcome, TERMINAL_STATUSES
<1> QED
  BY <1>1, <1>2, <1>3, <1>4, <1>5, <1>6, CountExtremes

\* Recovery counts a task again when it closes it, and requeues the unfinished
\* targets of the others, which no counter counts.
LEMMA RecoveryCounts ==
  ASSUME IInv, CountsExact, NEW R \in SUBSET Expired,
         target_status' = RecoveredTargets(R), counts' = RecoveredCounts(R), UNCHANGED records
  PROVE  CountsExact'
<1> SUFFICES ASSUME NEW t \in Tasks
             PROVE  counts'[t] = Tally(t, target_status')
  BY Zenon DEF CountsExact, Tally, CountOf, TargetsOf
<1>1. TypeOK /\ counts[t] = Tally(t, target_status)
  BY Zenon DEF IInv, CountsExact
<1>2. CASE t \in R /\ AllTerminal(t, RecoveredTargets(R))
  <2>1. counts'[t] = target_progress(t, target_status')
    BY <1>2 DEF RecoveredCounts
  <2>2. \A x \in TargetsOf(t) : target_status'[x] # "cancelled"
    BY <1>2, RecoveredRows DEF TargetsOf
  <2> QED
    BY <2>1, <2>2, ProgressIsTally
<1>3. CASE ~(t \in R /\ AllTerminal(t, RecoveredTargets(R)))
  <2>1. counts'[t] = counts[t]
    BY <1>3 DEF RecoveredCounts
  <2>2. CASE t \notin R
    <3>1. \A x \in TargetsOf(t) : target_status'[x] = target_status[x]
      BY <2>2, RecoveredRows
    <3> QED
      BY <1>1, <2>1, <3>1, TallySame
  <2>3. CASE t \in R
    <3>1. attempt_count[t] < MAX_TASK_ATTEMPTS
      BY <1>1, <1>3, <2>3, RecoveredStatusFacts
    <3>2. attempt_count[t] \in Nat /\ MAX_TASK_ATTEMPTS \in Nat
      BY <1>1, TaskQueueAssumption DEF TypeOK
    <3>3. \A x \in TargetsOf(t) : \/ target_status'[x] = target_status[x]
                                  \/ /\ target_status[x] \notin TERMINAL_STATUSES
                                     /\ target_status'[x] = "queued"
      BY <1>1, <2>3, <3>1, <3>2, RecoveredTargetsFacts DEF TargetsOf
    <3>4. \A x \in TargetsOf(t) :
            \/ target_status'[x] = target_status[x]
            \/ {target_status[x], target_status'[x]} \cap TERMINAL_STATUSES = {}
      BY <3>3 DEF TERMINAL_STATUSES
    <3> QED
      BY <1>1, <2>1, <3>4, TallySame
  <2> QED
    BY <2>2, <2>3
<1> QED
  BY <1>2, <1>3

\* A step that leaves the counters alone and finishes no target.
LEMMA TallyUntouched ==
  ASSUME CountsExact, counts' = counts,
         \A x \in Targets : \/ target_status'[x] = target_status[x]
                            \/ {target_status[x], target_status'[x]} \cap TERMINAL_STATUSES = {}
  PROVE  CountsExact'
<1> SUFFICES ASSUME NEW t \in Tasks
             PROVE  counts'[t] = Tally(t, target_status')
  BY Zenon DEF CountsExact, Tally, CountOf, TargetsOf
<1>1. Tally(t, target_status') = Tally(t, target_status)
  BY TallySame DEF TargetsOf
<1> QED
  BY <1>1 DEF CountsExact

\* A step that counts the targets of one task.
LEMMA TallyWritten ==
  ASSUME CountsExact, NEW t \in Tasks, counts \in [Tasks -> Counts],
         counts' = [counts EXCEPT ![t] = Tally(t, target_status')],
         \A u \in Tasks \ {t} : \A x \in TargetsOf(u) : target_status'[x] = target_status[x]
  PROVE  CountsExact'
<1> SUFFICES ASSUME NEW u \in Tasks
             PROVE  counts'[u] = Tally(u, target_status')
  BY Zenon DEF CountsExact, Tally, CountOf, TargetsOf
<1>1. CASE u = t
  BY <1>1
<1>2. CASE u # t
  <2>1. Tally(u, target_status') = Tally(u, target_status)
    BY <1>2, TallySame
  <2>2. counts'[u] = counts[u] /\ counts[u] = Tally(u, target_status)
    BY <1>2 DEF CountsExact
  <2> QED
    BY <2>1, <2>2
<1> QED
  BY <1>1, <1>2

\* Every step keeps the counters exact.
LEMMA CountsStayExact ==
  ASSUME IInv, CountsExact, Next
  PROVE  CountsExact'
<1>0. /\ TypeOK /\ OnlyRunningTasksRun
      /\ \A x \in Targets : TaskOf[x] \in Tasks
      /\ {"absent", "queued", "running"} \cap TERMINAL_STATUSES = {}
  BY TaskQueueAssumption DEF IInv, TERMINAL_STATUSES
<1>1. ASSUME NEW t \in Tasks, NEW key \in Scopes, Enqueue(t, key) PROVE CountsExact'
  <2>1. \A x \in TargetsOf(t) : target_status[x] = "absent"
    BY <1>1 DEF IInv, AttemptsLeft, Enqueue
  <2>2. \A x \in Targets : \/ target_status'[x] = target_status[x]
                           \/ {target_status[x], target_status'[x]} \cap TERMINAL_STATUSES = {}
    BY <1>0, <1>1, <2>1 DEF Enqueue, TargetsOf
  <2> QED
    BY <1>1, <2>2, TallyUntouched DEF Enqueue
<1>2. ASSUME NEW t \in Tasks, Cancel(t) PROVE CountsExact'
  <2>1. AllTerminal(t, target_status')
    BY <1>2 DEF Cancel, CancelledTargets, AllTerminal, TargetsOf, TERMINAL_STATUSES
  <2>2. counts' = [counts EXCEPT ![t] = Tally(t, target_status')]
    BY <1>2, <2>1, CancelIsTally DEF Cancel
  <2>3. \A u \in Tasks \ {t} : \A x \in TargetsOf(u) : target_status'[x] = target_status[x]
    BY <1>2 DEF Cancel, CancelledTargets, TargetsOf
  <2> QED
    BY <1>0, <2>2, <2>3, TallyWritten DEF TypeOK
<1>3. ASSUME UNCHANGED <<counts, target_status>> PROVE CountsExact'
  BY <1>3, TallyUntouched
<1>4. ASSUME NEW w \in Workers, NEW R \in SUBSET Expired, Recover(w, R) PROVE CountsExact'
  BY <1>4, RecoveryCounts DEF Recover
<1>5. ASSUME NEW w \in Workers, NEW R \in SUBSET Expired, NEW t \in Tasks, Claim(w, R, t)
      PROVE  CountsExact'
  BY <1>5, RecoveryCounts DEF Claim
<1>6. ASSUME NEW w \in Workers, MainStep(w) \/ Stop(w) \/ Crash(w) PROVE CountsExact'
  <2>1. CASE FinishCommit(w) /\ CanFinish(w, claimed[w])
    <3>1. claimed[w] \in Tasks /\ status[claimed[w]] = "running"
      BY <2>1 DEF IInv, BusyWorkers, FinishCommit, CanFinish
    <3>2. \A x \in TargetsOf(claimed[w]) : target_status[x] # "cancelled"
      BY <1>0, <3>1 DEF OnlyRunningTasksRun, TargetsOf
    <3>3. /\ counts' = [counts EXCEPT ![claimed[w]] = Tally(claimed[w], target_status')]
          /\ target_status' = target_status
      BY <2>1, <3>2, ProgressIsTally DEF FinishCommit, targetVars
    <3> QED
      BY <1>0, <3>1, <3>3, TallyWritten DEF TypeOK
  <2>2. CASE ~(FinishCommit(w) /\ CanFinish(w, claimed[w]))
    BY <1>3, <1>6, <2>2 DEF MainStep, LoadTargets, Submit, Renew, HeartbeatError, Abandon,
       MainError, FinishRead, FinishCommit, Stop, Crash, taskVars, targetVars
  <2> QED
    BY <2>1, <2>2
<1>7. ASSUME NEW h \in threads, BeginTarget(h) PROVE CountsExact'
  <2>1. \A x \in Targets : \/ target_status'[x] = target_status[x]
                           \/ {target_status[x], target_status'[x]} \cap TERMINAL_STATUSES = {}
    BY <1>0, <1>7 DEF TypeOK, BeginTarget, CanBegin
  <2> QED
    BY <1>7, <2>1, TallyUntouched DEF BeginTarget, taskVars
<1>8. ASSUME NEW h \in threads, NEW outcome \in Outcome, Persist(h, outcome)
      PROVE  CountsExact'
  <2> DEFINE t == TaskOf[h.target]
  <2>1. h.target \in Targets /\ t \in Tasks /\ status[t] = "running"
    BY <1>0, <1>8 DEF TypeOK, Thread, Persist, CanPersist, has_live_lease
  <2>2. \A x \in TargetsOf(t) : target_status'[x] # "cancelled"
    BY <1>0, <1>8, <2>1 DEF TypeOK, Persist, OnlyRunningTasksRun, TargetsOf, Outcome
  <2>3. counts' = [counts EXCEPT ![t] = Tally(t, target_status')]
    BY <1>8, <2>2, ProgressIsTally DEF Persist
  <2>4. \A u \in Tasks \ {t} : \A x \in TargetsOf(u) : target_status'[x] = target_status[x]
    BY <1>0, <1>8 DEF TypeOK, Persist, TargetsOf
  <2> HIDE DEF t
  <2> QED
    BY <1>0, <2>1, <2>3, <2>4, TallyWritten DEF TypeOK
<1>9. ASSUME NEW t \in Tasks, Expire(t) PROVE CountsExact'
  BY <1>3, <1>9 DEF Expire, targetVars
<1>10. ASSUME NEW h \in threads, Refused(h) \/ ThreadError(h) PROVE CountsExact'
  BY <1>3, <1>10 DEF Refused, ThreadError, taskVars, targetVars
<1> QED
  BY <1>1, <1>2, <1>4, <1>5, <1>6, <1>7, <1>8, <1>9, <1>10
     DEF Next, RecoverAny, ClaimAny, ThreadStep

\* Recovery closes a task with the verdict of its targets.
LEMMA RecoveryCloses ==
  ASSUME IInv, NEW R \in SUBSET Expired, NEW t \in Tasks,
         target_status' = RecoveredTargets(R),
         status[t] \notin TERMINAL_STATUSES, RecoveredStatus(R)[t] \in TERMINAL_STATUSES
  PROVE  /\ AllTerminal(t, target_status')
         /\ RecoveredStatus(R)[t] = finished_status(t, target_status')
<1>1. t \in R
  BY RecoveredStatusFacts DEF IInv
<1>2. AllTerminal(t, RecoveredTargets(R))
  BY <1>1, RecoveredStatusFacts DEF IInv, TERMINAL_STATUSES
<1> QED
  BY <1>1, <1>2 DEF RecoveredStatus

\* Every step keeps the verdicts: a task is closed by its targets and only then.
LEMMA VerdictsStayFit ==
  ASSUME IInv, VerdictFits, Next
  PROVE  VerdictFits'
<1> SUFFICES ASSUME NEW t \in Tasks, status'[t] \in TERMINAL_STATUSES
             PROVE  /\ AllTerminal(t, target_status')
                    /\ status'[t] \in Outcome => status'[t] = finished_status(t, target_status')
  BY DEF VerdictFits, Outcome, TERMINAL_STATUSES, AllTerminal, finished_status
<1>0. TypeOK /\ {"absent", "queued", "running"} \cap TERMINAL_STATUSES = {}
  BY DEF IInv, TERMINAL_STATUSES
<1>1. CASE status[t] \in TERMINAL_STATUSES
  <2>1. /\ status'[t] = status[t] /\ AllTerminal(t, target_status)
        /\ status[t] \in Outcome => status[t] = finished_status(t, target_status)
    BY <1>1, TerminalKept DEF KeepsTerminal, VerdictFits
  <2>2. \A x \in TargetsOf(t) : target_status'[x] = target_status[x]
    BY <2>1, TerminalKept DEF KeepsTerminal, AllTerminal, TargetsOf
  <2> QED
    BY <2>1, <2>2 DEF AllTerminal, finished_status
<1>2. CASE status[t] \notin TERMINAL_STATUSES
  <2>1. ASSUME NEW u \in Tasks, NEW key \in Scopes, Enqueue(u, key) PROVE FALSE
    BY <1>0, <1>2, <2>1 DEF Enqueue, TypeOK
  <2>2. ASSUME NEW u \in Tasks, Cancel(u)
        PROVE  AllTerminal(t, target_status') /\ status'[t] \notin Outcome
    BY <1>0, <1>2, <2>2 DEF TypeOK, Cancel, CancelledTargets, AllTerminal, TargetsOf,
       TERMINAL_STATUSES, Outcome
  <2>3. ASSUME NEW w \in Workers, NEW R \in SUBSET Expired, Recover(w, R)
        PROVE  AllTerminal(t, target_status') /\ status'[t] = finished_status(t, target_status')
    BY <1>2, <2>3, RecoveryCloses DEF Recover
  <2>4. ASSUME NEW w \in Workers, NEW R \in SUBSET Expired, NEW u \in Tasks, Claim(w, R, u)
        PROVE  AllTerminal(t, target_status') /\ status'[t] = finished_status(t, target_status')
    <3>1. RecoveredStatus(R) \in [Tasks -> Status \cup {"absent"}]
      BY <1>0, RecoveredStatusFacts
    <3>2. t # u /\ status'[t] = RecoveredStatus(R)[t]
      BY <1>0, <2>4, <3>1 DEF Claim
    <3> QED
      BY <1>2, <2>4, <3>2, RecoveryCloses DEF Claim
  <2>5. ASSUME NEW w \in Workers, FinishCommit(w)
        PROVE  AllTerminal(t, target_status') /\ status'[t] = finished_status(t, target_status')
    <3>1. /\ t = claimed[w] /\ CanFinish(w, t) /\ target_status' = target_status
          /\ status'[t] = finished_status(t, target_status)
      BY <1>0, <1>2, <2>5 DEF TypeOK, FinishCommit, targetVars
    <3> QED
      BY <3>1 DEF CanFinish, AllTerminal, finished_status
  <2>6. ASSUME status' = status PROVE FALSE
    BY <1>2, <2>6
  <2>7. ASSUME NEW w \in Workers, MainStep(w) \/ Stop(w) \/ Crash(w), ~FinishCommit(w)
        PROVE  FALSE
    BY <2>6, <2>7 DEF MainStep, LoadTargets, Submit, Renew, HeartbeatError, Abandon,
       MainError, FinishRead, Stop, Crash, taskVars
  <2>8. ASSUME NEW h \in threads, ThreadStep(h) PROVE FALSE
    BY <2>6, <2>8 DEF ThreadStep, BeginTarget, Persist, Refused, ThreadError, taskVars
  <2>9. ASSUME NEW u \in Tasks, Expire(u) PROVE FALSE
    BY <2>6, <2>9 DEF Expire
  <2> QED
    BY <2>1, <2>2, <2>3, <2>4, <2>5, <2>7, <2>8, <2>9 DEF Next, RecoverAny, ClaimAny
<1> QED
  BY <1>1, <1>2

\* The counters and the status of a task row agree with its target rows in every state,
\* whoever recounted them last: the thread that published, the Worker that closed the
\* task, the one that recovered it or the request that cancelled it
\* (state.save_target, queue._finish_locked, _recover_expired_locked, _cancel_task_once).
THEOREM SummaryAgrees == Spec => []SummaryMatchesTargets
<1>1. Init => CountsExact
  <2> SUFFICES ASSUME Init, NEW t \in Tasks PROVE counts[t] = Tally(t, target_status)
    BY DEF CountsExact
  <2>1. \A S \in SUBSET TERMINAL_STATUSES : CountOf(t, target_status, S) = 0
    <3>1. \A x \in TargetsOf(t) : target_status[x] = "absent"
      BY DEF Init, TargetsOf
    <3> QED
      BY <3>1, CountExtremes DEF TERMINAL_STATUSES
  <2>2. {{"success"}, {"failed", "partial"}, TERMINAL_STATUSES} \subseteq SUBSET TERMINAL_STATUSES
    BY DEF TERMINAL_STATUSES
  <2>3. /\ CountOf(t, target_status, TERMINAL_STATUSES) = 0
        /\ CountOf(t, target_status, {"success"}) = 0
        /\ CountOf(t, target_status, {"failed", "partial"}) = 0
    BY <2>1, <2>2
  <2> QED
    BY <2>3 DEF Init, Tally
<1>2. Init => VerdictFits
  BY DEF Init, VerdictFits, TERMINAL_STATUSES, Outcome
<1>3. IInv /\ CountsExact /\ VerdictFits /\ [Next]_vars => (CountsExact /\ VerdictFits)'
  <2>1. ASSUME CountsExact, VerdictFits, UNCHANGED vars
        PROVE  (CountsExact /\ VerdictFits)'
    <3>1. status' = status /\ target_status' = target_status /\ counts' = counts
      BY <2>1 DEF vars, taskVars, targetVars
    <3>2. CountsExact'
      BY <2>1, <3>1, TallyUntouched
    <3>3. VerdictFits'
      BY <2>1, <3>1 DEF VerdictFits, AllTerminal, finished_status
    <3> QED
      BY <3>2, <3>3
  <2> QED
    BY <2>1, CountsStayExact, VerdictsStayFit
<1>4. Spec => [](CountsExact /\ VerdictFits)
  BY <1>1, <1>2, <1>3, QueueInvariant, PTL DEF Spec
<1> QED
  BY <1>4, SummaryFollows, QueueInvariant, PTL
=============================================================================
