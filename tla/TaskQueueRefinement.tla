------------------------ MODULE TaskQueueRefinement ------------------------
(***************************************************************************)
(* TaskQueue implements TaskLifecycle, for every size of the system.       *)
(***************************************************************************)
EXTENDS TaskQueueProofs

\* The two modules name the targets and the final statuses of a task alike.
LEMMA SameNames ==
  /\ \A t : Lifecycle!Own(t) = TargetsOf(t)
  /\ Lifecycle!Final = TERMINAL_STATUSES
  BY DEF Lifecycle!Own, Lifecycle!Final, TargetsOf, TERMINAL_STATUSES

\* _finish_locked's status is the verdict on the results when nothing was
\* cancelled.
LEMMA FinishedIsVerdict ==
  ASSUME NEW t \in Tasks, NEW st, AllTerminal(t, st),
         \A x \in TargetsOf(t) : st[x] # "cancelled"
  PROVE  /\ finished_status(t, st) = "success" <=> \A x \in TargetsOf(t) : st[x] = "success"
         /\ finished_status(t, st) = "failed" <=> \A x \in TargetsOf(t) : st[x] = "failed"
         /\ finished_status(t, st) \in {"success", "partial", "failed"}
<1>1. \E x \in TargetsOf(t) : TRUE
  BY TaskQueueAssumption DEF TargetsOf
<1> QED
  BY <1>1 DEF finished_status, AllTerminal, TERMINAL_STATUSES

\* A recovered task is given back or closed.
LEMMA RecoveredStep ==
  ASSUME IInv, NEW R \in SUBSET Expired, NEW t \in R,
         status'[t] = RecoveredStatus(R)[t], attempt_count'[t] = attempt_count[t],
         target_status' = RecoveredTargets(R)
  PROVE  Lifecycle!GiveBack(t) \/ Lifecycle!Close(t)
<1> DEFINE st == RecoveredTargets(R)
<1>1. t \in Tasks /\ status[t] = "running" /\ TypeOK
  BY RecoveredStatusFacts DEF IInv
<1>2. attempt_count[t] \in 0 .. MAX_TASK_ATTEMPTS /\ MAX_TASK_ATTEMPTS \in Nat
  BY <1>1, TaskQueueAssumption DEF TypeOK
<1>3. \A x \in TargetsOf(t) :
        /\ x \in Targets /\ TaskOf[x] = t
        /\ target_status[x] \in TERMINAL_STATUSES => st[x] = target_status[x]
        /\ target_status[x] \notin TERMINAL_STATUSES =>
             \/ st[x] = "queued" /\ attempt_count[t] < MAX_TASK_ATTEMPTS
             \/ st[x] = "failed" /\ attempt_count[t] >= MAX_TASK_ATTEMPTS
  BY <1>1, RecoveredTargetsFacts DEF TargetsOf
<1>4. \A x \in TargetsOf(t) : target_status[x] # "cancelled"
  BY <1>1, <1>3 DEF IInv, OnlyRunningTasksRun
<1>5. target_status' = st
  OBVIOUS
<1>6. CASE AllTerminal(t, st)
  <2>1. \A x \in TargetsOf(t) : st[x] # "cancelled"
    BY <1>3, <1>4
  <2>2. status'[t] = finished_status(t, st)
    BY <1>1, <1>6 DEF RecoveredStatus
  <2>3. Lifecycle!Verdict(t)
    BY <1>1, <1>5, <1>6, <2>1, <2>2, FinishedIsVerdict, SameNames DEF Lifecycle!Verdict
  <2>4. status'[t] \in {"success", "partial", "failed"}
    BY <1>1, <1>6, <2>1, <2>2, FinishedIsVerdict
  <2>5. \A x \in TargetsOf(t) : st[x] =
          IF target_status[x] \in TERMINAL_STATUSES THEN target_status[x] ELSE "failed"
    BY <1>3, <1>6 DEF AllTerminal, TERMINAL_STATUSES
  <2>6. \/ attempt_count[t] = MAX_TASK_ATTEMPTS
        \/ \A x \in TargetsOf(t) : target_status[x] \in TERMINAL_STATUSES
    BY <1>2, <1>3, <1>6 DEF AllTerminal, TERMINAL_STATUSES
  <2> HIDE DEF st
  <2> QED
    BY <1>1, <1>5, <2>3, <2>4, <2>5, <2>6, SameNames DEF Lifecycle!Close
<1>7. CASE ~AllTerminal(t, st)
  <2>1. status'[t] = "queued" /\ attempt_count[t] < MAX_TASK_ATTEMPTS
    <3>1. status'[t] = "queued"
      BY <1>1, <1>7 DEF RecoveredStatus
    <3> QED
      BY <1>1, <3>1, RecoveredStatusFacts
  <2>2. \A x \in TargetsOf(t) : st[x] =
          IF target_status[x] \in TERMINAL_STATUSES THEN target_status[x] ELSE "queued"
    BY <1>2, <1>3, <2>1
  <2> HIDE DEF st
  <2> QED
    BY <1>1, <1>5, <2>1, <2>2, SameNames
       DEF Lifecycle!GiveBack, Lifecycle!Becomes, Lifecycle!Reset
<1> QED
  BY <1>6, <1>7

\* Every step of the queue is, for each task, a step of its life cycle.
LEMMA StepRefines ==
  ASSUME IInv, Next
  PROVE  Lifecycle!Next \/ UNCHANGED Lifecycle!lifecycleVars
<1> USE DEF Lifecycle!Next, Lifecycle!Step
<1>0. /\ \A t \in Tasks : \A x \in TargetsOf(t) : x \in Targets /\ TaskOf[x] = t
      /\ \A x \in Targets : TaskOf[x] \in Tasks
  BY TaskQueueAssumption DEF TargetsOf
<1>1. ASSUME NEW t \in Tasks, NEW key \in Scopes, Enqueue(t, key) PROVE Lifecycle!Next
  <2>1. Lifecycle!Admit(t)
    BY <1>0, <1>1, SameNames DEF IInv, TypeOK, Enqueue, Lifecycle!Admit, Lifecycle!Becomes
  <2>2. \A u \in Tasks \ {t} : Lifecycle!Untouched(u)
    BY <1>0, <1>1, SameNames DEF IInv, TypeOK, Enqueue, Lifecycle!Untouched
  <2> QED
    BY <2>1, <2>2
<1>2. ASSUME NEW t \in Tasks, Cancel(t) PROVE Lifecycle!Next
  <2>1. Lifecycle!Cancel(t)
    BY <1>0, <1>2, SameNames DEF IInv, TypeOK, Cancel, CancelledTargets, Lifecycle!Cancel,
       ACTIVE_STATUSES
  <2>2. \A u \in Tasks \ {t} : Lifecycle!Untouched(u)
    BY <1>0, <1>2, SameNames DEF IInv, TypeOK, Cancel, CancelledTargets, Lifecycle!Untouched
  <2> QED
    BY <2>1, <2>2
<1>3. ASSUME NEW w \in Workers, NEW R \in SUBSET Expired, Recover(w, R)
      PROVE  Lifecycle!Next
  <2>1. \A u \in R : Lifecycle!GiveBack(u) \/ Lifecycle!Close(u)
    BY <1>3, RecoveredStep DEF Recover
  <2>2. \A u \in Tasks \ R : Lifecycle!Untouched(u)
    BY <1>0, <1>3, RecoveredStatusFacts, RecoveredTargetsFacts, SameNames
       DEF IInv, Recover, Lifecycle!Untouched
  <2> QED
    BY <2>1, <2>2
<1>4. ASSUME NEW w \in Workers, NEW R \in SUBSET Expired, NEW t \in Tasks,
             Claim(w, R, t)
      PROVE  Lifecycle!Next
  <2>1. /\ TypeOK /\ RecoveredStatus(R)[t] = "queued" /\ status'[t] = "running"
        /\ attempt_count'[t] = attempt_count[t] + 1
        /\ \A u \in Tasks \ {t} : status'[u] = RecoveredStatus(R)[u]
                                  /\ attempt_count'[u] = attempt_count[u]
        /\ target_status' = RecoveredTargets(R)
    BY <1>4, RecoveredStatusFacts DEF IInv, TypeOK, Claim
  <2>2. \A u \in R \ {t} : Lifecycle!GiveBack(u) \/ Lifecycle!Close(u)
    <3>1. \A u \in R : u \in Tasks
      BY DEF Expired
    <3> QED
      BY <2>1, <3>1, RecoveredStep
  <2>3. \A u \in Tasks \ (R \cup {t}) : Lifecycle!Untouched(u)
    BY <1>0, <2>1, RecoveredStatusFacts, RecoveredTargetsFacts, SameNames
       DEF Lifecycle!Untouched
  <2>4. attempt_count[t] < MAX_TASK_ATTEMPTS
    BY <2>1, RecoveredStatusFacts DEF IInv, AttemptsLeft
  <2>5. CASE t \notin R
    <3>1. status[t] = "queued"
      BY <2>1, <2>5, RecoveredStatusFacts
    <3>2. \A x \in TargetsOf(t) : target_status'[x] = target_status[x]
                                  /\ target_status[x] # "running"
      BY <1>0, <2>1, <2>5, <3>1, RecoveredTargetsFacts DEF IInv, OnlyRunningTasksRun
    <3>3. Lifecycle!Take(t)
      BY <2>1, <2>4, <3>1, <3>2, SameNames DEF Lifecycle!Take, Lifecycle!Becomes
    <3> QED
      BY <2>2, <2>3, <3>3
  <2>6. CASE t \in R
    <3>1. status[t] = "running"
      BY <2>6 DEF Expired
    <3>2. \A x \in TargetsOf(t) : target_status'[x] =
            IF target_status[x] \in TERMINAL_STATUSES THEN target_status[x] ELSE "queued"
      <4>1. attempt_count[t] \in 0 .. MAX_TASK_ATTEMPTS /\ MAX_TASK_ATTEMPTS \in Nat
        BY <2>1, TaskQueueAssumption DEF TypeOK
      <4> QED
        BY <1>0, <2>1, <2>4, <2>6, <4>1, RecoveredTargetsFacts
    <3>3. Lifecycle!Retake(t)
      BY <2>1, <2>4, <3>1, <3>2, SameNames
         DEF Lifecycle!Retake, Lifecycle!Becomes, Lifecycle!Reset
    <3> QED
      BY <2>2, <2>3, <3>3
  <2> QED
    BY <2>5, <2>6
<1>5. ASSUME NEW w \in Workers, FinishCommit(w)
      PROVE  Lifecycle!Next \/ UNCHANGED Lifecycle!lifecycleVars
  <2> DEFINE t == claimed[w]
  <2>1. t \in Tasks
    BY <1>5 DEF IInv, BusyWorkers, FinishCommit
  <2>2. CASE ~CanFinish(w, t)
    BY <1>5, <2>2 DEF FinishCommit, targetVars, Lifecycle!lifecycleVars
  <2>3. CASE CanFinish(w, t)
    <3>1. /\ status[t] = "running" /\ AllTerminal(t, target_status)
          /\ status' = [status EXCEPT ![t] = finished_status(t, target_status)]
          /\ target_status' = target_status /\ attempt_count' = attempt_count
      BY <1>5, <2>3 DEF FinishCommit, CanFinish, targetVars
    <3> HIDE DEF t
    <3>2. \A x \in TargetsOf(t) : target_status[x] # "cancelled"
      BY <1>0, <2>1, <3>1 DEF IInv, OnlyRunningTasksRun
    <3>3. status'[t] = finished_status(t, target_status)
          /\ \A u \in Tasks \ {t} : status'[u] = status[u]
      BY <2>1, <3>1 DEF IInv, TypeOK
    <3>4. Lifecycle!Verdict(t) /\ status'[t] \in {"success", "partial", "failed"}
      BY <2>1, <3>1, <3>2, <3>3, FinishedIsVerdict, SameNames DEF Lifecycle!Verdict
    <3>5. Lifecycle!Close(t)
      BY <3>1, <3>4, SameNames DEF Lifecycle!Close, AllTerminal
    <3>6. \A u \in Tasks \ {t} : Lifecycle!Untouched(u)
      BY <3>1, <3>3 DEF Lifecycle!Untouched
    <3> QED
      BY <3>5, <3>6
  <2> QED
    BY <2>2, <2>3
<1>6. ASSUME NEW h \in threads, BeginTarget(h) \/ \E outcome \in Outcome : Persist(h, outcome)
      PROVE  Lifecycle!Next
  <2> DEFINE x == h.target
             t == TaskOf[x]
  <2>1. x \in Targets /\ t \in Tasks /\ x \in TargetsOf(t)
    BY <1>0 DEF IInv, TypeOK, Thread, TargetsOf
  <2>2. /\ status[t] = "running" /\ status' = status /\ attempt_count' = attempt_count
        /\ \/ target_status[x] = "queued" /\ target_status'[x] = "running"
           \/ /\ target_status[x] = "running"
              /\ target_status'[x] \in {"success", "partial", "failed"}
        /\ \A y \in Targets \ {x} : target_status'[y] = target_status[y]
    BY <1>6, <2>1 DEF IInv, TypeOK, BeginTarget, CanBegin, Persist, CanPersist, has_live_lease,
       taskVars, Outcome
  <2> HIDE DEF x, t
  <2>3. Lifecycle!Work(t)
    BY <1>0, <2>1, <2>2, SameNames DEF Lifecycle!Work, Lifecycle!Becomes
  <2>4. \A u \in Tasks \ {t} : Lifecycle!Untouched(u)
    <3>1. \A u \in Tasks \ {t} : \A y \in TargetsOf(u) : y \in Targets \ {x}
      BY <1>0, <2>1 DEF TargetsOf
    <3> QED
      BY <2>2, <3>1, SameNames DEF Lifecycle!Untouched
  <2> QED
    BY <2>3, <2>4
<1>7. ASSUME NEW w \in Workers, (MainStep(w) \/ Stop(w) \/ Crash(w)), ~FinishCommit(w)
      PROVE  UNCHANGED Lifecycle!lifecycleVars
  BY <1>7 DEF MainStep, LoadTargets, Submit, Renew, HeartbeatError, Abandon, MainError, FinishRead,
     Stop, Crash, taskVars, targetVars, Lifecycle!lifecycleVars
<1>8. ASSUME NEW t \in Tasks, Expire(t)
      PROVE  UNCHANGED Lifecycle!lifecycleVars
  BY <1>8 DEF Expire, targetVars, Lifecycle!lifecycleVars
<1>9. ASSUME NEW h \in threads, Refused(h) \/ ThreadError(h)
      PROVE  UNCHANGED Lifecycle!lifecycleVars
  BY <1>9 DEF Refused, ThreadError, taskVars, targetVars, Lifecycle!lifecycleVars
<1> QED
  BY <1>1, <1>2, <1>3, <1>4, <1>5, <1>6, <1>7, <1>8, <1>9
     DEF Next, RecoverAny, ClaimAny, ThreadStep

\* The queue with its Workers, leases and threads implements the life cycle.
THEOREM QueueRefinesLifecycle == Spec => ImplementsLifecycle
<1>1. Init => Lifecycle!Init
  BY TaskQueueAssumption DEF Init, Lifecycle!Init, TaskQueueAssumption
<1>2. IInv /\ [Next]_vars => [Lifecycle!Next]_(Lifecycle!lifecycleVars)
  <2>1. CASE UNCHANGED vars
    BY <2>1 DEF vars, taskVars, targetVars, Lifecycle!lifecycleVars
  <2>2. IInv /\ Next => Lifecycle!Next \/ UNCHANGED Lifecycle!lifecycleVars
    BY StepRefines
  <2> QED
    BY <2>1, <2>2
<1> QED
  BY <1>1, <1>2, QueueInvariant, PTL DEF Spec, ImplementsLifecycle, Lifecycle!Spec
=============================================================================
