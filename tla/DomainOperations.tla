-------------------------- MODULE DomainOperations --------------------------
(***************************************************************************)
(* Directory changes and directory synchronisation (net/domain/tasks.py,   *)
(* executor.py, secrets.py, sync_tasks.py and the domain part of           *)
(* net/inspections/worker.py and queue.py).                                *)
(*                                                                         *)
(* An operation is a task with an audit row (DomainOperation) and, when it *)
(* sets passwords, a one-time secret.  The Worker that has claimed it      *)
(* consumes the secret, marks the audit row, lets pool threads write to    *)
(* the directory, closes the task and then copies its status to the audit  *)
(* row.  A synchronisation reads the whole directory and replaces the      *)
(* local mirror.  TaskQueue has the queue itself in full; here a lease is  *)
(* lost, a Worker stopped or a heartbeat refused by setting the guard.     *)
(***************************************************************************)
EXTENDS Naturals, FiniteSets

CONSTANTS
  Operations, Syncs,  \* tasks that change the directory, tasks that read it
  Targets,
  Inventories,        \* what the rows may look like, see inventory
  Names,              \* the directory names
  Workers, Reliable,  \* process incarnations, and those that do not die
  MAX_TASK_ATTEMPTS,
  NoTask, NoWorker, NoContext

ASSUME DomainAssumption ==
  /\ Operations \cap Syncs = {}
  /\ \A i \in Inventories :
       /\ i.task \in [Targets -> Operations \cup Syncs]
       /\ i.dn \in [Targets -> Names]
       /\ i.password \subseteq Operations
       /\ \A x, y \in Targets :  \* a synchronisation has one target
            i.task[x] = i.task[y] /\ i.task[x] \in Syncs => x = y
  /\ MAX_TASK_ATTEMPTS \in Nat \ {0}
  /\ NoTask \notin Operations \cup Syncs /\ NoWorker \notin Workers

Tasks == Operations \cup Syncs

VARIABLES
  \* The immutable columns of the rows: the task of each target, the canonical
  \* directory name of an operation's target, the tasks that set passwords.
  inventory,
  status, attempt_count, lease, worker_id, target_status,  \* task and target rows
  op_status,          \* DomainOperation.status
  secret,             \* DomainOperationSecret: none, fresh, expired
  pc, claimed, generation, context, guard, remaining,      \* a Worker's memory
  threads,            \* running calls of _run_target
  directory,          \* changes each name has seen (external)
  mirror,             \* the last change the local tables know of
  writes              \* directory changes made for each target

taskVars   == <<inventory, status, attempt_count, lease, worker_id, target_status>>
opVars     == <<op_status, secret>>
workerVars == <<pc, claimed, generation, context, guard, remaining>>
dirVars    == <<directory, mirror, writes>>
vars == <<taskVars, opVars, workerVars, threads, dirVars>>

ACTIVE_STATUSES   == {"queued", "running"}
TERMINAL_STATUSES == {"success", "partial", "failed", "cancelled"}
TaskOf            == inventory.task
DnOf              == inventory.dn
PASSWORD_ACTIONS  == inventory.password
TargetsOf(t)      == {x \in Targets : TaskOf[x] = t}
Active(T)         == {t \in T : status[t] \in ACTIVE_STATUSES}

Init ==
  /\ inventory \in Inventories
  /\ status = [t \in Tasks |-> "absent"]
  /\ attempt_count = [t \in Tasks |-> 0]
  /\ lease = [t \in Tasks |-> "none"]
  /\ worker_id = [t \in Tasks |-> NoWorker]
  /\ target_status = [x \in Targets |-> "absent"]
  /\ op_status = [t \in Operations |-> "absent"]
  /\ secret = [t \in Operations |-> "none"]
  /\ pc = [w \in Workers |-> "idle"]
  /\ claimed = [w \in Workers |-> NoTask]
  /\ generation = [w \in Workers |-> 0]
  /\ context = [w \in Workers |-> NoContext]
  /\ guard = [w \in Workers |-> FALSE]
  /\ remaining = [w \in Workers |-> {}]
  /\ threads = {}
  /\ directory = [d \in Names |-> 0]
  /\ mirror = [d \in Names |-> 0]
  /\ writes = [x \in Targets |-> 0]

-----------------------------------------------------------------------------
(* Web requests.  Both enqueues lock the row of Domain_Controller_Config.  *)

CreateRows(t) ==
  /\ status[t] = "absent" /\ TargetsOf(t) # {}
  /\ status' = [status EXCEPT ![t] = "queued"]
  /\ target_status' = [x \in Targets |->
                         IF TaskOf[x] = t THEN "queued" ELSE target_status[x]]
  /\ UNCHANGED <<inventory, attempt_count, lease, worker_id, workerVars, threads,
                 dirVars>>

\* Refused while a synchronisation is active, or an operation that touches one of
\* the names (the unique execution_scope_key stands behind that query).
EnqueueOperation(t) ==
  /\ Active(Syncs) = {}
  /\ \A x \in TargetsOf(t), y \in Targets :
       TaskOf[y] \in Active(Operations) => DnOf[x] # DnOf[y]
  /\ CreateRows(t)
  /\ op_status' = [op_status EXCEPT ![t] = "queued"]
  /\ secret' = [secret EXCEPT ![t] = IF t \in PASSWORD_ACTIONS THEN "fresh" ELSE "none"]

\* Mutant: a synchronisation is accepted while operations are under way.
sync_allowed_Always == Active(Syncs) = {}

sync_allowed == Active(Operations) = {} /\ Active(Syncs) = {}

EnqueueSync(t) ==
  /\ sync_allowed
  /\ CreateRows(t)
  /\ UNCHANGED opVars

\* cancel_task: the audit row follows and an unused secret is deleted.
Cancel(t) ==
  /\ status[t] \in ACTIVE_STATUSES
  /\ status' = [status EXCEPT ![t] = "cancelled"]
  /\ lease' = [lease EXCEPT ![t] = "none"]
  /\ target_status' = [x \in Targets |->
                         IF TaskOf[x] = t /\ target_status[x] \notin TERMINAL_STATUSES
                         THEN "cancelled" ELSE target_status[x]]
  /\ op_status' = [o \in Operations |-> IF o = t THEN "cancelled" ELSE op_status[o]]
  /\ secret' = [o \in Operations |-> IF o = t THEN "none" ELSE secret[o]]
  /\ UNCHANGED <<inventory, attempt_count, worker_id, workerVars, threads, dirVars>>

-----------------------------------------------------------------------------
(* Lease recovery and claiming.                                            *)

AllTerminal(t, st) == \A x \in TargetsOf(t) : st[x] \in TERMINAL_STATUSES

finished_status(t, st) ==
  IF \A x \in TargetsOf(t) : st[x] = "success" THEN "success"
  ELSE IF \E x \in TargetsOf(t) : st[x] = "success" THEN "partial" ELSE "failed"

\* Mutant: a target that was being worked on stays running.
recovered_target_Running(x) ==
  IF target_status[x] # "queued" \/ attempt_count[TaskOf[x]] < MAX_TASK_ATTEMPTS
  THEN target_status[x] ELSE "failed"

recovered_target(x) ==
  IF target_status[x] \in TERMINAL_STATUSES THEN target_status[x]
  ELSE IF attempt_count[TaskOf[x]] >= MAX_TASK_ATTEMPTS THEN "failed"
  ELSE "queued"

\* _recover_expired_locked: closing a task closes its audit row with it.
Recover(t) ==
  /\ status[t] = "running" /\ lease[t] = "expired"
  /\ target_status' = [x \in Targets |-> IF TaskOf[x] = t THEN recovered_target(x)
                                                          ELSE target_status[x]]
  /\ LET st == IF AllTerminal(t, target_status')
               THEN finished_status(t, target_status') ELSE "queued"
     IN /\ status' = [status EXCEPT ![t] = st]
        /\ worker_id' = [worker_id EXCEPT ![t] = IF st = "queued" THEN NoWorker ELSE @]
        /\ op_status' = [o \in Operations |-> IF o = t /\ st # "queued" THEN st
                                              ELSE op_status[o]]
  /\ lease' = [lease EXCEPT ![t] = "none"]
  /\ UNCHANGED <<inventory, attempt_count, secret, workerVars, threads, dirVars>>

Claim(w, t) ==
  /\ pc[w] = "idle" /\ status[t] = "queued"
  /\ status' = [status EXCEPT ![t] = "running"]
  /\ worker_id' = [worker_id EXCEPT ![t] = w]
  /\ lease' = [lease EXCEPT ![t] = "live"]
  /\ attempt_count' = [attempt_count EXCEPT ![t] = @ + 1]
  /\ pc' = [pc EXCEPT ![w] = "claimed"]
  /\ claimed' = [claimed EXCEPT ![w] = t]
  /\ generation' = [generation EXCEPT ![w] = attempt_count'[t]]
  /\ UNCHANGED <<inventory, target_status, opVars, context, guard, remaining, threads,
                 dirVars>>

has_live_lease(t, w) == status[t] = "running" /\ worker_id[t] = w /\ lease[t] = "live"

\* The fence of the domain code: the live lease of the very claim.
HoldsClaim(w) == /\ has_live_lease(claimed[w], w)
                 /\ attempt_count[claimed[w]] = generation[w]

-----------------------------------------------------------------------------
(* The main thread of a Worker.                                            *)

\* Mutant: the secret outlives its consumption.
secret_after_Kept(t) == secret[t]

\* What consume_operation_secret leaves inside the transaction of
\* prepare_domain_task_context: a usable secret is deleted; the deletion of an
\* expired one is undone, since the error is raised through that transaction.
secret_after(t) == IF secret[t] = "fresh" THEN "none" ELSE secret[t]

\* The queued targets are listed, then prepare_domain_task_context.
Prepare(w) ==
  LET t  == claimed[w]
      pw == t \in PASSWORD_ACTIONS
  IN /\ pc[w] = "claimed"
     /\ remaining' = [remaining EXCEPT ![w] =
                        {x \in TargetsOf(t) : target_status[x] = "queued"}]
     /\ IF guard[w] \/ t \in Syncs
        THEN pc' = [pc EXCEPT ![w] = "running"] /\ UNCHANGED <<context, secret>>
        ELSE /\ pc' = [pc EXCEPT ![w] = "prepared"]
             /\ IF HoldsClaim(w) /\ (pw => secret[t] = "fresh")
                THEN context' = [context EXCEPT ![w] = [password |-> pw]]
                ELSE UNCHANGED context
             /\ secret' = IF HoldsClaim(w) /\ pw
                          THEN [secret EXCEPT ![t] = secret_after(t)] ELSE secret
     /\ UNCHANGED <<taskVars, op_status, claimed, generation, guard, threads, dirVars>>

\* mark_domain_operation_running, unless the guard was set in the meantime.
MarkRunning(w) ==
  /\ pc[w] = "prepared"
  /\ IF ~guard[w] /\ HoldsClaim(w)
     THEN /\ op_status' = [op_status EXCEPT ![claimed[w]] =
                             IF @ = "queued" THEN "running" ELSE @]
          /\ pc' = [pc EXCEPT ![w] = "running"]
     ELSE pc' = [pc EXCEPT ![w] = "leaving"] /\ UNCHANGED op_status
  /\ UNCHANGED <<taskVars, secret, claimed, generation, context, guard, remaining,
                 threads, dirVars>>

pending(w) == {h \in threads : h.worker = w}

\* submit_available: the targets of one name run one after the other.
Submit(w, x) ==
  /\ pc[w] = "running" /\ ~guard[w] /\ x \in remaining[w]
  /\ \A h \in pending(w) : DnOf[h.target] # DnOf[x]
  /\ remaining' = [remaining EXCEPT ![w] = @ \ {x}]
  /\ threads' = threads \cup
       {[worker |-> w, target |-> x, gen |-> generation[w], pc |-> "submitted",
         context |-> context[w], success |-> FALSE, read |-> directory]}
  /\ UNCHANGED <<taskVars, opVars, pc, claimed, generation, context, guard, dirVars>>

\* The service is stopped, a heartbeat is refused or raises.
SetGuard(w) ==
  /\ pc[w] \in {"claimed", "prepared", "running", "finishing"} /\ ~guard[w]
  /\ guard' = [guard EXCEPT ![w] = TRUE]
  /\ UNCHANGED <<taskVars, opVars, pc, claimed, generation, context, remaining,
                 threads, dirVars>>

\* The pool is empty: finish_task, or leave the task to lease recovery.
Drain(w) ==
  /\ pc[w] = "running" /\ pending(w) = {}
  /\ guard[w] \/ remaining[w] = {}
  /\ pc' = [pc EXCEPT ![w] = IF guard[w] THEN "leaving" ELSE "finishing"]
  /\ UNCHANGED <<taskVars, opVars, claimed, generation, context, guard, remaining,
                 threads, dirVars>>

Forget(w) ==
  /\ claimed' = [claimed EXCEPT ![w] = NoTask]
  /\ generation' = [generation EXCEPT ![w] = 0]
  /\ context' = [context EXCEPT ![w] = NoContext]
  /\ guard' = [guard EXCEPT ![w] = FALSE]
  /\ remaining' = [remaining EXCEPT ![w] = {}]

Idle(w) == Forget(w) /\ pc' = [pc EXCEPT ![w] = "idle"]

CanFinish(w) == /\ has_live_lease(claimed[w], w)
                /\ AllTerminal(claimed[w], target_status)

\* Mutant: a refused finish_task does not keep the Worker from aggregating.
after_finish_Always(w) == IF claimed[w] \in Operations THEN "aggregating" ELSE "leaving"

\* finish_task raises when it is refused, so nothing is aggregated then.
after_finish(w) ==
  IF CanFinish(w) /\ claimed[w] \in Operations THEN "aggregating" ELSE "leaving"

FinishTask(w) ==
  LET t == claimed[w]
  IN /\ pc[w] = "finishing"
     /\ IF CanFinish(w)
        THEN /\ status' = [status EXCEPT ![t] = finished_status(t, target_status)]
             /\ lease' = [lease EXCEPT ![t] = "none"]
        ELSE UNCHANGED <<status, lease>>
     /\ pc' = [pc EXCEPT ![w] = after_finish(w)]
     /\ UNCHANGED <<inventory, attempt_count, worker_id, target_status, opVars, claimed,
                    generation, context, guard, remaining, threads, dirVars>>

\* The main thread raises (the database is away): before the pool exists the task
\* is simply left, afterwards the guard is set on the way out.
MainError(w) ==
  /\ \/ pc[w] \in {"claimed", "prepared"} /\ Idle(w)
     \/ /\ pc[w] \in {"finishing", "aggregating"}
        /\ guard' = [guard EXCEPT ![w] = TRUE]
        /\ pc' = [pc EXCEPT ![w] = "leaving"]
        /\ UNCHANGED <<claimed, generation, context, remaining>>
  /\ UNCHANGED <<taskVars, opVars, threads, dirVars>>

\* aggregate_domain_operation, a transaction of its own.
Aggregate(w) ==
  /\ pc[w] = "aggregating"
  /\ op_status' = [op_status EXCEPT ![claimed[w]] =
                     finished_status(claimed[w], target_status)]
  /\ Idle(w)
  /\ UNCHANGED <<taskVars, secret, threads, dirVars>>

\* The end of _execute_claimed_task: a password task whose guard is set is not left
\* to a retry that could not know the password, its open targets fail at once
\* (abort_password_domain_task, whose finish_task and aggregation follow).
Leave(w) ==
  LET t    == claimed[w]
      open == {x \in TargetsOf(t) : target_status[x] \in ACTIVE_STATUSES}
  IN /\ pc[w] = "leaving"
     /\ IF /\ guard[w] /\ context[w] # NoContext /\ context[w].password
           /\ HoldsClaim(w) /\ open # {}
        THEN /\ target_status' = [x \in Targets |-> IF x \in open THEN "failed"
                                                    ELSE target_status[x]]
             /\ pc' = [pc EXCEPT ![w] = "finishing"]
             /\ UNCHANGED <<claimed, generation, context, guard, remaining>>
        ELSE Idle(w) /\ UNCHANGED target_status
     /\ UNCHANGED <<inventory, status, attempt_count, lease, worker_id, opVars, threads,
                    dirVars>>

-----------------------------------------------------------------------------
(* Pool threads: execute_domain_target and execute_domain_sync_target.     *)

Fence(h) ==
  /\ ~guard[h.worker]
  /\ has_live_lease(TaskOf[h.target], h.worker)

\* A thread of an operation without a context: it can only fail its target.
Bare(h) == h.context = NoContext /\ TaskOf[h.target] \in Operations

\* The expected attempt, which a bare thread does not know.
SameAttempt(h) == Bare(h) \/ attempt_count[TaskOf[h.target]] = h.gen

\* _begin_target
CanBegin(h) == Fence(h) /\ SameAttempt(h) /\ target_status[h.target] = "queued"

Begin(h) ==
  /\ h.pc = "submitted" /\ CanBegin(h)
  /\ target_status' = [target_status EXCEPT ![h.target] = "running"]
  /\ threads' = (threads \ {h}) \cup {[h EXCEPT !.pc =
                               IF Bare(h) THEN "answered" ELSE "calling"]}
  /\ UNCHANGED <<inventory, status, attempt_count, lease, worker_id, opVars, workerVars,
                 dirVars>>

\* DomainClient.execute, outside any lock and any fence: the directory may have
\* changed although a failure is reported (a timeout), never the reverse.
WriteDirectory(h, changed, success) ==
  /\ h.pc = "calling" /\ TaskOf[h.target] \in Operations
  /\ success => changed
  /\ IF changed
     THEN /\ directory' = [directory EXCEPT ![DnOf[h.target]] = @ + 1]
          /\ writes' = [writes EXCEPT ![h.target] = @ + 1]
     ELSE UNCHANGED <<directory, writes>>
  /\ threads' = (threads \ {h}) \cup
       {[h EXCEPT !.pc = "answered", !.success = success, !.read = directory']}
  /\ UNCHANGED <<taskVars, opVars, workerVars, mirror>>

\* fetch_domain_snapshot, which may fail.
ReadDirectory(h, success) ==
  /\ h.pc = "calling" /\ TaskOf[h.target] \in Syncs
  /\ threads' = (threads \ {h}) \cup
       {[h EXCEPT !.pc = "answered", !.success = success, !.read = directory]}
  /\ UNCHANGED <<taskVars, opVars, workerVars, dirVars>>

CanPublish(h) == Fence(h) /\ SameAttempt(h) /\ target_status[h.target] = "running"

\* _persist_domain_outcome, or _publish of a synchronisation.  An operation's own
\* name is mirrored unless that fails, which the next synchronisation mends; a
\* synchronisation whose mirror fails or whose configuration changed has failed.
Publish(h, mirrored) ==
  LET sync == TaskOf[h.target] \in Syncs
  IN /\ h.pc = "answered" /\ CanPublish(h)
     /\ mirrored => h.success
     /\ target_status' = [target_status EXCEPT ![h.target] =
          IF h.success /\ (sync => mirrored) THEN "success" ELSE "failed"]
     /\ mirror' = [d \in Names |-> IF mirrored /\ (sync \/ d = DnOf[h.target])
                                   THEN h.read[d] ELSE mirror[d]]
     /\ threads' = threads \ {h}
     /\ UNCHANGED <<inventory, status, attempt_count, lease, worker_id, opVars, workerVars,
                    directory, writes>>

\* The fence refuses the thread, or its database connection fails.
EndThread(h) ==
  /\ threads' = threads \ {h}
  /\ UNCHANGED <<taskVars, opVars, workerVars, dirVars>>

-----------------------------------------------------------------------------
(* Time and process death.                                                 *)

ExpireSecret(t) ==
  /\ secret[t] = "fresh"
  /\ secret' = [secret EXCEPT ![t] = "expired"]
  /\ UNCHANGED <<taskVars, op_status, workerVars, threads, dirVars>>

ExpireLease(t) ==
  /\ status[t] = "running" /\ lease[t] = "live"
  /\ lease' = [lease EXCEPT ![t] = "expired"]
  /\ UNCHANGED <<inventory, status, attempt_count, worker_id, target_status, opVars, workerVars,
                 threads, dirVars>>

Crash(w) ==
  /\ w \notin Reliable /\ pc[w] # "dead"
  /\ threads' = threads \ pending(w)
  /\ Forget(w) /\ pc' = [pc EXCEPT ![w] = "dead"]
  /\ UNCHANGED <<taskVars, opVars, dirVars>>

-----------------------------------------------------------------------------
WorkerStep(w) ==
  \/ Prepare(w) \/ MarkRunning(w)
  \/ \E x \in Targets : Submit(w, x)
  \/ Drain(w) \/ FinishTask(w) \/ Aggregate(w) \/ Leave(w)

ThreadStep(h) ==
  \/ Begin(h)
  \/ \E changed, success \in BOOLEAN : WriteDirectory(h, changed, success)
  \/ \E success \in BOOLEAN : ReadDirectory(h, success)
  \/ \E mirrored \in BOOLEAN : Publish(h, mirrored)
  \/ EndThread(h)

Next ==
  \/ \E t \in Operations : EnqueueOperation(t) \/ ExpireSecret(t)
  \/ \E t \in Syncs : EnqueueSync(t)
  \/ \E t \in Tasks : Cancel(t) \/ Recover(t) \/ ExpireLease(t)
  \/ \E w \in Workers : \/ \E t \in Tasks : Claim(w, t)
                        \/ WorkerStep(w) \/ SetGuard(w) \/ MainError(w) \/ Crash(w)
  \/ \E h \in threads : ThreadStep(h)

Spec == Init /\ [][Next]_vars

\* As in TaskQueue: a Worker that does not die goes on, calls end, time passes.
FairSpec ==
  /\ Spec
  /\ \A w \in Workers : WF_vars(\E t \in Tasks : Claim(w, t)) /\ WF_vars(WorkerStep(w))
  /\ \A w \in Workers, x \in Targets :
       WF_vars(\E h \in threads : h.worker = w /\ h.target = x /\ ThreadStep(h))
  /\ \A t \in Tasks : WF_vars(Recover(t)) /\ WF_vars(ExpireLease(t))

\* The rows of the task, as the queue promises them to whoever looks.
Lifecycle == INSTANCE TaskLifecycle
               WITH task_of <- TaskOf, abortable <- PASSWORD_ACTIONS,
                    status <- status, attempt_count <- attempt_count,
                    target_status <- target_status

-----------------------------------------------------------------------------
(* Properties.                                                             *)

\* "A one-time password task cannot be replayed blindly": whatever crashes, lost
\* leases and retries happen, the directory change of a password target is made at
\* most once, and it was made when the target is reported as a success.
PasswordWrittenOnce ==
  \A x \in Targets : TaskOf[x] \in PASSWORD_ACTIONS =>
    /\ writes[x] <= 1
    /\ target_status[x] = "success" => writes[x] = 1

\* The local tables never go back: a snapshot read before an operation changed the
\* directory is never published over the mirrored result of that operation, also
\* when tasks are cancelled or lose their leases while their threads still run.
KeepsMirror == \A d \in Names : mirror'[d] >= mirror[d]

MirrorNeverRegresses == [][KeepsMirror]_vars

\* The audit row never contradicts the task: what it says of a finished operation
\* is the verdict of its task.
AuditMatchesTask ==
  \A t \in Operations :
    /\ op_status[t] \in TERMINAL_STATUSES => op_status[t] = status[t]
    /\ status[t] = "cancelled" => op_status[t] = "cancelled" /\ secret[t] = "none"

\* Directory tasks go through the life cycle of TaskLifecycle like every other task,
\* although two enqueues, an executor with its own fences and the synchronisation move
\* their rows: what was done is not undone, nothing is retried beyond the limit, and
\* only a password task is broken off with its open targets failed.
ImplementsTaskLifecycle == Lifecycle!Spec

\* "password text/ciphertext is never retained": when the context of a password
\* task could not be prepared and its targets fail, its secret is gone.
SecretNotRetained ==
  \A w \in Workers :
    /\ pc[w] = "running" /\ ~guard[w]
    /\ claimed[w] \in PASSWORD_ACTIONS /\ context[w] = NoContext
    => secret[claimed[w]] = "none"

\* "Mirror terminal task aggregation onto its auditable operation envelope": the
\* audit row of a task that has ended gets the task's status.
AuditFollowsTask ==
  \A t \in Operations :
    status[t] \in TERMINAL_STATUSES ~> op_status[t] = status[t]
=============================================================================
