---------------------------- MODULE DomainProofs ----------------------------
(***************************************************************************)
(* Directory changes and synchronisations, for every number of tasks,      *)
(* targets, Workers and names: the audit row agrees with its task, a       *)
(* password is written at most once, and the mirror never goes back.       *)
(***************************************************************************)
EXTENDS DomainOperations, TLAPS

RowStatuses == {"absent"} \cup ACTIVE_STATUSES \cup TERMINAL_STATUSES
Contexts    == {NoContext} \cup [password : BOOLEAN]
CallRecords ==
  [worker : Workers, target : Targets, gen : Nat, pc : {"submitted", "calling", "answered"},
   context : Contexts, success : BOOLEAN, read : [Names -> Nat]]

RowsTyped ==
  /\ inventory \in Inventories
  /\ status \in [Tasks -> RowStatuses]
  /\ attempt_count \in [Tasks -> Nat]
  /\ lease \in [Tasks -> {"none", "live", "expired"}]
  /\ worker_id \in [Tasks -> Workers \cup {NoWorker}]
  /\ target_status \in [Targets -> RowStatuses]
  /\ op_status \in [Operations -> RowStatuses]
  /\ secret \in [Operations -> {"none", "fresh", "expired"}]

MemoryTyped ==
  /\ pc \in [Workers -> {"idle", "claimed", "prepared", "running", "finishing",
                         "aggregating", "leaving", "dead"}]
  /\ claimed \in [Workers -> Tasks \cup {NoTask}]
  /\ generation \in [Workers -> Nat]
  /\ context \in [Workers -> Contexts]
  /\ guard \in [Workers -> BOOLEAN]
  /\ remaining \in [Workers -> SUBSET Targets]

DirectoryTyped ==
  /\ threads \subseteq CallRecords
  /\ directory \in [Names -> Nat]
  /\ mirror \in [Names -> Nat]
  /\ writes \in [Targets -> Nat]

\* A Worker that has claimed nothing knows nothing, one that has prepared lists
\* targets of its task only.
MemoryFits ==
  \A w \in Workers :
    /\ pc[w] \notin {"idle", "dead"} => claimed[w] \in Tasks
    /\ pc[w] \in {"idle", "claimed", "dead"} => context[w] = NoContext /\ remaining[w] = {}
    /\ \A x \in remaining[w] : TaskOf[x] = claimed[w]

\* A call belongs to the present claim of a running Worker, which has taken its
\* target off the list and waits for it before it submits the same name again.
CallsBelong ==
  /\ \A h \in threads : /\ pc[h.worker] = "running"
                        /\ TaskOf[h.target] = claimed[h.worker]
                        /\ h.context = context[h.worker]
                        /\ h.target \notin remaining[h.worker]
                        /\ Bare(h) => ~h.success /\ h.pc # "calling"
  /\ \A g, h \in threads :
       g.worker = h.worker /\ DnOf[g.target] = DnOf[h.target] => g = h

IInv == RowsTyped /\ MemoryTyped /\ DirectoryTyped /\ MemoryFits /\ CallsBelong

-----------------------------------------------------------------------------
(* The memory of the Workers and their calls.                              *)

LEMMA InventoryTyped ==
  ASSUME inventory \in Inventories
  PROVE  /\ TaskOf \in [Targets -> Tasks] /\ DnOf \in [Targets -> Names]
         /\ PASSWORD_ACTIONS \subseteq Operations
         /\ Operations \cap Syncs = {} /\ NoTask \notin Tasks
         /\ \A x, y \in Targets : TaskOf[x] = TaskOf[y] /\ TaskOf[x] \in Syncs => x = y
BY DomainAssumption DEF DomainAssumption, TaskOf, DnOf, PASSWORD_ACTIONS, Tasks

LEMMA FinishedStatus ==
  ASSUME NEW t, NEW st
  PROVE  finished_status(t, st) \in {"success", "partial", "failed"}
BY DEF finished_status

LEMMA InitHolds == Init => IInv
<1> SUFFICES ASSUME Init PROVE IInv
  OBVIOUS
<1>1. RowsTyped
  BY DEF Init, RowsTyped, RowStatuses
<1>2. MemoryTyped
  BY DEF Init, MemoryTyped, Contexts
<1>3. DirectoryTyped /\ MemoryFits /\ CallsBelong
  BY DEF Init, DirectoryTyped, MemoryFits, CallsBelong
<1> QED
  BY <1>1, <1>2, <1>3 DEF IInv

\* What the database does by itself, and the requests.
LEMMA RequestKeeps ==
  ASSUME IInv, NEW t \in Tasks,
         \/ t \in Operations /\ (EnqueueOperation(t) \/ ExpireSecret(t))
         \/ t \in Syncs /\ EnqueueSync(t)
         \/ Cancel(t) \/ Recover(t) \/ ExpireLease(t)
  PROVE  IInv'
<1>1. UNCHANGED <<inventory, workerVars, threads, dirVars>>
  BY DEF EnqueueOperation, EnqueueSync, CreateRows, ExpireSecret, Cancel, Recover,
         ExpireLease, taskVars
<1>2. \A h : Bare(h)' <=> Bare(h)
  BY <1>1 DEF Bare, TaskOf
<1>3. (MemoryTyped /\ DirectoryTyped /\ MemoryFits /\ CallsBelong)'
  BY <1>1, <1>2 DEF IInv, MemoryTyped, DirectoryTyped, MemoryFits, CallsBelong, TaskOf, DnOf,
                    workerVars, dirVars
<1>4. RowsTyped'
  <2> USE DEF IInv, RowsTyped, RowStatuses, ACTIVE_STATUSES, TERMINAL_STATUSES
  <2>1. CASE t \in Operations /\ EnqueueOperation(t)
    BY <2>1 DEF EnqueueOperation, CreateRows
  <2>2. CASE t \in Syncs /\ EnqueueSync(t)
    BY <2>2 DEF EnqueueSync, CreateRows, opVars
  <2>3. CASE t \in Operations /\ ExpireSecret(t)
    BY <2>3 DEF ExpireSecret, taskVars
  <2>4. CASE Cancel(t)
    BY <2>4 DEF Cancel
  <2>5. CASE Recover(t)
    BY <2>5, FinishedStatus DEF Recover, recovered_target
  <2>6. CASE ExpireLease(t)
    BY <2>6 DEF ExpireLease, opVars
  <2> QED
    BY <2>1, <2>2, <2>3, <2>4, <2>5, <2>6
<1> QED
  BY <1>3, <1>4 DEF IInv

WorkerMoves(w) ==
  \/ \E t \in Tasks : Claim(w, t)
  \/ WorkerStep(w) \/ SetGuard(w) \/ MainError(w) \/ Crash(w)

LEMMA WorkerTyped ==
  ASSUME IInv, NEW w \in Workers, WorkerMoves(w)
  PROVE  RowsTyped' /\ MemoryTyped' /\ DirectoryTyped'
<1> USE DEF IInv, RowsTyped, MemoryTyped, DirectoryTyped
<1>1. CASE \E t \in Tasks : Claim(w, t)
  BY <1>1 DEF Claim, opVars, dirVars, RowStatuses, ACTIVE_STATUSES
<1>2. CASE Prepare(w)
  <2>1. UNCHANGED <<inventory, status, attempt_count, lease, worker_id, target_status,
                    op_status, claimed, generation, guard, threads, directory, mirror,
                    writes>>
    BY <1>2 DEF Prepare, taskVars, dirVars
  <2>2. secret' \in [Operations -> {"none", "fresh", "expired"}]
    BY <1>2 DEF Prepare, secret_after
  <2>3. context' \in [Workers -> Contexts]
    <3>1. [password |-> claimed[w] \in PASSWORD_ACTIONS] \in Contexts
      <4>1. \A b \in BOOLEAN : [password |-> b] \in Contexts
        BY DEF Contexts
      <4>2. (claimed[w] \in PASSWORD_ACTIONS) \in BOOLEAN
        OBVIOUS
      <4> QED
        BY <4>1, <4>2, Zenon
    <3> DEFINE known == [password |-> claimed[w] \in PASSWORD_ACTIONS]
    <3>2. context' = [context EXCEPT ![w] = known] \/ context' = context
      BY <1>2, Zenon DEF Prepare
    <3> HIDE DEF known
    <3>3. known \in Contexts => [context EXCEPT ![w] = known] \in [Workers -> Contexts]
      OBVIOUS
    <3> QED
      BY <3>1, <3>2, <3>3 DEF known
  <2>4. pc' \in [Workers -> {"idle", "claimed", "prepared", "running", "finishing",
                             "aggregating", "leaving", "dead"}]
    BY <1>2 DEF Prepare
  <2>5. remaining' \in [Workers -> SUBSET Targets]
    BY <1>2 DEF Prepare, TargetsOf
  <2> QED
    BY <2>1, <2>2, <2>3, <2>4, <2>5
<1>3. CASE MarkRunning(w)
  BY <1>3 DEF MarkRunning, taskVars, dirVars, RowStatuses, ACTIVE_STATUSES
<1>4. CASE \E x \in Targets : Submit(w, x)
  <2>1. PICK x \in Targets : Submit(w, x)
    BY <1>4
  <2>2. [worker |-> w, target |-> x, gen |-> generation[w], pc |-> "submitted",
         context |-> context[w], success |-> FALSE, read |-> directory] \in CallRecords
    BY DEF CallRecords
  <2> QED
    BY <2>1, <2>2 DEF Submit, taskVars, opVars, dirVars
<1>5. CASE Drain(w) \/ SetGuard(w)
  BY <1>5 DEF Drain, SetGuard, taskVars, opVars, dirVars
<1>6. CASE FinishTask(w)
  BY <1>6, FinishedStatus DEF FinishTask, opVars, dirVars, after_finish, RowStatuses,
                              TERMINAL_STATUSES
<1>7. CASE MainError(w)
  <2>1. CASE Idle(w)
    BY <1>7, <2>1 DEF MainError, Idle, Forget, taskVars, opVars, dirVars, Contexts
  <2>2. CASE ~ Idle(w)
    BY <1>7, <2>2 DEF MainError, taskVars, opVars, dirVars
  <2> QED
    BY <2>1, <2>2
<1>8. CASE Aggregate(w)
  BY <1>8, FinishedStatus DEF Aggregate, Idle, Forget, taskVars, dirVars, Contexts,
                              RowStatuses, TERMINAL_STATUSES
<1>9. CASE Leave(w)
  <2>1. CASE Idle(w) /\ UNCHANGED target_status
    BY <1>9, <2>1 DEF Leave, Idle, Forget, opVars, dirVars, Contexts
  <2>2. CASE ~ (Idle(w) /\ UNCHANGED target_status)
    <3>1. /\ \E open : target_status' = [x \in Targets |-> IF x \in open THEN "failed"
                                                           ELSE target_status[x]]
          /\ pc' = [pc EXCEPT ![w] = "finishing"]
          /\ UNCHANGED <<claimed, generation, context, guard, remaining, inventory, status,
                         attempt_count, lease, worker_id, opVars, threads, dirVars>>
      BY <1>9, <2>2, Zenon DEF Leave
    <3> QED
      BY <3>1 DEF opVars, dirVars, RowStatuses, TERMINAL_STATUSES
  <2> QED
    BY <2>1, <2>2
<1>10. CASE Crash(w)
  BY <1>10 DEF Crash, Forget, taskVars, opVars, dirVars, Contexts
<1> QED
  BY <1>1, <1>2, <1>3, <1>4, <1>5, <1>6, <1>7, <1>8, <1>9, <1>10 DEF WorkerMoves, WorkerStep

\* A Worker that is not running has no calls: what happens to it leaves them alone.
LEMMA CallsElsewhere ==
  ASSUME IInv, NEW w \in Workers, inventory' = inventory, threads' \subseteq threads,
         \A h \in threads' : h.worker = w => pc'[w] = "running",
         \A v \in Workers : pc[v] = "running" /\ (v = w => pc'[w] = "running") =>
           /\ pc'[v] = pc[v] /\ claimed'[v] = claimed[v] /\ context'[v] = context[v]
           /\ remaining'[v] \subseteq remaining[v]
  PROVE  CallsBelong'
<1>1. \A h : Bare(h)' <=> Bare(h)
  BY DEF Bare, TaskOf
<1>2. \A h \in threads' : h.worker \in Workers
  BY DEF IInv, DirectoryTyped, CallRecords
<1> QED
  BY <1>1, <1>2 DEF IInv, CallsBelong, TaskOf, DnOf

\* A Worker's memory is its own.
LEMMA OthersMemory ==
  ASSUME IInv, NEW w \in Workers, WorkerMoves(w), NEW v \in Workers, v # w
  PROVE  /\ pc'[v] = pc[v] /\ claimed'[v] = claimed[v] /\ context'[v] = context[v]
         /\ remaining'[v] = remaining[v]
<1> USE DEF IInv, MemoryTyped
<1>1. CASE \/ \E t \in Tasks : Claim(w, t)
           \/ MarkRunning(w) \/ SetGuard(w) \/ Drain(w) \/ FinishTask(w)
  BY <1>1 DEF Claim, MarkRunning, SetGuard, Drain, FinishTask
<1>2. CASE Prepare(w)
  BY <1>2 DEF Prepare
<1>3. CASE \E x \in Targets : Submit(w, x)
  BY <1>3 DEF Submit
<1>4. CASE MainError(w) \/ Aggregate(w) \/ Leave(w) \/ Crash(w)
  BY <1>4 DEF MainError, Aggregate, Leave, Crash, Idle, Forget
<1> QED
  BY <1>1, <1>2, <1>3, <1>4 DEF WorkerMoves, WorkerStep

LEMMA WorkerKeeps ==
  ASSUME IInv, NEW w \in Workers, WorkerMoves(w)
  PROVE  IInv'
<1>1. RowsTyped' /\ MemoryTyped' /\ DirectoryTyped' /\ inventory' = inventory
  BY WorkerTyped DEF WorkerMoves, WorkerStep, Claim, Prepare, MarkRunning, Submit, Drain,
     FinishTask, Aggregate, Leave, SetGuard, MainError, Crash, taskVars
<1> USE DEF IInv, MemoryTyped, MemoryFits, TaskOf
<1>2. ASSUME /\ \A v \in Workers \ {w} : /\ pc'[v] = pc[v] /\ claimed'[v] = claimed[v]
                                        /\ context'[v] = context[v]
                                        /\ remaining'[v] = remaining[v]
             /\ pc'[w] \notin {"idle", "dead"} => claimed'[w] \in Tasks
             /\ pc'[w] \in {"idle", "claimed", "dead"} =>
                  context'[w] = NoContext /\ remaining'[w] = {}
             /\ \A x \in remaining'[w] : TaskOf[x] = claimed'[w]
      PROVE  MemoryFits'
  BY <1>1, <1>2
<1>3. CASE \E t \in Tasks : Claim(w, t)
  <2>1. MemoryFits'
    BY <1>2, <1>3 DEF Claim
  <2>2. CallsBelong'
    BY <1>1, <1>3, CallsElsewhere DEF Claim, CallsBelong
  <2> QED
    BY <1>1, <2>1, <2>2
<1>4. CASE Prepare(w)
  <2>1. /\ pc[w] = "claimed" /\ pc'[w] \in {"prepared", "running"} /\ claimed' = claimed
        /\ remaining'[w] \subseteq TargetsOf(claimed[w]) /\ threads' = threads
        /\ \A v \in Workers \ {w} : /\ pc'[v] = pc[v] /\ context'[v] = context[v]
                                    /\ remaining'[v] = remaining[v]
    BY <1>4 DEF Prepare
  <2>2. MemoryFits'
    BY <1>2, <2>1 DEF TargetsOf
  <2>3. CallsBelong'
    BY <1>1, <2>1, CallsElsewhere DEF CallsBelong
  <2> QED
    BY <1>1, <2>2, <2>3
<1>5. CASE MarkRunning(w) \/ SetGuard(w) \/ Drain(w) \/ FinishTask(w)
  <2>1. /\ UNCHANGED <<claimed, context, remaining, threads>>
        /\ \A v \in Workers \ {w} : pc'[v] = pc[v]
        /\ pc[w] \notin {"idle", "dead"} /\ pc'[w] \notin {"idle", "dead"}
        /\ pc'[w] = "claimed" => pc[w] = "claimed"
    BY <1>5 DEF MarkRunning, SetGuard, Drain, FinishTask, after_finish
  <2>2. MemoryFits'
    BY <1>2, <2>1
  <2>3. \A h \in threads : h.worker = w => pc'[w] = "running"
    BY <1>5 DEF MarkRunning, SetGuard, Drain, FinishTask, pending, CallsBelong
  <2>4. CallsBelong'
    BY <1>1, <2>1, <2>3, CallsElsewhere
  <2> QED
    BY <1>1, <2>2, <2>4
<1>6. CASE MainError(w) \/ Aggregate(w) \/ Leave(w) \/ Crash(w)
  <2>1. /\ threads' \subseteq threads /\ \A h \in threads' : h.worker # w
        /\ \A v \in Workers \ {w} : /\ pc'[v] = pc[v] /\ claimed'[v] = claimed[v]
                                    /\ context'[v] = context[v]
                                    /\ remaining'[v] = remaining[v]
    BY <1>6 DEF MainError, Aggregate, Leave, Crash, Idle, Forget, pending, CallsBelong
  <2>2. \/ /\ pc'[w] \in {"leaving", "finishing"} /\ pc[w] \notin {"idle", "claimed", "dead"}
           /\ UNCHANGED <<claimed, context, remaining>>
        \/ pc'[w] \in {"idle", "dead"} /\ context'[w] = NoContext /\ remaining'[w] = {}
    BY <1>6 DEF MainError, Aggregate, Leave, Crash, Idle, Forget
  <2>3. MemoryFits'
    BY <1>2, <2>1, <2>2
  <2>4. CallsBelong'
    BY <1>1, <2>1, <2>2, CallsElsewhere
  <2> QED
    BY <1>1, <2>3, <2>4
<1>7. CASE \E x \in Targets : Submit(w, x)
  <2>1. PICK x \in Targets : Submit(w, x)
    BY <1>7
  <2> DEFINE c == [worker |-> w, target |-> x, gen |-> generation[w], pc |-> "submitted",
                   context |-> context[w], success |-> FALSE, read |-> directory]
  <2>2. /\ pc[w] = "running" /\ x \in remaining[w] /\ threads' = threads \cup {c}
        /\ remaining' = [remaining EXCEPT ![w] = @ \ {x}]
        /\ UNCHANGED <<pc, claimed, context, inventory>>
        /\ \A h \in threads : h.worker = w => DnOf[h.target] # DnOf[x]
    BY <1>1, <2>1 DEF Submit, pending
  <2>3. /\ c.worker = w /\ c.target = x /\ c.context = context[w] /\ c.pc = "submitted"
        /\ ~c.success
    OBVIOUS
  <2> HIDE DEF c
  <2>4. MemoryFits'
    BY <1>2, <2>2
  <2>5. \A h : Bare(h)' <=> Bare(h)
    BY <1>1 DEF Bare
  <2>6. CallsBelong'
    BY <2>2, <2>3, <2>5 DEF CallsBelong, DnOf
  <2> QED
    BY <1>1, <2>4, <2>6
<1> QED
  BY <1>3, <1>4, <1>5, <1>6, <1>7 DEF WorkerMoves, WorkerStep

AnsweredCall(h, s, r) == [h EXCEPT !.pc = "answered", !.success = s, !.read = r]

LEMMA Answered ==
  ASSUME NEW h \in CallRecords, NEW s \in BOOLEAN, NEW r \in [Names -> Nat], NEW g,
         g = AnsweredCall(h, s, r)
  PROVE  /\ g \in CallRecords /\ g.worker = h.worker /\ g.target = h.target /\ g.gen = h.gen
         /\ g.context = h.context /\ g.pc = "answered" /\ g.success = s /\ g.read = r
<1>1. g = [worker |-> h.worker, target |-> h.target, gen |-> h.gen, pc |-> "answered",
           context |-> h.context, success |-> s, read |-> r]
  BY DEF CallRecords, AnsweredCall
<1> QED
  BY <1>1 DEF CallRecords

LEMMA Begun ==
  ASSUME NEW h \in CallRecords, NEW p \in {"answered", "calling"}, NEW g, g = [h EXCEPT !.pc = p]
  PROVE  /\ g \in CallRecords /\ g.worker = h.worker /\ g.target = h.target /\ g.gen = h.gen
         /\ g.context = h.context /\ g.pc = p /\ g.success = h.success /\ g.read = h.read
<1>1. g = [worker |-> h.worker, target |-> h.target, gen |-> h.gen, pc |-> p,
           context |-> h.context, success |-> h.success, read |-> h.read]
  BY DEF CallRecords
<1> QED
  BY <1>1 DEF CallRecords

\* A call either ends or goes on with the same target, Worker, claim and context.
GoesOn(h, g) ==
  /\ threads' = (threads \ {h}) \cup {g}
  /\ g \in CallRecords /\ g.worker = h.worker /\ g.target = h.target /\ g.gen = h.gen
  /\ g.context = h.context

LEMMA BeginMoves ==
  ASSUME IInv, NEW h \in threads, Begin(h)
  PROVE  \E g : /\ GoesOn(h, g) /\ g.success = h.success /\ g.read = h.read
                /\ g.pc = IF Bare(h) THEN "answered" ELSE "calling"
<1> DEFINE p == IF Bare(h) THEN "answered" ELSE "calling"
           g == [h EXCEPT !.pc = p]
<1>1. threads' = (threads \ {h}) \cup {g} /\ h \in CallRecords /\ p \in {"answered", "calling"}
  BY DEF Begin, IInv, DirectoryTyped
<1> HIDE DEF p
<1>2. /\ g \in CallRecords /\ g.worker = h.worker /\ g.target = h.target /\ g.gen = h.gen
      /\ g.context = h.context /\ g.pc = p /\ g.success = h.success /\ g.read = h.read
  BY <1>1, Begun
<1> HIDE DEF g
<1> QED
  BY <1>1, <1>2 DEF GoesOn, p

LEMMA WriteMoves ==
  ASSUME IInv, NEW h \in threads, NEW changed \in BOOLEAN, NEW success \in BOOLEAN,
         WriteDirectory(h, changed, success)
  PROVE  /\ h \in CallRecords /\ h.pc = "calling" /\ TaskOf[h.target] \in Operations
         /\ success => changed
         /\ directory' \in [Names -> Nat] /\ writes' \in [Targets -> Nat]
         /\ \A d \in Names : directory'[d] >= directory[d]
         /\ \A x \in Targets : writes'[x] = IF changed /\ x = h.target THEN writes[x] + 1
                                            ELSE writes[x]
         /\ \E g : /\ GoesOn(h, g) /\ g.pc = "answered" /\ g.success = success
                   /\ g.read = directory'
<1>1. /\ h \in CallRecords /\ directory \in [Names -> Nat] /\ writes \in [Targets -> Nat]
      /\ h.target \in Targets
  BY DEF IInv, DirectoryTyped, CallRecords
<1>2. /\ directory' \in [Names -> Nat] /\ writes' \in [Targets -> Nat]
      /\ \A d \in Names : directory'[d] >= directory[d]
      /\ \A x \in Targets : writes'[x] = IF changed /\ x = h.target THEN writes[x] + 1
                                         ELSE writes[x]
  BY <1>1 DEF WriteDirectory
<1> DEFINE g == AnsweredCall(h, success, directory')
<1>3. threads' = (threads \ {h}) \cup {g}
  BY DEF WriteDirectory, AnsweredCall
<1>e. g = AnsweredCall(h, success, directory')
  BY DEF g
<1> HIDE DEF g
<1>4. /\ g \in CallRecords /\ g.worker = h.worker /\ g.target = h.target /\ g.gen = h.gen
      /\ g.context = h.context /\ g.pc = "answered" /\ g.success = success
      /\ g.read = directory'
  BY <1>e, <1>1, <1>2, Answered
<1>5. \E f : /\ GoesOn(h, f) /\ f.pc = "answered" /\ f.success = success
             /\ f.read = directory'
  BY <1>3, <1>4 DEF GoesOn
<1> QED
  BY <1>1, <1>2, <1>5 DEF WriteDirectory

LEMMA ReadMoves ==
  ASSUME IInv, NEW h \in threads, NEW success \in BOOLEAN, ReadDirectory(h, success)
  PROVE  \E g : /\ GoesOn(h, g) /\ g.pc = "answered" /\ g.success = success
                /\ g.read = directory
<1>1. h \in CallRecords /\ directory \in [Names -> Nat]
  BY DEF IInv, DirectoryTyped
<1> DEFINE g == AnsweredCall(h, success, directory)
<1>2. threads' = (threads \ {h}) \cup {g}
  BY DEF ReadDirectory, AnsweredCall
<1>e. g = AnsweredCall(h, success, directory)
  BY DEF g
<1> HIDE DEF g
<1>3. /\ g \in CallRecords /\ g.worker = h.worker /\ g.target = h.target /\ g.gen = h.gen
      /\ g.context = h.context /\ g.pc = "answered" /\ g.success = success
      /\ g.read = directory
  BY <1>e, <1>1, Answered
<1> QED
  BY <1>2, <1>3 DEF GoesOn

LEMMA CallKeeps ==
  ASSUME IInv, NEW h \in threads, ThreadStep(h)
  PROVE  IInv'
<1>1. /\ UNCHANGED <<inventory, status, attempt_count, lease, worker_id, opVars, workerVars>>
      /\ h \in CallRecords
  <2>1. CASE Begin(h) \/ EndThread(h)
    BY <2>1 DEF Begin, EndThread, taskVars, IInv, DirectoryTyped
  <2>2. CASE \E changed, success \in BOOLEAN : WriteDirectory(h, changed, success)
    BY <2>2 DEF WriteDirectory, taskVars, IInv, DirectoryTyped
  <2>3. CASE \E success \in BOOLEAN : ReadDirectory(h, success) \/ Publish(h, success)
    BY <2>3 DEF ReadDirectory, Publish, taskVars, IInv, DirectoryTyped
  <2> QED
    BY <2>1, <2>2, <2>3 DEF ThreadStep
<1>2. \/ threads' = threads \ {h}
      \/ \E g : GoesOn(h, g) /\ (Bare(h) => ~g.success /\ g.pc # "calling")
  <2>1. CASE Begin(h)
    BY <2>1, BeginMoves DEF IInv, CallsBelong
  <2>2. CASE \E changed, success \in BOOLEAN : WriteDirectory(h, changed, success)
    <3>1. PICK changed \in BOOLEAN, success \in BOOLEAN : WriteDirectory(h, changed, success)
      BY <2>2
    <3>2. ~ Bare(h)
      BY <3>1, WriteMoves DEF IInv, CallsBelong
    <3>3. \E g : GoesOn(h, g)
      BY <3>1, WriteMoves
    <3> QED
      BY <3>2, <3>3
  <2>3. CASE \E success \in BOOLEAN : ReadDirectory(h, success)
    <3>1. ~ Bare(h)
      BY <2>3 DEF ReadDirectory, IInv, CallsBelong
    <3> QED
      BY <2>3, <3>1, ReadMoves
  <2>4. CASE (\E mirrored \in BOOLEAN : Publish(h, mirrored)) \/ EndThread(h)
    BY <2>4 DEF Publish, EndThread
  <2> QED
    BY <2>1, <2>2, <2>3, <2>4 DEF ThreadStep
<1>3. RowsTyped'
  <2>1. target_status' \in [Targets -> RowStatuses]
    <3> USE DEF IInv, RowsTyped, RowStatuses, ACTIVE_STATUSES, TERMINAL_STATUSES
    <3>1. CASE Begin(h)
      BY <3>1 DEF Begin
    <3>2. CASE \E mirrored \in BOOLEAN : Publish(h, mirrored)
      BY <3>2 DEF Publish
    <3>3. CASE UNCHANGED taskVars
      BY <3>3 DEF taskVars
    <3> QED
      BY <3>1, <3>2, <3>3 DEF ThreadStep, WriteDirectory, ReadDirectory, EndThread
  <2> QED
    BY <1>1, <2>1 DEF IInv, RowsTyped, opVars
<1>4. MemoryTyped' /\ MemoryFits'
  BY <1>1 DEF IInv, MemoryTyped, MemoryFits, workerVars, TaskOf
<1>5. DirectoryTyped'
  <2>1. threads' \subseteq CallRecords
    BY <1>2 DEF IInv, DirectoryTyped, GoesOn
  <2>2. /\ directory' \in [Names -> Nat] /\ mirror' \in [Names -> Nat]
        /\ writes' \in [Targets -> Nat]
    <3>1. CASE \E changed, success \in BOOLEAN : WriteDirectory(h, changed, success)
      BY <3>1, WriteMoves DEF WriteDirectory, IInv, DirectoryTyped
    <3>2. CASE \E mirrored \in BOOLEAN : Publish(h, mirrored)
      <4>1. h.read \in [Names -> Nat]
        BY <1>1 DEF CallRecords
      <4> QED
        BY <3>2, <4>1 DEF Publish, IInv, DirectoryTyped
    <3>3. CASE UNCHANGED dirVars
      BY <3>3 DEF dirVars, IInv, DirectoryTyped
    <3> QED
      BY <3>1, <3>2, <3>3 DEF ThreadStep, Begin, ReadDirectory, EndThread
  <2> QED
    BY <2>1, <2>2 DEF DirectoryTyped
<1>6. CallsBelong'
  <2>1. \A c : Bare(c)' <=> Bare(c)
    BY <1>1 DEF Bare, TaskOf
  <2>2. CASE threads' = threads \ {h}
    BY <1>1, <2>1, <2>2 DEF IInv, CallsBelong, TaskOf, DnOf, workerVars
  <2>3. CASE \E g : GoesOn(h, g) /\ (Bare(h) => ~g.success /\ g.pc # "calling")
    <3>1. PICK g : GoesOn(h, g) /\ (Bare(h) => ~g.success /\ g.pc # "calling")
      BY <2>3
    <3>2. Bare(g) <=> Bare(h)
      BY <3>1 DEF Bare, GoesOn
    <3> QED
      BY <1>1, <2>1, <3>1, <3>2 DEF IInv, CallsBelong, TaskOf, DnOf, workerVars, GoesOn
  <2> QED
    BY <1>2, <2>2, <2>3
<1> QED
  BY <1>3, <1>4, <1>5, <1>6 DEF IInv

LEMMA NextKeeps == IInv /\ [Next]_vars => IInv'
<1> SUFFICES ASSUME IInv, [Next]_vars PROVE IInv'
  OBVIOUS
<1>1. CASE \/ \E t \in Operations : EnqueueOperation(t) \/ ExpireSecret(t)
           \/ \E t \in Syncs : EnqueueSync(t)
           \/ \E t \in Tasks : Cancel(t) \/ Recover(t) \/ ExpireLease(t)
  BY <1>1, RequestKeeps DEF Tasks
<1>2. CASE \E w \in Workers : WorkerMoves(w)
  BY <1>2, WorkerKeeps
<1>3. CASE \E h \in threads : ThreadStep(h)
  BY <1>3, CallKeeps
<1>4. CASE UNCHANGED vars
  BY <1>4 DEF vars, taskVars, opVars, workerVars, dirVars, IInv, RowsTyped, MemoryTyped,
              DirectoryTyped, MemoryFits, CallsBelong, TaskOf, DnOf, Bare
<1> QED
  BY <1>1, <1>2, <1>3, <1>4 DEF Next, WorkerMoves

LEMMA DomainInvariant == Spec => []IInv
<1>1. IInv /\ [Next]_vars => IInv'
  BY NextKeeps
<1> QED
  BY InitHolds, <1>1, PTL DEF Spec

-----------------------------------------------------------------------------
(* The audit rows.                                                         *)

Settled(t) == status[t] \in TERMINAL_STATUSES /\ AllTerminal(t, target_status)

\* A Worker aggregates only what its own transaction has closed.
VerdictStands ==
  \A w \in Workers : pc[w] = "aggregating" =>
    /\ claimed[w] \in Operations /\ Settled(claimed[w])
    /\ status[claimed[w]] = finished_status(claimed[w], target_status)

\* A task that has ended keeps its status and those of its targets.
Untouched(t) ==
  /\ status'[t] = status[t]
  /\ \A x \in TargetsOf(t) : target_status'[x] = target_status[x]

LEMMA SettledStays ==
  ASSUME IInv, [Next]_vars, NEW t \in Tasks, Settled(t)
  PROVE  Untouched(t) /\ inventory' = inventory
<1> USE DEF Settled, Untouched, AllTerminal, TargetsOf, TERMINAL_STATUSES, IInv, RowsTyped
<1>1. ASSUME NEW o \in Tasks,
             \/ o \in Operations /\ (EnqueueOperation(o) \/ ExpireSecret(o))
             \/ o \in Syncs /\ EnqueueSync(o)
             \/ ExpireLease(o)
      PROVE  Untouched(t) /\ inventory' = inventory
  BY <1>1 DEF EnqueueOperation, EnqueueSync, CreateRows, ExpireSecret, ExpireLease, taskVars
<1>2. ASSUME NEW o \in Tasks, Cancel(o) \/ Recover(o)
      PROVE  Untouched(t) /\ inventory' = inventory
  <2>1. CASE Cancel(o)
    BY <2>1 DEF Cancel, ACTIVE_STATUSES
  <2>2. CASE Recover(o)
    BY <2>2 DEF Recover, recovered_target
  <2> QED
    BY <1>2, <2>1, <2>2
<1>3. ASSUME NEW w \in Workers, WorkerMoves(w)
      PROVE  Untouched(t) /\ inventory' = inventory
  <2>1. CASE \E o \in Tasks : Claim(w, o)
    BY <2>1 DEF Claim
  <2>2. CASE FinishTask(w)
    BY <2>2 DEF FinishTask, CanFinish, has_live_lease
  <2>3. CASE Leave(w)
    <3>1. /\ status' = status /\ inventory' = inventory
          /\ \A x \in Targets : target_status'[x] = target_status[x]
                                \/ target_status[x] \in ACTIVE_STATUSES
      BY <2>3 DEF Leave
    <3> QED
      BY <3>1 DEF ACTIVE_STATUSES
  <2>4. CASE UNCHANGED taskVars
    BY <2>4 DEF taskVars
  <2> QED
    BY <1>3, <2>1, <2>2, <2>3, <2>4 DEF WorkerMoves, WorkerStep, Prepare, MarkRunning, Submit,
       Drain, Aggregate, SetGuard, MainError, Crash
<1>4. ASSUME NEW h \in threads, ThreadStep(h)
      PROVE  Untouched(t) /\ inventory' = inventory
  <2>1. CASE Begin(h)
    BY <2>1 DEF Begin, CanBegin
  <2>2. CASE \E mirrored \in BOOLEAN : Publish(h, mirrored)
    BY <2>2 DEF Publish, CanPublish
  <2>3. CASE UNCHANGED taskVars
    BY <2>3 DEF taskVars
  <2> QED
    BY <1>4, <2>1, <2>2, <2>3 DEF ThreadStep, WriteDirectory, ReadDirectory, EndThread
<1>5. CASE UNCHANGED vars
  BY <1>5 DEF vars, taskVars
<1> QED
  BY <1>1, <1>2, <1>3, <1>4, <1>5 DEF Next, WorkerMoves, Tasks

LEMMA InventoryFixed ==
  ASSUME [Next]_vars
  PROVE  inventory' = inventory
<1>1. ASSUME NEW w \in Workers, WorkerMoves(w) PROVE inventory' = inventory
  BY <1>1 DEF WorkerMoves, WorkerStep, Claim, Prepare, MarkRunning, Submit, Drain, FinishTask,
     Aggregate, Leave, SetGuard, MainError, Crash, taskVars
<1>2. ASSUME NEW h \in threads, ThreadStep(h) PROVE inventory' = inventory
  BY <1>2 DEF ThreadStep, Begin, WriteDirectory, ReadDirectory, Publish, EndThread, taskVars
<1>3. CASE ~ ((\E w \in Workers : WorkerMoves(w)) \/ \E h \in threads : ThreadStep(h))
  BY <1>3 DEF Next, WorkerMoves, EnqueueOperation, EnqueueSync, CreateRows, ExpireSecret,
     Cancel, Recover, ExpireLease, taskVars, vars
<1> QED
  BY <1>1, <1>2, <1>3

VerdictOf(t, st, ts) ==
  /\ t \in Operations /\ st[t] \in TERMINAL_STATUSES /\ AllTerminal(t, ts)
  /\ st[t] = finished_status(t, ts)

LEMMA VerdictSame ==
  ASSUME NEW t, VerdictOf(t, status, target_status), Untouched(t)
  PROVE  VerdictOf(t, status', target_status')
BY DEF VerdictOf, Untouched, AllTerminal, finished_status

LEMMA VerdictKeeps ==
  ASSUME IInv, VerdictStands, [Next]_vars
  PROVE  VerdictStands'
<1>0. inventory' = inventory
  BY InventoryFixed
<1> SUFFICES ASSUME NEW w \in Workers, pc'[w] = "aggregating"
             PROVE  VerdictOf(claimed'[w], status', target_status')
  BY <1>0 DEF VerdictStands, VerdictOf, Settled, AllTerminal, finished_status, TargetsOf,
              TaskOf
<1>1. CASE pc[w] = "aggregating" /\ claimed'[w] = claimed[w]
  <2>1. PICK t \in Tasks : t = claimed[w] /\ VerdictOf(t, status, target_status)
    BY <1>1 DEF VerdictStands, VerdictOf, Settled, Tasks
  <2>2. Untouched(t)
    BY <2>1, SettledStays DEF VerdictOf, Settled
  <2> QED
    BY <1>1, <2>1, <2>2, VerdictSame
<1>2. CASE FinishTask(w)
  <2>1. PICK t : t = claimed[w]
    OBVIOUS
  <2>2. /\ t \in Operations /\ AllTerminal(t, target_status) /\ claimed' = claimed
        /\ status' = [status EXCEPT ![t] = finished_status(t, target_status)]
        /\ target_status' = target_status
    <3>1. pc'[w] = after_finish(w) /\ claimed' = claimed /\ target_status' = target_status
      BY <1>2 DEF FinishTask, IInv, MemoryTyped
    <3>2. t \in Operations /\ CanFinish(w)
      BY <2>1, <3>1 DEF after_finish
    <3> QED
      BY <1>2, <2>1, <3>1, <3>2 DEF FinishTask, CanFinish
  <2>3. status'[t] = finished_status(t, target_status)
    BY <2>2 DEF IInv, RowsTyped, Tasks
  <2> QED
    BY <2>1, <2>2, <2>3, FinishedStatus DEF VerdictOf, TERMINAL_STATUSES
<1>3. ~ (pc[w] = "aggregating" /\ claimed'[w] = claimed[w]) => FinishTask(w)
  <2> USE DEF IInv, MemoryTyped
  <2>1. CASE UNCHANGED <<pc, claimed>>
    BY <2>1
  <2>2. ASSUME NEW v \in Workers, WorkerMoves(v)
        PROVE  \/ UNCHANGED <<pc, claimed>>
               \/ pc[w] = "aggregating" /\ claimed'[w] = claimed[w]
               \/ FinishTask(w)
    <3>1. CASE v # w
      BY <2>2, <3>1, OthersMemory
    <3>2. CASE v = w
      <4>1. CASE Prepare(w) \/ \E t \in Tasks : Claim(w, t)
        <5>1. pc'[w] \in {"claimed", "prepared", "running"}
          BY <4>1 DEF Prepare, Claim
        <5> QED
          BY <5>1
      <4>2. CASE (\E x \in Targets : Submit(w, x)) \/ SetGuard(w)
        BY <4>2 DEF Submit, SetGuard
      <4>3. CASE MarkRunning(w) \/ Drain(w)
        BY <4>3 DEF MarkRunning, Drain
      <4>4. CASE MainError(w) \/ Aggregate(w) \/ Leave(w) \/ Crash(w)
        <5>1. pc'[w] \in {"idle", "leaving", "finishing", "dead"}
          BY <4>4 DEF MainError, Aggregate, Leave, Crash, Idle
        <5> QED
          BY <5>1
      <4> QED
        BY <2>2, <3>2, <4>1, <4>2, <4>3, <4>4 DEF WorkerMoves, WorkerStep
    <3> QED
      BY <3>1, <3>2
  <2>3. CASE ~ \E v \in Workers : WorkerMoves(v)
    BY <2>1, <2>3 DEF Next, WorkerMoves, EnqueueOperation, EnqueueSync, CreateRows,
                      ExpireSecret,
       Cancel, Recover, ExpireLease, ThreadStep, Begin, WriteDirectory, ReadDirectory, Publish,
       EndThread, workerVars, vars
  <2> QED
    BY <2>1, <2>2, <2>3
<1> QED
  BY <1>1, <1>2, <1>3

\* An operation's audit row either keeps its status with the task, or it is given
\* the verdict of the task by the step that closes it or by its aggregation.
AuditStep(o) ==
  \/ op_status'[o] = op_status[o] /\ status'[o] = status[o]
  \/ /\ op_status'[o] = op_status[o] /\ status[o] \in {"absent", "queued", "running"}
     /\ status'[o] # "cancelled"
  \/ op_status'[o] = status'[o] /\ status'[o] # "cancelled"
  \/ op_status'[o] = "running" /\ status'[o] = status[o] /\ status[o] = "running"
  \/ op_status'[o] = "queued" /\ status'[o] = "queued"
  \/ op_status'[o] = "cancelled" /\ status'[o] = "cancelled"

LEMMA RequestAudits ==
  ASSUME IInv, NEW o \in Operations, NEW t \in Tasks,
         \/ t \in Operations /\ (EnqueueOperation(t) \/ ExpireSecret(t))
         \/ t \in Syncs /\ EnqueueSync(t)
         \/ Cancel(t) \/ Recover(t) \/ ExpireLease(t)
  PROVE  AuditStep(o)
<1> USE DEF IInv, RowsTyped, AuditStep
<1>1. CASE t \in Operations /\ EnqueueOperation(t)
  BY <1>1 DEF EnqueueOperation, CreateRows, Tasks
<1>2. CASE t \in Syncs /\ EnqueueSync(t)
  BY <1>2 DEF EnqueueSync, CreateRows, opVars, Tasks
<1>3. CASE t \in Operations /\ ExpireSecret(t)
  BY <1>3 DEF ExpireSecret, taskVars
<1>4. CASE Cancel(t)
  BY <1>4 DEF Cancel, Tasks
<1>5. CASE Recover(t)
  BY <1>5, FinishedStatus DEF Recover, Tasks
<1>6. CASE ExpireLease(t)
  BY <1>6 DEF ExpireLease, opVars
<1> QED
  BY <1>1, <1>2, <1>3, <1>4, <1>5, <1>6

LEMMA WorkerAudits ==
  ASSUME IInv, VerdictStands, NEW o \in Operations, NEW w \in Workers, WorkerMoves(w)
  PROVE  AuditStep(o)
<1> USE DEF IInv, RowsTyped, AuditStep
<1>1. CASE \E t \in Tasks : Claim(w, t)
  BY <1>1 DEF Claim, opVars, Tasks
<1>2. CASE MarkRunning(w)
  BY <1>2 DEF MarkRunning, HoldsClaim, has_live_lease, taskVars
<1>3. CASE FinishTask(w)
  BY <1>3, FinishedStatus DEF FinishTask, CanFinish, has_live_lease, opVars, Tasks
<1>4. CASE Aggregate(w)
  BY <1>4, FinishedStatus DEF Aggregate, VerdictStands, taskVars
<1>5. CASE UNCHANGED <<status, op_status>>
  BY <1>5
<1> QED
  BY <1>1, <1>2, <1>3, <1>4, <1>5 DEF WorkerMoves, WorkerStep, Prepare, Submit, Drain, Leave,
     SetGuard, MainError, Crash, taskVars, opVars

\* Nothing brings the secret of a cancelled task back.
LEMMA SecretStaysGone ==
  ASSUME IInv, [Next]_vars, NEW o \in Operations, status'[o] = "cancelled"
  PROVE  \/ secret'[o] = "none"
         \/ status[o] = "cancelled" /\ (secret[o] = "none" => secret'[o] = "none")
<1> USE DEF IInv, RowsTyped
<1>1. ASSUME NEW t \in Tasks,
             \/ t \in Operations /\ (EnqueueOperation(t) \/ ExpireSecret(t))
             \/ t \in Syncs /\ EnqueueSync(t)
             \/ Cancel(t) \/ Recover(t) \/ ExpireLease(t)
      PROVE  \/ secret'[o] = "none"
             \/ status[o] = "cancelled" /\ (secret[o] = "none" => secret'[o] = "none")
  <2>1. CASE t \in Operations /\ EnqueueOperation(t)
    BY <2>1 DEF EnqueueOperation, CreateRows, Tasks
  <2>2. CASE t \in Syncs /\ EnqueueSync(t)
    BY <2>2 DEF EnqueueSync, CreateRows, opVars, Tasks
  <2>3. CASE t \in Operations /\ ExpireSecret(t)
    BY <2>3 DEF ExpireSecret, taskVars
  <2>4. CASE Cancel(t)
    BY <2>4 DEF Cancel, Tasks
  <2>5. CASE Recover(t)
    BY <2>5, FinishedStatus DEF Recover, Tasks
  <2>6. CASE ExpireLease(t)
    BY <2>6 DEF ExpireLease, opVars
  <2> QED
    BY <1>1, <2>1, <2>2, <2>3, <2>4, <2>5, <2>6
<1>2. ASSUME NEW w \in Workers, WorkerMoves(w)
      PROVE  status[o] = "cancelled" /\ (secret[o] = "none" => secret'[o] = "none")
  <2>1. CASE \E t \in Tasks : Claim(w, t)
    BY <2>1 DEF Claim, opVars, Tasks
  <2>2. CASE Prepare(w)
    BY <2>2 DEF Prepare, secret_after, taskVars
  <2>3. CASE FinishTask(w)
    BY <2>3, FinishedStatus DEF FinishTask, opVars, Tasks
  <2>4. CASE UNCHANGED <<status, secret>>
    BY <2>4
  <2> QED
    BY <1>2, <2>1, <2>2, <2>3, <2>4 DEF WorkerMoves, WorkerStep, MarkRunning, Submit, Drain,
       Aggregate, Leave, SetGuard, MainError, Crash, taskVars, opVars
<1>3. ASSUME NEW h \in threads, ThreadStep(h) PROVE UNCHANGED <<status, secret>>
  BY <1>3 DEF ThreadStep, Begin, WriteDirectory, ReadDirectory, Publish, EndThread, taskVars,
              opVars
<1>4. CASE UNCHANGED vars
  BY <1>4 DEF vars, taskVars, opVars
<1> QED
  BY <1>1, <1>2, <1>3, <1>4 DEF Next, WorkerMoves, Tasks

LEMMA AuditKeeps ==
  ASSUME IInv, VerdictStands, AuditMatchesTask, [Next]_vars
  PROVE  AuditMatchesTask'
<1> SUFFICES ASSUME NEW o \in Operations
             PROVE  /\ op_status'[o] \in TERMINAL_STATUSES => op_status'[o] = status'[o]
                    /\ status'[o] = "cancelled" =>
                         op_status'[o] = "cancelled" /\ secret'[o] = "none"
  BY DEF AuditMatchesTask, TERMINAL_STATUSES
<1>1. /\ op_status[o] \in TERMINAL_STATUSES => op_status[o] = status[o]
      /\ status[o] = "cancelled" => op_status[o] = "cancelled" /\ secret[o] = "none"
  BY DEF AuditMatchesTask
<1>2. AuditStep(o)
  <2>1. CASE UNCHANGED <<status, op_status>>
    BY <2>1 DEF AuditStep
  <2> QED
    BY <2>1, RequestAudits, WorkerAudits DEF Next, WorkerMoves, Tasks, ThreadStep, Begin,
       WriteDirectory, ReadDirectory, Publish, EndThread, taskVars, opVars, vars
<1>3. status'[o] = "cancelled" => secret'[o] = "none"
  BY <1>1, SecretStaysGone
<1> QED
  BY <1>1, <1>2, <1>3 DEF AuditStep, TERMINAL_STATUSES

\* The audit row of an operation never contradicts its task, whatever Workers die,
\* leases run out and cancellations do in between, and a cancelled operation has
\* lost its secret (aggregate_domain_operation, _recover_expired_locked and
\* cancel_task of net/domain/tasks.py and net/inspections/queue.py).
THEOREM AuditAgrees == Spec => []AuditMatchesTask
<1>1. Init => VerdictStands /\ AuditMatchesTask
  BY DEF Init, VerdictStands, AuditMatchesTask, Tasks, TERMINAL_STATUSES
<1>2. IInv /\ VerdictStands /\ AuditMatchesTask /\ [Next]_vars =>
        (VerdictStands /\ AuditMatchesTask)'
  BY VerdictKeeps, AuditKeeps
<1> QED
  BY DomainInvariant, <1>1, <1>2, PTL DEF Spec

-----------------------------------------------------------------------------
(* Passwords.                                                              *)

Knows(w)  == context[w] # NoContext
Unused(t) == status[t] = "absent" \/ secret[t] = "fresh"

\* Of the Workers that hold a password task, one at most has read its secret.
OneKnows ==
  \A v, w \in Workers :
    Knows(v) /\ Knows(w) /\ claimed[v] = claimed[w] /\ claimed[v] \in PASSWORD_ACTIONS => v = w

\* As long as the secret can be read, nobody has used it.
UnusedIsUnwritten ==
  \A t \in PASSWORD_ACTIONS : Unused(t) =>
    /\ \A w \in Workers : claimed[w] = t => ~ Knows(w)
    /\ \A x \in TargetsOf(t) : writes[x] = 0

ListedIsUnwritten ==
  \A w \in Workers : Knows(w) /\ claimed[w] \in PASSWORD_ACTIONS =>
    \A x \in remaining[w] : writes[x] = 0

CallsWriteOnce ==
  \A h \in threads : TaskOf[h.target] \in PASSWORD_ACTIONS /\ h.context # NoContext =>
    /\ h.pc # "answered" => writes[h.target] = 0
    /\ h.pc = "answered" /\ h.success => writes[h.target] = 1

MemoryWritesOnce == OneKnows /\ UnusedIsUnwritten /\ ListedIsUnwritten
PasswordInv == MemoryWritesOnce /\ CallsWriteOnce /\ PasswordWrittenOnce

LEMMA MemoryFrame ==
  ASSUME IInv, MemoryWritesOnce, inventory' = inventory, writes' = writes,
         \A w \in Workers : context'[w] # NoContext =>
            Knows(w) /\ claimed'[w] = claimed[w] /\ remaining'[w] \subseteq remaining[w],
         \A t \in Operations : status'[t] = "absent" \/ secret'[t] = "fresh" => Unused(t)
  PROVE  MemoryWritesOnce'
<1>1. PASSWORD_ACTIONS \subseteq Operations /\ PASSWORD_ACTIONS' = PASSWORD_ACTIONS
  BY InventoryTyped DEF IInv, RowsTyped, PASSWORD_ACTIONS
<1>2. OneKnows'
  BY <1>1 DEF MemoryWritesOnce, OneKnows, Knows
<1>3. UnusedIsUnwritten'
  BY <1>1 DEF MemoryWritesOnce, UnusedIsUnwritten, Knows, Unused, TargetsOf, TaskOf
<1>4. ListedIsUnwritten'
  BY <1>1 DEF MemoryWritesOnce, ListedIsUnwritten, Knows
<1> QED
  BY <1>2, <1>3, <1>4 DEF MemoryWritesOnce

LEMMA CallsFrame ==
  ASSUME CallsWriteOnce, inventory' = inventory, writes' = writes, threads' \subseteq threads
  PROVE  CallsWriteOnce'
BY DEF CallsWriteOnce, TaskOf, PASSWORD_ACTIONS

LEMMA WrittenFrame ==
  ASSUME PasswordWrittenOnce, inventory' = inventory, writes' = writes,
         \A x \in Targets : target_status'[x] = "success" => target_status[x] = "success"
  PROVE  PasswordWrittenOnce'
BY DEF PasswordWrittenOnce, TaskOf, PASSWORD_ACTIONS

LEMMA RequestWrites ==
  ASSUME IInv, PasswordInv, NEW t \in Tasks,
         \/ t \in Operations /\ (EnqueueOperation(t) \/ ExpireSecret(t))
         \/ t \in Syncs /\ EnqueueSync(t)
         \/ Cancel(t) \/ Recover(t) \/ ExpireLease(t)
  PROVE  PasswordInv'
<1> USE DEF IInv, RowsTyped
<1>1. UNCHANGED <<inventory, workerVars, threads, dirVars>>
  BY DEF EnqueueOperation, EnqueueSync, CreateRows, ExpireSecret, Cancel, Recover,
         ExpireLease, taskVars
<1>2. /\ \A o \in Operations : status'[o] = "absent" \/ secret'[o] = "fresh" => Unused(o)
      /\ \A x \in Targets : target_status'[x] = "success" => target_status[x] = "success"
  <2>1. CASE t \in Operations /\ EnqueueOperation(t)
    BY <2>1 DEF EnqueueOperation, CreateRows, Tasks, Unused
  <2>2. CASE t \in Syncs /\ EnqueueSync(t)
    BY <2>2 DEF EnqueueSync, CreateRows, opVars, Tasks, Unused
  <2>3. CASE t \in Operations /\ ExpireSecret(t)
    BY <2>3 DEF ExpireSecret, taskVars, Unused
  <2>4. CASE Cancel(t)
    BY <2>4 DEF Cancel, Tasks, Unused
  <2>5. CASE Recover(t)
    BY <2>5, FinishedStatus DEF Recover, recovered_target, Tasks, Unused
  <2>6. CASE ExpireLease(t)
    BY <2>6 DEF ExpireLease, opVars, Unused
  <2> QED
    BY <2>1, <2>2, <2>3, <2>4, <2>5, <2>6
<1>3. MemoryWritesOnce'
  BY <1>1, <1>2, MemoryFrame DEF workerVars, dirVars, Knows, PasswordInv
<1>4. CallsWriteOnce' /\ PasswordWrittenOnce'
  BY <1>1, <1>2, CallsFrame, WrittenFrame DEF dirVars, PasswordInv
<1> QED
  BY <1>3, <1>4 DEF PasswordInv

\* The one step that reads the secret takes it out of its row.
LEMMA PrepareWrites ==
  ASSUME IInv, PasswordInv, NEW w \in Workers, Prepare(w)
  PROVE  MemoryWritesOnce'
<1> USE DEF IInv, RowsTyped, MemoryTyped
<1>1. /\ UNCHANGED <<inventory, status, claimed, threads, writes>>
      /\ \A v \in Workers \ {w} : context'[v] = context[v] /\ remaining'[v] = remaining[v]
      /\ pc[w] = "claimed" /\ claimed[w] \in Tasks
  BY DEF Prepare, taskVars, dirVars, MemoryFits
<1>2. \A o \in Operations : secret'[o] = "fresh" => secret[o] = "fresh"
  BY DEF Prepare, secret_after
<1>3. CASE context'[w] = NoContext
  <2>1. \A v \in Workers : context'[v] # NoContext =>
          Knows(v) /\ claimed'[v] = claimed[v] /\ remaining'[v] \subseteq remaining[v]
    BY <1>1, <1>3 DEF Knows
  <2> QED
    BY <1>1, <1>2, <2>1, MemoryFrame DEF Unused, PasswordInv
<1>4. CASE context'[w] # NoContext
  <2>1. context[w] = NoContext
    BY <1>1 DEF MemoryFits
  <2>2. /\ HoldsClaim(w) /\ claimed[w] \notin Syncs
        /\ claimed[w] \in PASSWORD_ACTIONS =>
             /\ secret[claimed[w]] = "fresh"
             /\ secret' = [secret EXCEPT ![claimed[w]] = "none"]
        /\ remaining'[w] \subseteq TargetsOf(claimed[w])
    BY <1>4, <2>1 DEF Prepare, secret_after
  <2>3. /\ PASSWORD_ACTIONS \subseteq Operations /\ PASSWORD_ACTIONS' = PASSWORD_ACTIONS
        /\ \A t : TargetsOf(t)' = TargetsOf(t)
    BY <1>1, InventoryTyped DEF PASSWORD_ACTIONS, TargetsOf, TaskOf
  <2>4. claimed[w] \in PASSWORD_ACTIONS =>
          /\ Unused(claimed[w]) /\ status[claimed[w]] = "running"
          /\ secret'[claimed[w]] = "none"
    BY <2>2, <2>3 DEF Unused, HoldsClaim, has_live_lease
  <2>5. OneKnows'
    BY <1>1, <2>3, <2>4 DEF PasswordInv, MemoryWritesOnce, OneKnows, UnusedIsUnwritten, Knows
  <2>6. UnusedIsUnwritten'
    BY <1>1, <1>2, <2>3, <2>4 DEF PasswordInv, MemoryWritesOnce, UnusedIsUnwritten, Knows,
       Unused
  <2>7. ListedIsUnwritten'
    BY <1>1, <2>2, <2>3, <2>4 DEF PasswordInv, MemoryWritesOnce, ListedIsUnwritten,
       UnusedIsUnwritten, Knows
  <2> QED
    BY <2>5, <2>6, <2>7 DEF MemoryWritesOnce
<1> QED
  BY <1>3, <1>4

LEMMA WorkerWrites ==
  ASSUME IInv, PasswordInv, NEW w \in Workers, WorkerMoves(w)
  PROVE  PasswordInv'
<1> USE DEF IInv, RowsTyped, MemoryTyped
<1>0. inventory' = inventory /\ writes' = writes
  BY DEF WorkerMoves, WorkerStep, Claim, Prepare, MarkRunning, Submit, Drain, FinishTask,
     Aggregate, Leave, SetGuard, MainError, Crash, taskVars, dirVars
<1>1. \A x \in Targets : target_status'[x] = "success" => target_status[x] = "success"
  <2>1. CASE Leave(w)
    BY <2>1 DEF Leave
  <2>2. CASE target_status' = target_status
    BY <2>2
  <2> QED
    BY <2>1, <2>2 DEF WorkerMoves, WorkerStep, Claim, Prepare, MarkRunning, Submit, Drain,
       FinishTask, Aggregate, SetGuard, MainError, Crash, taskVars
<1>2. PasswordWrittenOnce'
  BY <1>0, <1>1, WrittenFrame DEF PasswordInv
<1>3. CASE Prepare(w)
  <2>1. threads' = threads
    BY <1>3 DEF Prepare
  <2> QED
    BY <1>0, <1>2, <1>3, <2>1, PrepareWrites, CallsFrame DEF PasswordInv
<1>4. ASSUME \A o \in Operations : secret'[o] = secret[o],
             \A o \in Operations : status'[o] = "absent" => status[o] = "absent",
             context'[w] # NoContext =>
               Knows(w) /\ claimed'[w] = claimed[w] /\ remaining'[w] \subseteq remaining[w]
      PROVE  MemoryWritesOnce'
  BY <1>0, <1>4, OthersMemory, MemoryFrame DEF PasswordInv, Unused, Knows
<1>5. CASE \E x \in Targets : Submit(w, x)
  <2>1. PICK x \in Targets : Submit(w, x)
    BY <1>5
  <2>2. MemoryWritesOnce'
    BY <1>4, <2>1 DEF Submit, taskVars, opVars, Knows
  <2> DEFINE c == [worker |-> w, target |-> x, gen |-> generation[w], pc |-> "submitted",
                   context |-> context[w], success |-> FALSE, read |-> directory]
  <2>3. /\ pc[w] = "running" /\ x \in remaining[w] /\ threads' = threads \cup {c}
    BY <2>1 DEF Submit, pending
  <2>4. c.worker = w /\ c.target = x /\ c.context = context[w] /\ c.pc = "submitted"
    OBVIOUS
  <2> HIDE DEF c
  <2>5. TaskOf[x] \in PASSWORD_ACTIONS /\ context[w] # NoContext => writes[x] = 0
    BY <2>3 DEF MemoryFits, PasswordInv, MemoryWritesOnce, ListedIsUnwritten, Knows
  <2>6. CallsWriteOnce'
    BY <1>0, <2>3, <2>4, <2>5 DEF PasswordInv, CallsWriteOnce, TaskOf, PASSWORD_ACTIONS
  <2> QED
    BY <1>2, <2>2, <2>6 DEF PasswordInv
<1>6. CASE ~ Prepare(w) /\ ~ \E x \in Targets : Submit(w, x)
  <2>1. threads' \subseteq threads /\ secret' = secret
    BY <1>6 DEF WorkerMoves, WorkerStep, Claim, MarkRunning, Drain, FinishTask,
       Aggregate, Leave, SetGuard, MainError, Crash, opVars
  <2>2. \A o \in Operations : status'[o] = "absent" => status[o] = "absent"
    <3>1. CASE \E t \in Tasks : Claim(w, t)
      BY <3>1 DEF Claim, Tasks
    <3>2. CASE FinishTask(w)
      BY <3>2, FinishedStatus DEF FinishTask, Tasks
    <3>3. CASE status' = status
      BY <3>3
    <3> QED
      BY <1>6, <3>1, <3>2, <3>3 DEF WorkerMoves, WorkerStep, MarkRunning, Drain, Aggregate,
         Leave, SetGuard, MainError, Crash, taskVars
  <2>3. context'[w] # NoContext =>
          Knows(w) /\ claimed'[w] = claimed[w] /\ remaining'[w] \subseteq remaining[w]
    <3>1. CASE \E t \in Tasks : Claim(w, t)
      BY <3>1 DEF Claim, MemoryFits
    <3>2. CASE Idle(w) \/ Crash(w)
      BY <3>2 DEF Idle, Crash, Forget
    <3>3. CASE UNCHANGED <<claimed, context, remaining>>
      BY <3>3 DEF Knows
    <3> QED
      BY <1>6, <3>1, <3>2, <3>3 DEF WorkerMoves, WorkerStep, MarkRunning, Drain, FinishTask,
         Aggregate, Leave, SetGuard, MainError
  <2>4. MemoryWritesOnce'
    BY <1>4, <2>1, <2>2, <2>3
  <2> QED
    BY <1>0, <1>2, <2>1, <2>4, CallsFrame DEF PasswordInv
<1> QED
  BY <1>3, <1>5, <1>6

\* The only call that writes a password is the only one of its target.
LEMMA CallWrites ==
  ASSUME IInv, PasswordInv, NEW h \in threads, ThreadStep(h)
  PROVE  PasswordInv'
<1>1. /\ h \in CallRecords /\ h.worker \in Workers /\ h.target \in Targets
      /\ h.context = context[h.worker] /\ TaskOf[h.target] = claimed[h.worker]
  BY DEF IInv, DirectoryTyped, CallRecords, CallsBelong
<1>2. /\ PASSWORD_ACTIONS \subseteq Operations /\ Operations \cap Syncs = {}
  BY InventoryTyped DEF IInv, RowsTyped
<1>3. /\ inventory' = inventory /\ status' = status /\ opVars' = opVars
      /\ workerVars' = workerVars
  <2>1. CASE Begin(h) \/ EndThread(h)
    BY <2>1 DEF Begin, EndThread, taskVars
  <2>2. CASE \E changed, success \in BOOLEAN : WriteDirectory(h, changed, success)
    BY <2>2 DEF WriteDirectory, taskVars
  <2>3. CASE \E success \in BOOLEAN : ReadDirectory(h, success) \/ Publish(h, success)
    BY <2>3 DEF ReadDirectory, Publish, taskVars
  <2> QED
    BY <2>1, <2>2, <2>3 DEF ThreadStep
<1>4. writes' = writes => MemoryWritesOnce'
  BY <1>3, MemoryFrame DEF PasswordInv, workerVars, opVars, Knows, Unused
<1>5. CASE Begin(h)
  <2>1. UNCHANGED writes
    BY <1>5 DEF Begin, dirVars
  <2>2. PICK g : GoesOn(h, g) /\ g.success = h.success
                 /\ g.pc = IF Bare(h) THEN "answered" ELSE "calling"
    BY <1>5, BeginMoves
  <2>3. h.pc = "submitted"
    BY <1>5 DEF Begin
  <2>4. CallsWriteOnce'
    <3>1. Bare(h) => h.context = NoContext
      BY DEF Bare
    <3> QED
      BY <1>3, <2>1, <2>2, <2>3, <3>1 DEF PasswordInv, CallsWriteOnce, GoesOn, TaskOf,
         PASSWORD_ACTIONS
  <2>5. PasswordWrittenOnce'
    <3>1. \A x \in Targets : target_status'[x] = "success" => target_status[x] = "success"
      BY <1>5 DEF Begin, IInv, RowsTyped
    <3> QED
      BY <1>3, <2>1, <3>1, WrittenFrame DEF PasswordInv
  <2> QED
    BY <1>4, <2>1, <2>4, <2>5 DEF PasswordInv
<1>6. CASE \E changed, success \in BOOLEAN : WriteDirectory(h, changed, success)
  <2>1. PICK changed \in BOOLEAN, success \in BOOLEAN : WriteDirectory(h, changed, success)
    BY <1>6
  <2>2. /\ h.pc = "calling"
        /\ success => changed
        /\ \A x \in Targets : writes'[x] = IF changed /\ x = h.target THEN writes[x] + 1
                                           ELSE writes[x]
    BY <2>1, WriteMoves
  <2>3. PICK g : GoesOn(h, g) /\ g.pc = "answered" /\ g.success = success
    BY <2>1, WriteMoves
  <2>4. target_status' = target_status
    BY <2>1 DEF WriteDirectory, taskVars
  <2>5. CASE TaskOf[h.target] \notin PASSWORD_ACTIONS
    <3>1. \A x \in Targets : TaskOf[x] \in PASSWORD_ACTIONS => writes'[x] = writes[x]
      BY <2>2, <2>5
    <3>2. OneKnows' /\ UnusedIsUnwritten'
      BY <1>3, <3>1 DEF PasswordInv, MemoryWritesOnce, OneKnows, UnusedIsUnwritten, workerVars,
         opVars, Knows, Unused, TargetsOf, TaskOf, PASSWORD_ACTIONS
    <3>3. ListedIsUnwritten'
      BY <1>3, <3>1 DEF PasswordInv, MemoryWritesOnce, ListedIsUnwritten, workerVars, Knows,
         TaskOf, PASSWORD_ACTIONS, IInv, MemoryTyped, MemoryFits
    <3>4. CallsWriteOnce'
      BY <1>1, <1>3, <2>3, <2>5, <3>1 DEF PasswordInv, CallsWriteOnce, GoesOn, TaskOf,
         PASSWORD_ACTIONS, IInv, DirectoryTyped, CallRecords
    <3>5. PasswordWrittenOnce'
      BY <1>3, <2>4, <3>1 DEF PasswordInv, PasswordWrittenOnce, TaskOf, PASSWORD_ACTIONS
    <3> QED
      BY <3>2, <3>3, <3>4, <3>5 DEF PasswordInv, MemoryWritesOnce
  <2>6. CASE TaskOf[h.target] \in PASSWORD_ACTIONS
    <3>1. h.context # NoContext
      BY <1>2, <2>2, <2>6 DEF IInv, CallsBelong, Bare
    <3>2. writes[h.target] = 0
      BY <2>2, <2>6, <3>1 DEF PasswordInv, CallsWriteOnce
    <3>3. \A x \in Targets : x # h.target => writes'[x] = writes[x]
      BY <2>2
    <3>4. /\ writes'[h.target] \in {0, 1}
          /\ success => writes'[h.target] = 1
      BY <1>1, <2>2, <3>2
    <3>5. \A v \in Workers : Knows(v) /\ claimed[v] = TaskOf[h.target] => v = h.worker
      BY <1>1, <2>6, <3>1 DEF PasswordInv, MemoryWritesOnce, OneKnows, Knows
    <3>6. OneKnows' /\ UnusedIsUnwritten'
      <4>1. ~ Unused(TaskOf[h.target])
        BY <1>1, <2>6, <3>1 DEF PasswordInv, MemoryWritesOnce, UnusedIsUnwritten, Knows
      <4> QED
        BY <1>3, <3>3, <4>1 DEF PasswordInv, MemoryWritesOnce, OneKnows, UnusedIsUnwritten,
           workerVars, opVars, Knows, Unused, TargetsOf, TaskOf, PASSWORD_ACTIONS
    <3>7. ListedIsUnwritten'
      <4>1. ASSUME NEW v \in Workers, Knows(v), claimed[v] \in PASSWORD_ACTIONS,
                   NEW x \in remaining[v]
            PROVE  writes'[x] = 0
        <5>1. x \in Targets /\ TaskOf[x] = claimed[v] /\ writes[x] = 0
          BY <4>1 DEF IInv, MemoryTyped, MemoryFits, PasswordInv, MemoryWritesOnce,
             ListedIsUnwritten
        <5>2. x # h.target
          BY <3>5, <4>1, <5>1 DEF IInv, CallsBelong
        <5> QED
          BY <3>3, <5>1, <5>2
      <4> QED
        BY <1>3, <4>1 DEF ListedIsUnwritten, workerVars, Knows, PASSWORD_ACTIONS
    <3>8. CallsWriteOnce'
      <4>1. ASSUME NEW f \in threads, f # h, TaskOf[f.target] \in PASSWORD_ACTIONS,
                   f.context # NoContext
            PROVE  writes'[f.target] = writes[f.target]
        <5>1. /\ f.worker \in Workers /\ f.target \in Targets /\ f.context = context[f.worker]
              /\ TaskOf[f.target] = claimed[f.worker]
          BY DEF IInv, DirectoryTyped, CallRecords, CallsBelong
        <5>2. f.target # h.target
          BY <3>5, <4>1, <5>1 DEF IInv, CallsBelong, Knows
        <5> QED
          BY <3>3, <5>1, <5>2
      <4>2. /\ g.target = h.target /\ threads' = (threads \ {h}) \cup {g}
        BY <2>3 DEF GoesOn
      <4> QED
        BY <1>3, <2>3, <3>4, <4>1, <4>2 DEF PasswordInv, CallsWriteOnce, TaskOf,
           PASSWORD_ACTIONS
    <3>9. PasswordWrittenOnce'
      <4>1. ASSUME NEW x \in Targets, TaskOf[x] \in PASSWORD_ACTIONS
            PROVE  /\ writes'[x] <= 1
                   /\ target_status[x] = "success" => writes'[x] = 1
        BY <3>2, <3>3, <3>4, <4>1 DEF PasswordInv, PasswordWrittenOnce
      <4> QED
        BY <1>3, <2>4, <4>1 DEF PasswordWrittenOnce, TaskOf, PASSWORD_ACTIONS
    <3> QED
      BY <3>6, <3>7, <3>8, <3>9 DEF PasswordInv, MemoryWritesOnce
  <2> QED
    BY <2>5, <2>6
<1>7. CASE \E success \in BOOLEAN : ReadDirectory(h, success)
  <2>1. PICK success \in BOOLEAN : ReadDirectory(h, success)
    BY <1>7
  <2>2. TaskOf[h.target] \in Syncs /\ writes' = writes /\ target_status' = target_status
    BY <2>1 DEF ReadDirectory, taskVars, dirVars
  <2>3. PICK g : GoesOn(h, g)
    BY <2>1, ReadMoves
  <2>4. CallsWriteOnce'
    BY <1>2, <1>3, <2>2, <2>3 DEF PasswordInv, CallsWriteOnce, GoesOn, TaskOf, PASSWORD_ACTIONS
  <2> QED
    BY <1>3, <1>4, <2>2, <2>4, WrittenFrame DEF PasswordInv
<1>8. CASE \E mirrored \in BOOLEAN : Publish(h, mirrored)
  <2>1. PICK mirrored \in BOOLEAN : Publish(h, mirrored)
    BY <1>8
  <2>2. /\ threads' \subseteq threads /\ writes' = writes /\ h.pc = "answered"
        /\ \A x \in Targets : x # h.target => target_status'[x] = target_status[x]
        /\ target_status'[h.target] = "success" => h.success
    BY <1>1, <2>1 DEF Publish, IInv, RowsTyped
  <2>3. ASSUME NEW x \in Targets, TaskOf[x] \in PASSWORD_ACTIONS, target_status'[x] = "success"
        PROVE  writes[x] = 1
    <3>1. CASE x = h.target
      <4>1. h.context # NoContext
        BY <1>2, <2>2, <2>3, <3>1 DEF IInv, CallsBelong, Bare
      <4> QED
        BY <2>2, <2>3, <3>1, <4>1 DEF PasswordInv, CallsWriteOnce
    <3> QED
      BY <2>2, <2>3, <3>1 DEF PasswordInv, PasswordWrittenOnce
  <2>4. PasswordWrittenOnce'
    BY <1>3, <2>2, <2>3 DEF PasswordInv, PasswordWrittenOnce, TaskOf, PASSWORD_ACTIONS
  <2> QED
    BY <1>3, <1>4, <2>2, <2>4, CallsFrame DEF PasswordInv
<1>9. CASE EndThread(h)
  <2>1. threads' \subseteq threads /\ writes' = writes /\ target_status' = target_status
    BY <1>9 DEF EndThread, taskVars, dirVars
  <2> QED
    BY <1>3, <1>4, <2>1, CallsFrame, WrittenFrame DEF PasswordInv
<1> QED
  BY <1>5, <1>6, <1>7, <1>8, <1>9 DEF ThreadStep

\* The directory change of a password is made at most once, although its task may be
\* claimed, cancelled, recovered and retried: the secret is gone before the first
\* call, and only the Worker that took it makes calls that write
\* (net/domain/secrets.py, prepare_domain_task_context, execute_domain_target).
THEOREM PasswordsWriteOnce == Spec => []PasswordWrittenOnce
<1>1. Init => PasswordInv
  BY DomainAssumption DEF Init, PasswordInv, MemoryWritesOnce, OneKnows, UnusedIsUnwritten,
     ListedIsUnwritten, CallsWriteOnce, PasswordWrittenOnce, Knows, TargetsOf,
     DomainAssumption, TaskOf, PASSWORD_ACTIONS
<1>2. IInv /\ PasswordInv /\ [Next]_vars => PasswordInv'
  <2> SUFFICES ASSUME IInv, PasswordInv, [Next]_vars PROVE PasswordInv'
    OBVIOUS
  <2>1. CASE UNCHANGED vars
    <3>1. /\ inventory' = inventory /\ writes' = writes /\ threads' = threads
          /\ status' = status /\ secret' = secret /\ target_status' = target_status
          /\ claimed' = claimed /\ context' = context /\ remaining' = remaining
      BY <2>1 DEF vars, taskVars, opVars, workerVars, dirVars
    <3> QED
      BY <3>1, MemoryFrame, CallsFrame, WrittenFrame DEF PasswordInv, Knows, Unused
  <2> QED
    BY <2>1, RequestWrites, WorkerWrites, CallWrites DEF Next, WorkerMoves, Tasks
<1>3. PasswordInv => PasswordWrittenOnce
  BY DEF PasswordInv
<1> QED
  BY DomainInvariant, <1>1, <1>2, <1>3, PTL DEF Spec

-----------------------------------------------------------------------------
(* The mirror.                                                             *)

IsActive(t) == status[t] \in ACTIVE_STATUSES

\* A synchronisation is active alone, operations on one name one at a time.
ScopesApart ==
  /\ \A s \in Syncs, t \in Tasks : IsActive(s) /\ IsActive(t) => s = t
  /\ \A x, y \in Targets :
       /\ TaskOf[x] \in Operations /\ TaskOf[y] \in Operations
       /\ IsActive(TaskOf[x]) /\ IsActive(TaskOf[y]) /\ DnOf[x] = DnOf[y]
       => TaskOf[x] = TaskOf[y]

\* The task of the call is still running under the Worker of the call.
Holds(h) == /\ status[TaskOf[h.target]] = "running"
            /\ worker_id[TaskOf[h.target]] = h.worker

\* What a call may still publish is not older than the mirror.
AnswersAreFresh ==
  \A h \in threads : h.pc = "answered" /\ h.success /\ Holds(h) =>
    \A d \in Names : TaskOf[h.target] \in Syncs \/ d = DnOf[h.target] => mirror[d] <= h.read[d]

NothingFromTheFuture ==
  \A d \in Names : mirror[d] <= directory[d] /\ \A h \in threads : h.read[d] <= directory[d]

MirrorInv == ScopesApart /\ AnswersAreFresh /\ NothingFromTheFuture

\* A task becomes active by its own request only, and starts to run by its claim.
ActiveStep(t) ==
  \/ t \in Operations /\ EnqueueOperation(t)
  \/ t \in Syncs /\ EnqueueSync(t)
  \/ /\ IsActive(t)
     /\ status'[t] = "running" =>
          \/ status[t] = "running" /\ worker_id'[t] = worker_id[t]
          \/ \E w \in Workers : Claim(w, t) /\ worker_id'[t] = w

LEMMA ActiveSince ==
  ASSUME IInv, [Next]_vars, NEW t \in Tasks, status'[t] \in ACTIVE_STATUSES
  PROVE  ActiveStep(t)
<1>1. ASSUME NEW o \in Operations, EnqueueOperation(o) PROVE ActiveStep(t)
  BY <1>1 DEF ActiveStep, IInv, RowsTyped, IsActive, ACTIVE_STATUSES, EnqueueOperation,
              CreateRows, Tasks
<1>2. ASSUME NEW o \in Syncs, EnqueueSync(o) PROVE ActiveStep(t)
  BY <1>2 DEF ActiveStep, IInv, RowsTyped, IsActive, ACTIVE_STATUSES, EnqueueSync,
              CreateRows, Tasks
<1>3. ASSUME NEW o \in Tasks, Cancel(o) \/ Recover(o) PROVE ActiveStep(t)
  <2> USE DEF ActiveStep, IInv, RowsTyped, IsActive, ACTIVE_STATUSES
  <2>1. CASE Cancel(o)
    BY <2>1 DEF Cancel
  <2>2. CASE Recover(o)
    BY <2>2, FinishedStatus DEF Recover
  <2> QED
    BY <1>3, <2>1, <2>2
<1>4. ASSUME NEW w \in Workers, NEW o \in Tasks, Claim(w, o) PROVE ActiveStep(t)
  BY <1>4 DEF ActiveStep, IInv, RowsTyped, IsActive, ACTIVE_STATUSES, Claim
<1>5. ASSUME NEW w \in Workers, FinishTask(w) PROVE ActiveStep(t)
  BY <1>5, FinishedStatus DEF ActiveStep, IInv, RowsTyped, IsActive, ACTIVE_STATUSES,
                              FinishTask
<1>6. ASSUME UNCHANGED <<status, worker_id>> PROVE ActiveStep(t)
  BY <1>6 DEF ActiveStep, IsActive
<1>7. ASSUME NEW h \in threads, ThreadStep(h) PROVE UNCHANGED <<status, worker_id>>
  BY <1>7 DEF ThreadStep, Begin, WriteDirectory, ReadDirectory, Publish, EndThread, taskVars
<1>8. ASSUME NEW w \in Workers, WorkerMoves(w) PROVE ActiveStep(t)
  <2>1. \/ UNCHANGED <<status, worker_id>> \/ FinishTask(w) \/ \E o \in Tasks : Claim(w, o)
    BY <1>8 DEF WorkerMoves, WorkerStep, Prepare, MarkRunning, Submit, Drain, Aggregate, Leave,
       SetGuard, MainError, Crash, taskVars
  <2> QED
    BY <1>4, <1>5, <1>6, <2>1
<1>9. ASSUME NEW o \in Tasks, (o \in Operations /\ ExpireSecret(o)) \/ ExpireLease(o)
      PROVE  UNCHANGED <<status, worker_id>>
  BY <1>9 DEF ExpireSecret, ExpireLease, taskVars
<1>10. CASE UNCHANGED vars
  BY <1>6, <1>10 DEF vars, taskVars
<1> QED
  BY <1>1, <1>2, <1>3, <1>6, <1>7, <1>8, <1>9, <1>10 DEF Next, WorkerMoves, Tasks

LEMMA ScopesKeep ==
  ASSUME IInv, ScopesApart, [Next]_vars
  PROVE  ScopesApart'
<1>0. /\ inventory' = inventory /\ TaskOf \in [Targets -> Tasks]
      /\ Operations \cap Syncs = {} /\ Tasks = Operations \cup Syncs
  BY InventoryFixed, InventoryTyped DEF IInv, RowsTyped, Tasks
<1>1. \A t \in Tasks : IsActive(t)' => \/ t \in Operations /\ EnqueueOperation(t)
                                       \/ t \in Syncs /\ EnqueueSync(t)
                                       \/ IsActive(t)
  BY ActiveSince DEF ActiveStep, IsActive
<1>2. ASSUME NEW o \in Operations, EnqueueOperation(o) PROVE ScopesApart'
  <2>1. /\ \A s \in Syncs : ~ IsActive(s)
        /\ \A x \in TargetsOf(o), y \in Targets :
             TaskOf[y] \in Operations /\ IsActive(TaskOf[y]) => DnOf[x] # DnOf[y]
    BY <1>2 DEF EnqueueOperation, Active, IsActive
  <2>2. \A t \in Tasks : t # o => status'[t] = status[t]
    BY <1>2 DEF EnqueueOperation, CreateRows, IInv, RowsTyped
  <2> QED
    BY <1>0, <2>1, <2>2 DEF ScopesApart, IsActive, TargetsOf, TaskOf, DnOf
<1>3. ASSUME NEW o \in Syncs, EnqueueSync(o) PROVE ScopesApart'
  <2>1. \A t \in Tasks : ~ IsActive(t)
    BY <1>0, <1>3 DEF EnqueueSync, sync_allowed, Active, IsActive
  <2>2. \A t \in Tasks : t # o => status'[t] = status[t]
    BY <1>3 DEF EnqueueSync, CreateRows, IInv, RowsTyped
  <2> QED
    BY <1>0, <2>1, <2>2 DEF ScopesApart, IsActive, TaskOf, DnOf
<1>4. CASE \A t \in Tasks : IsActive(t)' => IsActive(t)
  BY <1>0, <1>4 DEF ScopesApart, IsActive, TaskOf, DnOf
<1> QED
  BY <1>1, <1>2, <1>3, <1>4

\* A call never gets its task back: its Worker does not claim while it has calls.
LEMMA HoldsSince ==
  ASSUME IInv, [Next]_vars, NEW h \in threads,
         status'[TaskOf[h.target]] = "running", worker_id'[TaskOf[h.target]] = h.worker
  PROVE  Holds(h)
<1> DEFINE t == TaskOf[h.target]
<1>1. /\ t \in Tasks /\ h.worker \in Workers /\ pc[h.worker] = "running"
  BY InventoryTyped DEF IInv, DirectoryTyped, CallRecords, CallsBelong, RowsTyped
<1> HIDE DEF t
<1>2. status'[t] = "running" /\ worker_id'[t] = h.worker
  BY DEF t
<1>3. t \in Operations => ~ EnqueueOperation(t)
  BY <1>1, <1>2 DEF EnqueueOperation, CreateRows, IInv, RowsTyped
<1>4. t \in Syncs => ~ EnqueueSync(t)
  BY <1>1, <1>2 DEF EnqueueSync, CreateRows, IInv, RowsTyped
<1>5. ~ Claim(h.worker, t)
  BY <1>1 DEF Claim
<1>6. status[t] = "running" /\ worker_id'[t] = worker_id[t]
  BY <1>1, <1>2, <1>3, <1>4, <1>5, ActiveSince DEF ActiveStep, ACTIVE_STATUSES
<1> QED
  BY <1>2, <1>6 DEF Holds, t

LEMMA AnswersFrame ==
  ASSUME IInv, MirrorInv, [Next]_vars, mirror' = mirror,
         directory' \in [Names -> Nat],
         \A d \in Names : directory[d] <= directory'[d],
         \A h \in threads' : \/ h \in threads \/ h.read = directory'
                             \/ /\ h.pc # "answered" \/ ~h.success
                                /\ \E g \in threads : h.read = g.read
  PROVE  AnswersAreFresh' /\ NothingFromTheFuture'
<1>1. inventory' = inventory
  BY InventoryFixed
<1>2. /\ \A d \in Names : mirror[d] \in Nat /\ directory[d] \in Nat /\ directory'[d] \in Nat
      /\ \A h \in threads, d \in Names : h.read[d] \in Nat
  BY DEF IInv, DirectoryTyped, CallRecords
<1>3. \A d \in Names : mirror[d] <= directory'[d]
  BY <1>2 DEF MirrorInv, NothingFromTheFuture
<1>4. \A h \in threads, d \in Names : h.read[d] <= directory'[d]
  BY <1>2 DEF MirrorInv, NothingFromTheFuture
<1>5. ASSUME NEW h \in threads', h.pc = "answered", h.success, Holds(h)', NEW d \in Names,
             TaskOf[h.target] \in Syncs \/ d = DnOf[h.target]
      PROVE  mirror[d] <= h.read[d]
  <2>1. CASE h \in threads
    <3>1. Holds(h)
      BY <1>1, <1>5, <2>1, HoldsSince DEF Holds, TaskOf
    <3> QED
      BY <1>5, <2>1, <3>1 DEF MirrorInv, AnswersAreFresh
  <2>2. CASE h.read = directory'
    BY <1>3, <2>2
  <2> QED
    BY <1>5, <2>1, <2>2
<1>6. AnswersAreFresh'
  BY <1>1, <1>5 DEF AnswersAreFresh, TaskOf, DnOf
<1>7. NothingFromTheFuture'
  BY <1>2, <1>3, <1>4 DEF NothingFromTheFuture
<1> QED
  BY <1>6, <1>7

\* Two calls that may both publish on a name are the same call.
LEMMA PublishersApart ==
  ASSUME IInv, ScopesApart, NEW g \in threads, NEW h \in threads, Holds(g), Holds(h),
         \/ TaskOf[g.target] \in Syncs \/ TaskOf[h.target] \in Syncs
         \/ DnOf[g.target] = DnOf[h.target]
  PROVE  g = h
<1>1. /\ g.target \in Targets /\ h.target \in Targets
      /\ TaskOf[g.target] \in Tasks /\ TaskOf[h.target] \in Tasks
      /\ IsActive(TaskOf[g.target]) /\ IsActive(TaskOf[h.target])
  BY InventoryTyped DEF IInv, DirectoryTyped, CallRecords, RowsTyped, Holds, IsActive,
                        ACTIVE_STATUSES
<1>2. TaskOf[g.target] = TaskOf[h.target]
  BY <1>1 DEF ScopesApart, Tasks
<1>3. g.worker = h.worker
  BY <1>2 DEF Holds
<1>4. DnOf[g.target] = DnOf[h.target]
  BY <1>1, <1>2, InventoryTyped DEF IInv, RowsTyped
<1> QED
  BY <1>3, <1>4 DEF IInv, CallsBelong

LEMMA PublishMirrors ==
  ASSUME IInv, MirrorInv, [Next]_vars, NEW h \in threads, NEW mirrored \in BOOLEAN,
         Publish(h, mirrored)
  PROVE  AnswersAreFresh' /\ NothingFromTheFuture' /\ KeepsMirror
<1>1. inventory' = inventory /\ threads' = threads \ {h} /\ directory' = directory
  BY InventoryFixed DEF Publish
<1>2. /\ \A d \in Names : mirror[d] \in Nat /\ directory[d] \in Nat
      /\ \A g \in threads, d \in Names : g.read[d] \in Nat
  BY DEF IInv, DirectoryTyped, CallRecords
<1>3. /\ h.pc = "answered" /\ Holds(h)
      /\ mirrored => h.success
  BY DEF Publish, CanPublish, Fence, has_live_lease, Holds
<1> DEFINE touched(d) == mirrored /\ (TaskOf[h.target] \in Syncs \/ d = DnOf[h.target])
<1>4. \A d \in Names : mirror'[d] = IF touched(d) THEN h.read[d] ELSE mirror[d]
  BY DEF Publish
<1>5. \A d \in Names : touched(d) => mirror[d] <= h.read[d]
  BY <1>3 DEF MirrorInv, AnswersAreFresh
<1>6. KeepsMirror
  BY <1>2, <1>4, <1>5 DEF KeepsMirror
<1>7. NothingFromTheFuture'
  BY <1>1, <1>2, <1>4 DEF MirrorInv, NothingFromTheFuture
<1>8. ASSUME NEW g \in threads', g.pc = "answered", g.success, Holds(g)', NEW d \in Names,
             TaskOf[g.target] \in Syncs \/ d = DnOf[g.target]
      PROVE  mirror'[d] <= g.read[d]
  <2>1. g \in threads /\ g # h
    BY <1>1
  <2>2. Holds(g)
    BY <1>1, <1>8, <2>1, HoldsSince DEF Holds, TaskOf
  <2>3. ~ touched(d)
    BY <1>3, <1>8, <2>1, <2>2, PublishersApart DEF MirrorInv
  <2>4. mirror[d] <= g.read[d]
    BY <1>8, <2>1, <2>2 DEF MirrorInv, AnswersAreFresh
  <2> QED
    BY <1>4, <2>3, <2>4
<1>9. AnswersAreFresh'
  BY <1>1, <1>8 DEF AnswersAreFresh, TaskOf, DnOf
<1> QED
  BY <1>6, <1>7, <1>9

LEMMA MirrorKeeps ==
  ASSUME IInv, MirrorInv, [Next]_vars
  PROVE  MirrorInv' /\ KeepsMirror
<1>1. ScopesApart'
  BY ScopesKeep DEF MirrorInv
<1>2. \A d \in Names : mirror[d] \in Nat /\ directory[d] \in Nat
  BY DEF IInv, DirectoryTyped
<1>3. mirror' = mirror => KeepsMirror
  BY <1>2 DEF KeepsMirror
<1>4. ASSUME UNCHANGED <<mirror, directory>>,
             \A h \in threads' : \/ h \in threads \/ h.read = directory'
                                 \/ /\ h.pc # "answered" \/ ~h.success
                                    /\ \E g \in threads : h.read = g.read
      PROVE  AnswersAreFresh' /\ NothingFromTheFuture' /\ KeepsMirror
  BY <1>2, <1>3, <1>4, AnswersFrame DEF IInv, DirectoryTyped
<1>5. ASSUME NEW w \in Workers, NEW x \in Targets, Submit(w, x)
      PROVE  AnswersAreFresh' /\ NothingFromTheFuture' /\ KeepsMirror
  BY <1>4, <1>5 DEF Submit, dirVars
<1>6. ASSUME NEW h \in threads, ThreadStep(h)
      PROVE  AnswersAreFresh' /\ NothingFromTheFuture' /\ KeepsMirror
  <2>1. CASE Begin(h)
    <3>1. PICK g : /\ GoesOn(h, g) /\ g.success = h.success /\ g.read = h.read
                   /\ g.pc = IF Bare(h) THEN "answered" ELSE "calling"
      BY <2>1, BeginMoves
    <3>2. g.pc # "answered" \/ ~g.success
      BY <3>1 DEF IInv, CallsBelong
    <3>3. UNCHANGED <<mirror, directory>>
      BY <2>1 DEF Begin, dirVars
    <3> QED
      BY <1>4, <3>1, <3>2, <3>3 DEF GoesOn
  <2>2. CASE \E changed, success \in BOOLEAN : WriteDirectory(h, changed, success)
    <3>1. /\ directory' \in [Names -> Nat] /\ \A d \in Names : directory'[d] >= directory[d]
          /\ \E g : threads' = (threads \ {h}) \cup {g} /\ g.read = directory'
      BY <2>2, WriteMoves DEF GoesOn
    <3>2. mirror' = mirror
      BY <2>2 DEF WriteDirectory
    <3> QED
      BY <1>2, <1>3, <3>1, <3>2, AnswersFrame
  <2>3. CASE \E success \in BOOLEAN : ReadDirectory(h, success)
    <3>1. UNCHANGED <<mirror, directory>>
      BY <2>3 DEF ReadDirectory, dirVars
    <3>2. \E g : threads' = (threads \ {h}) \cup {g} /\ g.read = directory'
      BY <2>3, <3>1, ReadMoves DEF GoesOn
    <3> QED
      BY <1>4, <3>1, <3>2
  <2>4. CASE \E mirrored \in BOOLEAN : Publish(h, mirrored)
    BY <2>4, PublishMirrors
  <2>5. CASE EndThread(h)
    BY <1>4, <2>5 DEF EndThread, dirVars
  <2> QED
    BY <1>6, <2>1, <2>2, <2>3, <2>4, <2>5 DEF ThreadStep
<1>7. ASSUME UNCHANGED <<mirror, directory>>, threads' \subseteq threads
      PROVE  AnswersAreFresh' /\ NothingFromTheFuture' /\ KeepsMirror
  <2>1. \A h \in threads' : h \in threads
    BY <1>7
  <2> QED
    BY <1>4, <1>7, <2>1
<1>8. ASSUME NEW w \in Workers, WorkerMoves(w)
      PROVE  AnswersAreFresh' /\ NothingFromTheFuture' /\ KeepsMirror
  <2>1. \/ UNCHANGED <<mirror, directory>> /\ threads' \subseteq threads
        \/ \E x \in Targets : Submit(w, x)
    BY <1>8 DEF WorkerMoves, WorkerStep, Claim, Prepare, MarkRunning, Drain, FinishTask,
       Aggregate, Leave, SetGuard, MainError, Crash, dirVars
  <2> QED
    BY <1>5, <1>7, <2>1
<1>9. ASSUME NEW t \in Tasks,
             \/ t \in Operations /\ (EnqueueOperation(t) \/ ExpireSecret(t))
             \/ t \in Syncs /\ EnqueueSync(t)
             \/ Cancel(t) \/ Recover(t) \/ ExpireLease(t)
      PROVE  AnswersAreFresh' /\ NothingFromTheFuture' /\ KeepsMirror
  <2>1. UNCHANGED <<mirror, directory, threads>>
    BY <1>9 DEF EnqueueOperation, EnqueueSync, CreateRows, ExpireSecret, Cancel, Recover,
       ExpireLease, dirVars
  <2> QED
    BY <1>7, <2>1
<1>10. ASSUME UNCHANGED vars
       PROVE  AnswersAreFresh' /\ NothingFromTheFuture' /\ KeepsMirror
  <2>1. UNCHANGED <<mirror, directory, threads>>
    BY <1>10 DEF vars, dirVars
  <2> QED
    BY <1>7, <2>1
<1>11. AnswersAreFresh' /\ NothingFromTheFuture' /\ KeepsMirror
  BY <1>6, <1>8, <1>9, <1>10 DEF Next, WorkerMoves, Tasks
<1> QED
  BY <1>1, <1>11 DEF MirrorInv

\* What the local tables know of a name never goes back to an older state of the
\* directory (_publish of net/domain/sync_tasks.py, _persist_domain_outcome): neither
\* a cancelled task's thread nor a snapshot read too early overwrites what came later.
THEOREM MirrorGoesForward == Spec => MirrorNeverRegresses
<1>1. Init => MirrorInv
  <2> SUFFICES ASSUME Init PROVE MirrorInv
    OBVIOUS
  <2>1. \A t \in Tasks : ~ IsActive(t)
    BY DEF Init, IsActive, ACTIVE_STATUSES
  <2>2. ScopesApart
    BY <2>1 DEF ScopesApart, Tasks
  <2>3. AnswersAreFresh /\ NothingFromTheFuture
    BY DEF Init, AnswersAreFresh, NothingFromTheFuture
  <2> QED
    BY <2>2, <2>3 DEF MirrorInv
<1>2. IInv /\ MirrorInv /\ [Next]_vars => MirrorInv'
  BY MirrorKeeps
<1>3. IInv /\ MirrorInv /\ [Next]_vars => [KeepsMirror]_vars
  BY MirrorKeeps
<1> QED
  BY DomainInvariant, <1>1, <1>2, <1>3, PTL DEF Spec, MirrorNeverRegresses

-----------------------------------------------------------------------------
(* The life cycle of the tasks.                                            *)

Open   == {"queued", "running"}
Closed == {"success", "failed"}

\* What the life cycle needs to know of a task: it has targets, a queued one has an
\* attempt left and no target running, and what is open or closed says so.
TaskFits(t) ==
  /\ status[t] # "absent" => \E x \in Targets : TaskOf[x] = t
  /\ attempt_count[t] <= MAX_TASK_ATTEMPTS
  /\ status[t] \in {"absent", "queued"} => attempt_count[t] < MAX_TASK_ATTEMPTS
  /\ status[t] \in Open => \A x \in TargetsOf(t) : target_status[x] \in Open \cup Closed
  /\ status[t] = "queued" => \A x \in TargetsOf(t) : target_status[x] # "running"

\* Only the Worker of a password task knows a password.
ContextFits ==
  \A w \in Workers : context[w] # NoContext /\ context[w].password
                       => claimed[w] \in PASSWORD_ACTIONS

LifecycleInv == (\A t \in Tasks : TaskFits(t)) /\ ContextFits

\* A step of the life cycle that adds rows to a task which has targets, and that
\* never calls a target partially successful.
LifeStep(t) ==
  /\ Lifecycle!Step(t)
  /\ status[t] = "absent" /\ status'[t] # "absent" => \E x \in Targets : TaskOf[x] = t
  /\ \A x \in TargetsOf(t) : target_status'[x] = "partial" => target_status[x] = "partial"

LEMMA SameNames ==
  /\ \A t : Lifecycle!Own(t) = TargetsOf(t)
  /\ Lifecycle!Final = TERMINAL_STATUSES
  BY DEF Lifecycle!Own, Lifecycle!Final, TargetsOf, TERMINAL_STATUSES

LEMMA UntouchedIs ==
  ASSUME NEW t \in Tasks, status'[t] = status[t], attempt_count'[t] = attempt_count[t],
         \A x \in TargetsOf(t) : target_status'[x] = target_status[x]
  PROVE  LifeStep(t)
<1>1. Lifecycle!Untouched(t)
  BY SameNames DEF Lifecycle!Untouched
<1> QED
  BY <1>1 DEF LifeStep, Lifecycle!Step

\* The verdict on the targets of a task that is closed.
LEMMA VerdictIs ==
  ASSUME NEW t \in Tasks, NEW st, \E x \in Targets : TaskOf[x] = t,
         \A x \in TargetsOf(t) : st[x] \in Closed
  PROVE  /\ finished_status(t, st) = "success" <=> \A x \in TargetsOf(t) : st[x] = "success"
         /\ finished_status(t, st) = "failed" <=> \A x \in TargetsOf(t) : st[x] = "failed"
         /\ finished_status(t, st) \in {"success", "partial", "failed"}
BY DEF finished_status, Closed, TargetsOf

\* A step of the life cycle keeps what it needs to know.
LEMMA LifeKeeps ==
  ASSUME IInv, NEW t \in Tasks, TaskFits(t), LifeStep(t), inventory' = inventory,
         attempt_count'[t] \in Nat
  PROVE  TaskFits(t)'
<1> USE DomainAssumption DEF DomainAssumption
<1>0. /\ TargetsOf(t)' = TargetsOf(t) /\ TaskOf' = TaskOf
      /\ attempt_count[t] \in Nat /\ MAX_TASK_ATTEMPTS \in Nat \ {0}
  BY DEF TargetsOf, TaskOf, IInv, RowsTyped
<1>1. CASE Lifecycle!Untouched(t)
  BY <1>0, <1>1, SameNames DEF TaskFits, Lifecycle!Untouched
<1>2. CASE Lifecycle!Admit(t)
  BY <1>0, <1>2, SameNames DEF TaskFits, LifeStep, Lifecycle!Admit, Lifecycle!Becomes, Open
<1>3. CASE Lifecycle!Take(t)
  BY <1>0, <1>3, SameNames DEF TaskFits, Lifecycle!Take, Lifecycle!Becomes, Open
<1>4. CASE Lifecycle!Work(t)
  <2>1. \A x \in TargetsOf(t) : target_status'[x] \in Open \cup Closed
    BY <1>4, SameNames DEF TaskFits, LifeStep, Lifecycle!Work, Lifecycle!Becomes, Open, Closed
  <2> QED
    BY <1>0, <1>4, <2>1 DEF TaskFits, Lifecycle!Work, Lifecycle!Becomes
<1>5. CASE Lifecycle!Abort(t)
  <2>1. \A x \in TargetsOf(t) : target_status'[x] \in Open \cup Closed
    BY <1>5, SameNames DEF TaskFits, Lifecycle!Abort, Lifecycle!Becomes, Open, Closed
  <2> QED
    BY <1>0, <1>5, <2>1 DEF TaskFits, Lifecycle!Abort, Lifecycle!Becomes
<1>6. CASE Lifecycle!GiveBack(t) \/ Lifecycle!Retake(t)
  <2>1. /\ status[t] = "running" /\ attempt_count[t] < MAX_TASK_ATTEMPTS
        /\ \/ status'[t] = "queued" /\ attempt_count'[t] = attempt_count[t]
           \/ status'[t] = "running" /\ attempt_count'[t] = attempt_count[t] + 1
    BY <1>6 DEF Lifecycle!GiveBack, Lifecycle!Retake, Lifecycle!Becomes
  <2>2. \A x \in TargetsOf(t) : target_status'[x] \in {"queued"} \cup Closed
    BY <1>6, <2>1, SameNames DEF TaskFits, Lifecycle!GiveBack, Lifecycle!Retake,
       Lifecycle!Reset, Open, Closed, TERMINAL_STATUSES
  <2> QED
    BY <1>0, <2>1, <2>2 DEF TaskFits, Open, Closed
<1>7. CASE Lifecycle!Close(t) \/ Lifecycle!Cancel(t)
  <2>1. /\ status[t] # "absent" /\ status'[t] \in TERMINAL_STATUSES
        /\ attempt_count'[t] = attempt_count[t]
    BY <1>7 DEF Lifecycle!Close, Lifecycle!Cancel, TERMINAL_STATUSES
  <2> QED
    BY <1>0, <2>1 DEF TaskFits, Open, TERMINAL_STATUSES
<1> QED
  BY <1>1, <1>2, <1>3, <1>4, <1>5, <1>6, <1>7 DEF LifeStep, Lifecycle!Step

\* The requests, and what the database does by itself.
LEMMA RequestLives ==
  ASSUME IInv, LifecycleInv, NEW t \in Tasks, NEW o \in Tasks,
         \/ o \in Operations /\ (EnqueueOperation(o) \/ ExpireSecret(o))
         \/ o \in Syncs /\ EnqueueSync(o)
         \/ Cancel(o) \/ Recover(o) \/ ExpireLease(o)
  PROVE  LifeStep(t)
<1> USE DEF IInv, RowsTyped
<1>0. \A x \in TargetsOf(t) : x \in Targets /\ TaskOf[x] = t
  BY DEF TargetsOf
<1>1. CASE CreateRows(o)
  <2>1. t # o => LifeStep(t)
    BY <1>0, <1>1, UntouchedIs DEF CreateRows
  <2>2. ASSUME t = o PROVE LifeStep(t)
    <3>1. /\ status[t] = "absent" /\ status'[t] = "queued" /\ attempt_count' = attempt_count
          /\ \A x \in TargetsOf(t) : target_status'[x] = "queued"
          /\ \E x \in Targets : TaskOf[x] = t
      BY <1>0, <1>1, <2>2 DEF CreateRows, TargetsOf
    <3>2. Lifecycle!Admit(t)
      BY <3>1, SameNames DEF Lifecycle!Admit, Lifecycle!Becomes
    <3> QED
      BY <3>1, <3>2 DEF LifeStep, Lifecycle!Step
  <2> QED
    BY <2>1, <2>2
<1>2. CASE Cancel(o)
  <2>1. t # o => LifeStep(t)
    BY <1>0, <1>2, UntouchedIs DEF Cancel
  <2>2. ASSUME t = o PROVE LifeStep(t)
    <3>1. /\ status[t] \in {"queued", "running"} /\ status'[t] = "cancelled"
          /\ attempt_count' = attempt_count
          /\ \A x \in TargetsOf(t) : target_status'[x] =
               IF target_status[x] \in TERMINAL_STATUSES THEN target_status[x] ELSE "cancelled"
      BY <1>0, <1>2, <2>2 DEF Cancel, ACTIVE_STATUSES
    <3>2. Lifecycle!Cancel(t)
      BY <3>1, SameNames DEF Lifecycle!Cancel
    <3>3. \A x \in TargetsOf(t) : target_status'[x] = "partial" => target_status[x] = "partial"
      BY <3>1
    <3> QED
      BY <3>1, <3>2, <3>3 DEF LifeStep, Lifecycle!Step
  <2> QED
    BY <2>1, <2>2
<1>3. CASE Recover(o)
  <2>1. t # o => LifeStep(t)
    BY <1>0, <1>3, UntouchedIs DEF Recover
  <2>2. ASSUME t = o PROVE LifeStep(t)
    <3>1. /\ status[t] = "running" /\ attempt_count'[t] = attempt_count[t]
          /\ attempt_count[t] \in Nat /\ attempt_count[t] <= MAX_TASK_ATTEMPTS
          /\ \E x \in Targets : TaskOf[x] = t
          /\ MAX_TASK_ATTEMPTS \in Nat
          /\ \A x \in TargetsOf(t) : target_status[x] \in Open \cup Closed
      BY <1>3, <2>2, DomainAssumption DEF DomainAssumption, Recover, LifecycleInv, TaskFits,
         Open
    <3>2. \A x \in TargetsOf(t) :
            target_status'[x] = IF target_status[x] \in TERMINAL_STATUSES THEN target_status[x]
                                ELSE IF attempt_count[t] >= MAX_TASK_ATTEMPTS THEN "failed"
                                ELSE "queued"
      BY <1>0, <1>3, <2>2 DEF Recover, recovered_target
    <3>3. /\ AllTerminal(t, target_status') =>
               status'[t] = finished_status(t, target_status')
          /\ ~AllTerminal(t, target_status') => status'[t] = "queued"
      BY <1>3, <2>2 DEF Recover
    <3>4. \A x \in TargetsOf(t) : target_status'[x] # "partial"
      BY <3>1, <3>2 DEF Open, Closed
    <3>5. CASE AllTerminal(t, target_status')
      <4>1. \A x \in TargetsOf(t) : /\ target_status'[x] \in Closed
                                    /\ target_status'[x] =
                                         IF target_status[x] \in TERMINAL_STATUSES
                                         THEN target_status[x] ELSE "failed"
        BY <3>1, <3>2, <3>5 DEF AllTerminal, Open, Closed, TERMINAL_STATUSES
      <4>2. \/ attempt_count[t] = MAX_TASK_ATTEMPTS
            \/ \A x \in TargetsOf(t) : target_status[x] \in TERMINAL_STATUSES
        BY <3>1, <3>2, <3>5 DEF AllTerminal, TERMINAL_STATUSES
      <4>3. Lifecycle!Verdict(t) /\ status'[t] \in {"success", "partial", "failed"}
        BY <3>1, <3>3, <3>5, <4>1, VerdictIs, SameNames DEF Lifecycle!Verdict
      <4>4. Lifecycle!Close(t)
        BY <3>1, <4>1, <4>2, <4>3, SameNames DEF Lifecycle!Close
      <4> QED
        BY <3>1, <3>4, <4>4 DEF LifeStep, Lifecycle!Step
    <3>6. CASE ~AllTerminal(t, target_status')
      <4>1. attempt_count[t] < MAX_TASK_ATTEMPTS
        BY <3>1, <3>2, <3>6 DEF AllTerminal, TERMINAL_STATUSES
      <4>2. \A x \in TargetsOf(t) : target_status'[x] =
              IF target_status[x] \in TERMINAL_STATUSES THEN target_status[x] ELSE "queued"
        BY <3>1, <3>2, <4>1
      <4>3. Lifecycle!GiveBack(t)
        BY <3>1, <3>3, <3>6, <4>1, <4>2, SameNames DEF Lifecycle!GiveBack, Lifecycle!Becomes,
           Lifecycle!Reset
      <4> QED
        BY <3>1, <3>4, <4>3 DEF LifeStep, Lifecycle!Step
    <3> QED
      BY <3>5, <3>6
  <2> QED
    BY <2>1, <2>2
<1>4. CASE UNCHANGED <<status, attempt_count, target_status>>
  BY <1>4, UntouchedIs
<1> QED
  BY <1>1, <1>2, <1>3, <1>4 DEF EnqueueOperation, EnqueueSync, ExpireSecret, ExpireLease, taskVars

\* The Workers: a claim, the end of a task, and the task that is broken off.
LEMMA WorkerLives ==
  ASSUME IInv, LifecycleInv, NEW t \in Tasks, NEW w \in Workers, WorkerMoves(w)
  PROVE  LifeStep(t)
<1> USE DEF IInv, RowsTyped
<1>0. \A x \in TargetsOf(t) : x \in Targets /\ TaskOf[x] = t
  BY DEF TargetsOf
<1>1. ASSUME NEW o \in Tasks, Claim(w, o) PROVE LifeStep(t)
  <2>1. t # o => LifeStep(t)
    BY <1>1, UntouchedIs DEF Claim
  <2>2. ASSUME t = o PROVE LifeStep(t)
    <3>1. /\ status[t] = "queued" /\ status'[t] = "running" /\ target_status' = target_status
          /\ attempt_count'[t] = attempt_count[t] + 1
      BY <1>1, <2>2 DEF Claim
    <3>2. /\ attempt_count[t] < MAX_TASK_ATTEMPTS
          /\ \A x \in TargetsOf(t) : target_status[x] # "running"
      BY <3>1 DEF LifecycleInv, TaskFits
    <3>3. Lifecycle!Take(t)
      BY <3>1, <3>2, SameNames DEF Lifecycle!Take, Lifecycle!Becomes
    <3> QED
      BY <3>1, <3>3 DEF LifeStep, Lifecycle!Step
  <2> QED
    BY <2>1, <2>2
<1>2. CASE FinishTask(w)
  <2>1. CASE ~ (CanFinish(w) /\ claimed[w] = t)
    BY <1>2, <2>1, UntouchedIs DEF FinishTask
  <2>2. CASE CanFinish(w) /\ claimed[w] = t
    <3>1. /\ status[t] = "running" /\ AllTerminal(t, target_status)
          /\ status'[t] = finished_status(t, target_status)
          /\ target_status' = target_status /\ attempt_count' = attempt_count
      BY <1>2, <2>2 DEF FinishTask, CanFinish, has_live_lease
    <3>2. /\ \A x \in TargetsOf(t) : target_status[x] \in Closed
          /\ \E x \in Targets : TaskOf[x] = t
      BY <3>1 DEF LifecycleInv, TaskFits, AllTerminal, Open, Closed, TERMINAL_STATUSES
    <3>3. Lifecycle!Verdict(t) /\ status'[t] \in {"success", "partial", "failed"}
      BY <3>1, <3>2, VerdictIs, SameNames DEF Lifecycle!Verdict
    <3>4. Lifecycle!Close(t)
      BY <3>1, <3>3, SameNames DEF Lifecycle!Close, AllTerminal
    <3> QED
      BY <3>1, <3>4 DEF LifeStep, Lifecycle!Step
  <2> QED
    BY <2>1, <2>2
<1>3. CASE Leave(w)
  <2>1. UNCHANGED <<status, attempt_count>>
    BY <1>3 DEF Leave
  <2>2. CASE \A x \in TargetsOf(t) : target_status'[x] = target_status[x]
    BY <2>1, <2>2, UntouchedIs
  <2>3. CASE \E x \in TargetsOf(t) : target_status'[x] # target_status[x]
    <3>1. PICK x \in TargetsOf(t) : target_status'[x] # target_status[x]
      BY <2>3
    <3>2. /\ context[w] # NoContext /\ context[w].password /\ HoldsClaim(w)
          /\ x \in TargetsOf(claimed[w])
          /\ \A y \in TargetsOf(claimed[w]) : target_status'[y] =
               IF target_status[y] \in ACTIVE_STATUSES THEN "failed" ELSE target_status[y]
      <4>1. x \in Targets
        BY <1>0
      <4> QED
        BY <1>3, <3>1, <4>1 DEF Leave, TargetsOf
    <3>3. claimed[w] = t
      BY <1>0, <3>2 DEF TargetsOf
    <3>4. t \in PASSWORD_ACTIONS /\ status[t] = "running"
      BY <3>2, <3>3 DEF LifecycleInv, ContextFits, HoldsClaim, has_live_lease
    <3>5. \A y \in TargetsOf(t) : target_status'[y] =
            IF target_status[y] \in TERMINAL_STATUSES THEN target_status[y] ELSE "failed"
      BY <3>2, <3>3, <3>4 DEF LifecycleInv, TaskFits, Open, Closed, ACTIVE_STATUSES,
         TERMINAL_STATUSES
    <3>6. Lifecycle!Abort(t)
      BY <2>1, <3>4, <3>5, SameNames DEF Lifecycle!Abort, Lifecycle!Becomes
    <3>7. \A y \in TargetsOf(t) : target_status'[y] = "partial" => target_status[y] = "partial"
      BY <3>5
    <3> QED
      BY <2>1, <3>6, <3>7 DEF LifeStep, Lifecycle!Step
  <2> QED
    BY <2>2, <2>3
<1>4. CASE UNCHANGED taskVars
  BY <1>4, UntouchedIs DEF taskVars
<1> QED
  BY <1>1, <1>2, <1>3, <1>4 DEF WorkerMoves, WorkerStep, Prepare, MarkRunning, Submit, Drain,
     Aggregate, SetGuard, MainError, Crash

\* The calls: one target is started, or gets its one result.
LEMMA CallLives ==
  ASSUME IInv, LifecycleInv, NEW t \in Tasks, NEW h \in threads, ThreadStep(h)
  PROVE  LifeStep(t)
<1> USE DEF IInv, RowsTyped
<1>0. /\ h.target \in Targets
      /\ \A x \in TargetsOf(t) : x \in Targets /\ TaskOf[x] = t
  BY DEF TargetsOf, DirectoryTyped, CallRecords
<1>1. CASE Begin(h) \/ \E mirrored \in BOOLEAN : Publish(h, mirrored)
  <2> DEFINE x == h.target
  <2>1. /\ status' = status /\ attempt_count' = attempt_count
        /\ status[TaskOf[x]] = "running"
        /\ \A y \in Targets \ {x} : target_status'[y] = target_status[y]
        /\ \/ target_status[x] = "queued" /\ target_status'[x] = "running"
           \/ target_status[x] = "running" /\ target_status'[x] \in Closed
    BY <1>0, <1>1 DEF Begin, Publish, CanBegin, CanPublish, Fence, has_live_lease, Closed
  <2> HIDE DEF x
  <2>2. CASE TaskOf[x] # t
    BY <1>0, <2>1, <2>2, UntouchedIs
  <2>3. CASE TaskOf[x] = t
    <3>1. x \in TargetsOf(t)
      BY <1>0, <2>3 DEF TargetsOf, x
    <3>2. Lifecycle!Work(t)
      BY <1>0, <2>1, <2>3, <3>1, SameNames DEF Lifecycle!Work, Lifecycle!Becomes, Closed
    <3>3. \A y \in TargetsOf(t) : target_status'[y] = "partial" => target_status[y] = "partial"
      BY <1>0, <2>1 DEF Closed
    <3> QED
      BY <2>1, <3>2, <3>3 DEF LifeStep, Lifecycle!Step
  <2> QED
    BY <2>2, <2>3
<1>2. CASE \/ \E changed, success \in BOOLEAN : WriteDirectory(h, changed, success)
           \/ \E success \in BOOLEAN : ReadDirectory(h, success)
           \/ EndThread(h)
  <2>1. UNCHANGED taskVars
    BY <1>2 DEF WriteDirectory, ReadDirectory, EndThread
  <2> QED
    BY <2>1, UntouchedIs DEF taskVars
<1> QED
  BY <1>1, <1>2 DEF ThreadStep

\* A Worker learns a password by preparing a password task, and forgets it with the task.
LEMMA ContextKeeps ==
  ASSUME IInv, ContextFits, [Next]_vars
  PROVE  ContextFits'
<1> USE DEF IInv, MemoryTyped
<1>0. PASSWORD_ACTIONS' = PASSWORD_ACTIONS
  BY InventoryFixed DEF PASSWORD_ACTIONS
<1>1. ASSUME NEW w \in Workers, WorkerMoves(w) PROVE ContextFits'
  <2> SUFFICES ASSUME NEW v \in Workers, context'[v] # NoContext, context'[v].password
               PROVE  claimed'[v] \in PASSWORD_ACTIONS
    BY <1>0 DEF ContextFits
  <2>1. CASE context'[v] = context[v] /\ claimed'[v] = claimed[v]
    BY <2>1 DEF ContextFits
  <2>2. CASE v # w
    BY <1>1, <2>1, <2>2, OthersMemory
  <2>3. CASE v = w
    <3>1. CASE \E t \in Tasks : Claim(w, t)
      BY <2>3, <3>1 DEF Claim, MemoryFits
    <3>2. CASE Prepare(w)
      <4>1. claimed' = claimed
        BY <3>2 DEF Prepare
      <4>2. \/ context'[w] = context[w]
            \/ context'[w] = [password |-> claimed[w] \in PASSWORD_ACTIONS]
        BY <3>2 DEF Prepare
      <4>3. CASE context'[w] = context[w]
        BY <2>1, <2>3, <4>1, <4>3
      <4>4. CASE context'[w] = [password |-> claimed[w] \in PASSWORD_ACTIONS]
        <5>1. context'[w].password = (claimed[w] \in PASSWORD_ACTIONS)
          BY ONLY <4>4
        <5> QED
          BY <2>3, <4>1, <5>1
      <4> QED
        BY <4>2, <4>3, <4>4
    <3>3. CASE UNCHANGED <<context, claimed>>
      BY <2>1, <3>3
    <3>4. CASE Idle(w) \/ Forget(w)
      <4>1. context'[w] = NoContext
        BY <3>4 DEF Idle, Forget
      <4> QED
        BY <2>3, <4>1
    <3>5. \/ UNCHANGED <<context, claimed>> \/ Idle(w) \/ Forget(w) \/ Prepare(w)
          \/ \E t \in Tasks : Claim(w, t)
      <4>1. CASE WorkerStep(w)
        BY <4>1 DEF WorkerStep, MarkRunning, Submit, Drain, FinishTask, Aggregate, Leave
      <4>2. CASE SetGuard(w) \/ MainError(w) \/ Crash(w)
        BY <4>2 DEF SetGuard, MainError, Crash
      <4> QED
        BY <1>1, <4>1, <4>2 DEF WorkerMoves
    <3> QED
      BY <3>1, <3>2, <3>3, <3>4, <3>5
  <2> QED
    BY <2>2, <2>3
<1>2. CASE ~ \E w \in Workers : WorkerMoves(w)
  <2>1. UNCHANGED <<context, claimed>>
    BY <1>2 DEF Next, WorkerMoves, EnqueueOperation, EnqueueSync, CreateRows, ExpireSecret,
       Cancel, Recover, ExpireLease, ThreadStep, Begin, WriteDirectory, ReadDirectory, Publish,
       EndThread, workerVars, vars
  <2> QED
    BY <1>0, <2>1 DEF ContextFits
<1> QED
  BY <1>1, <1>2

LEMMA EveryTaskLives ==
  ASSUME IInv, LifecycleInv, [Next]_vars, NEW t \in Tasks
  PROVE  LifeStep(t)
<1>1. CASE UNCHANGED vars
  <2>1. UNCHANGED <<status, attempt_count, target_status>>
    BY <1>1 DEF vars, taskVars
  <2> QED
    BY <2>1, UntouchedIs
<1> QED
  BY <1>1, RequestLives, WorkerLives, CallLives DEF Next, WorkerMoves, Tasks

LEMMA LifecycleKeeps ==
  ASSUME IInv, LifecycleInv, [Next]_vars, IInv'
  PROVE  LifecycleInv'
<1>1. ASSUME NEW t \in Tasks PROVE TaskFits(t)'
  <2>1. attempt_count'[t] \in Nat
    BY DEF IInv, RowsTyped
  <2> QED
    BY <2>1, EveryTaskLives, InventoryFixed, LifeKeeps DEF LifecycleInv
<1>2. ContextFits'
  BY ContextKeeps DEF LifecycleInv
<1> QED
  BY <1>1, <1>2 DEF LifecycleInv, Tasks

\* The reduced queue of the directory tasks implements the life cycle that TaskQueue
\* implements, for every number of tasks, targets and Workers: the two enqueues of
\* net/domain/tasks.py, the executor's fences, abort_password_domain_task and the
\* publications move task and target rows as the queue promises.
THEOREM DomainTasksKeepTheLifecycle == Spec => ImplementsTaskLifecycle
<1>1. Init => LifecycleInv
  BY DomainAssumption DEF DomainAssumption, Init, LifecycleInv, TaskFits, ContextFits, Open
<1>2. Init => Lifecycle!Init
  <2> SUFFICES ASSUME Init PROVE Lifecycle!Init
    OBVIOUS
  <2>1. /\ TaskOf \in [Targets -> Tasks] /\ PASSWORD_ACTIONS \subseteq Tasks
    BY InventoryTyped DEF Init, Tasks
  <2> QED
    BY <2>1 DEF Init, Lifecycle!Init
<1>3. Spec => [](IInv /\ LifecycleInv)
  BY InitHolds, <1>1, NextKeeps, LifecycleKeeps, PTL DEF Spec
<1>4. IInv /\ LifecycleInv /\ [Next]_vars => [Lifecycle!Next]_(Lifecycle!lifecycleVars)
  <2> SUFFICES ASSUME IInv, LifecycleInv, [Next]_vars PROVE Lifecycle!Next
    OBVIOUS
  <2>1. UNCHANGED <<TaskOf, PASSWORD_ACTIONS>>
    BY InventoryFixed DEF TaskOf, PASSWORD_ACTIONS
  <2>2. \A t \in Tasks : Lifecycle!Step(t)
    BY EveryTaskLives DEF LifeStep
  <2> QED
    BY <2>1, <2>2 DEF Lifecycle!Next
<1> QED
  BY <1>2, <1>3, <1>4, PTL DEF Spec, ImplementsTaskLifecycle, Lifecycle!Spec
=============================================================================
