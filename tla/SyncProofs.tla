------------------------------ MODULE SyncProofs ------------------------------
(***************************************************************************)
(* Every application makes of the people the synchronisation with one       *)
(* directory, and every success was applied by the attempt that published   *)
(* it, for every set of people, directories, tasks and attempts.            *)
(*                                                                         *)
(* No access event between the first window and the cursor is lost, for     *)
(* every length of a second, of a window and of the look back, for every    *)
(* number of doors, events, attempts and synchronisations.                  *)
(*                                                                         *)
(* A call of the LDAP client changes what it was asked to change, for every *)
(* number of calls, flags and groups.                                      *)
(***************************************************************************)
EXTENDS PeopleSync, AccessSync, DomainClient, TLAPS

-----------------------------------------------------------------------------
(* The people directory.                                                   *)

Rows      == [Employees -> Person \cup {Null}]
SourceRow == [is_enabled : BOOLEAN, identity : Nat, updated_at : Nat,
              last_synced_at : Nat, tested : BOOLEAN]
Configs   == BOOLEAN \X Nat \X Nat \X Nat

\* What a thread signs: the differences of people and a directory without conflicts.
Signed(p) == \E rows \in Rows, snapshot \in Snapshots, config \in Configs :
               conflicts(rows, snapshot) = {} /\ p = preview_of(rows, snapshot, config)

Previews ==
  {p \in [creates : SUBSET Employees, updates : SUBSET Employees,
          deactivations : SUBSET Employees, snapshot : Snapshots,
          source_config : Configs, local_state : Rows] : Signed(p)}

Kinds    == {"test", "preview", "sync"}
Statuses == {"queued", "running", "success", "failed", "cancelled"}

PeopleTaskRow ==
  [kind : Kinds \cup {Null}, status : Statuses \cup {Null}, attempt : Nat,
   identity : Nat, preview : Previews \cup {Null}, applied : SUBSET Nat]

ThreadState ==
  [stage : {"idle", "begun", "fetching", "failing", "tested", "applied"}]
    \cup [stage : {"fetched"}, snapshot : Snapshots]
    \cup [stage : {"source_read"}, snapshot : Snapshots, config : Configs]
    \cup [stage : {"previewed"}, preview : Previews]

RowsTyped ==
  /\ people \in Rows /\ people_source \in SourceRow /\ remote \in Snapshots
  /\ people_plan \in [PeopleTasks -> 0 .. MaxPeopleAttempts]
  /\ people_task \in [PeopleTasks -> PeopleTaskRow]
  /\ people_thread \in [PeopleTasks -> [1 .. MaxPeopleAttempts -> ThreadState]]
  /\ people_edits \in 0 .. MaxPeopleEdits

\* A queued task has an attempt left, and only tasks have kinds.
PeopleTasksFit ==
  \A t \in PeopleTasks :
    /\ people_task[t].attempt <= people_plan[t]
    /\ people_task[t].status = "queued" => people_task[t].attempt < people_plan[t]
    /\ people_task[t].status = Null <=> people_task[t].kind = Null

\* What a thread has reached agrees with the kind of its task.
ThreadFits(t, a) ==
  LET stage == people_thread[t][a].stage
  IN /\ people_task[t].status = Null => stage = "idle"
     /\ stage = "tested" => people_task[t].kind = "test"
     /\ stage = "applied" => people_task[t].kind = "sync" /\ a \in people_task[t].applied

ThreadsFit == \A t \in PeopleTasks, a \in 1 .. MaxPeopleAttempts : ThreadFits(t, a)

\* A preview that succeeded has its differences, and no other task has any.
ResultsFit ==
  \A t \in PeopleTasks :
    /\ people_task[t].kind = "preview" /\ people_task[t].status = "success"
         => people_task[t].preview \in Previews
    /\ people_task[t].preview # Null => people_task[t].kind = "preview"

PeopleInv == RowsTyped /\ PeopleTasksFit /\ ThreadsFit /\ ResultsFit /\ SuccessIsApplied

-----------------------------------------------------------------------------
(* Previews.                                                               *)

LEMMA SignedFacts ==
  ASSUME NEW p \in Previews
  PROVE  /\ p.snapshot \in Snapshots /\ p.local_state \in Rows
         /\ p.creates = creates(p.local_state, p.snapshot)
         /\ p.updates = updates(p.local_state, p.snapshot)
         /\ p.deactivations = deactivations(p.local_state, p.snapshot)
         /\ conflicts(p.local_state, p.snapshot) = {}
<1>1. PICK rows \in Rows, snapshot \in Snapshots, config \in Configs :
        conflicts(rows, snapshot) = {} /\ p = preview_of(rows, snapshot, config)
  BY DEF Previews, Signed
<1>2. /\ p.snapshot = snapshot /\ p.local_state = rows
      /\ p.creates = creates(rows, snapshot) /\ p.updates = updates(rows, snapshot)
      /\ p.deactivations = deactivations(rows, snapshot)
  BY <1>1 DEF preview_of
<1> QED
  BY <1>1, <1>2

LEMMA PreviewIsSigned ==
  ASSUME NEW rows \in Rows, NEW snapshot \in Snapshots, NEW config \in Configs,
         conflicts(rows, snapshot) = {}
  PROVE  preview_of(rows, snapshot, config) \in Previews
<1> DEFINE p == preview_of(rows, snapshot, config)
<1>1. Signed(p)
  BY DEF Signed
<1>2. /\ creates(rows, snapshot) \in SUBSET Employees
      /\ updates(rows, snapshot) \in SUBSET Employees
      /\ deactivations(rows, snapshot) \in SUBSET Employees
  BY DEF creates, updates, deactivations
<1>3. p \in [creates : SUBSET Employees, updates : SUBSET Employees,
             deactivations : SUBSET Employees, snapshot : Snapshots,
             source_config : Configs, local_state : Rows]
  BY <1>2 DEF preview_of
<1> QED
  BY <1>1, <1>3 DEF Previews

\* The rows an application writes are those of a synchronisation with the directory.
LEMMA AppliedIsSynchronised ==
  ASSUME PeopleAssumption, RowsTyped, NEW p \in Previews, is_current(p), NEW now \in Nat,
         NEW e \in Employees
  PROVE  applied_rows(p, now)[e] = synchronised(people[e], p.snapshot[e], now)
<1> DEFINE row == people[e]
           rec == p.snapshot[e]
<1>1. /\ p.snapshot \in Snapshots /\ people \in Rows
      /\ p.creates = creates(people, p.snapshot)
      /\ p.updates = updates(people, p.snapshot)
      /\ p.deactivations = deactivations(people, p.snapshot)
      /\ conflicts(people, p.snapshot) = {}
  BY SignedFacts DEF is_current, RowsTyped
<1>2. rec \in Contents \cup {"absent", "skipped"} /\ {"absent", "skipped"} \cap Contents = {}
  BY <1>1 DEF PeopleAssumption
<1>3. row \in Person \cup {Null}
  BY <1>1 DEF Rows
<1>4. in_directory(p.snapshot, e) <=> rec \in Contents
  BY <1>2 DEF in_directory
<1>5. /\ e \in p.creates <=> rec \in Contents /\ row = Null
      /\ e \in p.updates <=> /\ rec \in Contents /\ row # Null
                             /\ row.owner \in {"own", "claimable"}
                             /\ ~ (row.content = rec /\ row.active)
      /\ e \in p.deactivations <=> /\ row # Null /\ row.owner = "own" /\ row.active
                                   /\ rec = "absent"
      /\ ~ (rec \in Contents /\ row # Null /\ row.owner = "other")
  BY <1>1, <1>4 DEF creates, updates, deactivations, conflicts, matches_record
<1>6. CASE row = Null
  BY <1>5, <1>6 DEF applied_rows, synchronised
<1>7. CASE row # Null /\ row.owner = "other"
  BY <1>5, <1>7 DEF applied_rows, synchronised
<1>8. CASE row # Null /\ row.owner # "other" /\ rec \in Contents
  <2>1. row \in Person /\ row.owner \in {"own", "claimable"}
    BY <1>3, <1>8 DEF Person
  <2>2. CASE row.content = rec /\ row.active
    BY <1>2, <1>5, <1>8, <2>2 DEF applied_rows, synchronised
  <2>3. CASE ~ (row.content = rec /\ row.active)
    BY <1>5, <1>8, <2>1, <2>3 DEF applied_rows, synchronised
  <2> QED
    BY <2>2, <2>3
<1>9. CASE row # Null /\ row.owner # "other" /\ rec \notin Contents
  BY <1>5, <1>9 DEF applied_rows, synchronised
<1> QED
  BY <1>6, <1>7, <1>8, <1>9

-----------------------------------------------------------------------------
(* Threads.                                                                *)

LEMMA ThreadFacts ==
  ASSUME NEW th \in ThreadState
  PROVE  /\ th.stage \in {"fetched", "source_read"} => th.snapshot \in Snapshots
         /\ th.stage = "source_read" => th.config \in Configs
         /\ th.stage = "previewed" => th.preview \in Previews
  BY DEF ThreadState

\* One thread moves and the tasks stay.
LEMMA ThreadAdvances ==
  ASSUME PeopleAssumption, PeopleInv, NEW t \in PeopleTasks, NEW a \in 1 .. MaxPeopleAttempts,
         people_thread[t][a].stage # "idle", NEW th \in ThreadState, GoesTo(t, a, th),
         th.stage = "tested" => people_task[t].kind = "test", th.stage # "applied",
         people' \in Rows, people_source' \in SourceRow, people_task' = people_task
  PROVE  PeopleInv'
<1>1. RowsTyped'
  BY DEF PeopleInv, RowsTyped, GoesTo
<1>2. PeopleTasksFit' /\ ResultsFit' /\ SuccessIsApplied'
  BY DEF PeopleInv, PeopleTasksFit, ResultsFit, SuccessIsApplied, GoesTo
<1>3. ThreadsFit'
  <2> SUFFICES ASSUME NEW u \in PeopleTasks, NEW b \in 1 .. MaxPeopleAttempts
               PROVE  ThreadFits(u, b)'
    BY DEF ThreadsFit
  <2>1. ThreadFits(u, b) /\ ThreadFits(t, a)
    BY DEF PeopleInv, ThreadsFit
  <2>2. CASE u = t /\ b = a
    <3>1. people_thread'[u][b] = th
      BY <2>2 DEF PeopleInv, RowsTyped, GoesTo
    <3> QED
      BY <2>1, <2>2, <3>1 DEF ThreadFits
  <2>3. CASE ~ (u = t /\ b = a)
    <3>1. people_thread'[u][b] = people_thread[u][b]
      BY <2>3 DEF PeopleInv, RowsTyped, GoesTo
    <3> QED
      BY <2>1, <3>1 DEF ThreadFits
  <2> QED
    BY <2>2, <2>3
<1> QED
  BY <1>1, <1>2, <1>3 DEF PeopleInv

LEMMA ConfigIsTyped ==
  ASSUME RowsTyped PROVE source_config(people_source) \in Configs
  BY DEF RowsTyped, SourceRow, source_config, Configs

\* Application leaves typed rows.
LEMMA AppliedIsTyped ==
  ASSUME PeopleAssumption, RowsTyped, NEW t, NEW p \in Previews, is_current(p),
         apply_people_sync(t, p)
  PROVE  people' \in Rows /\ people_source' \in SourceRow
<1> DEFINE now == people_source.last_synced_at + 1
<1>1. now \in Nat
  BY DEF RowsTyped, SourceRow
<1>2. people' = applied_rows(p, now)
  BY DEF apply_people_sync
<1>3. ASSUME NEW e \in Employees PROVE people'[e] \in Person \cup {Null}
  <2>1. people'[e] = synchronised(people[e], p.snapshot[e], now)
    BY <1>1, <1>2, AppliedIsSynchronised
  <2>2. people[e] \in Person \cup {Null}
    BY DEF RowsTyped, Rows
  <2>3. ASSUME NEW row \in Person PROVE deactivated(row, now) \in Person
    BY <1>1 DEF Person, deactivated
  <2>4. ASSUME NEW content \in Contents, NEW departed \in BOOLEAN
        PROVE  written(content, departed, now) \in Person
    BY <1>1 DEF Person, written
  <2>5. \A row \in Person : row.departed \in BOOLEAN
    BY DEF Person
  <2>6. CASE people[e] = Null
    BY <2>1, <2>4, <2>6 DEF synchronised
  <2>7. CASE people[e] \in Person
    <3>1. \/ people'[e] \in {people[e], deactivated(people[e], now), Null}
          \/ /\ p.snapshot[e] \in Contents
             /\ people'[e] \in {written(p.snapshot[e], FALSE, now),
                              written(p.snapshot[e], people[e].departed, now)}
      BY ONLY <2>1 DEF synchronised
    <3>2. deactivated(people[e], now) \in Person /\ people[e].departed \in BOOLEAN
      BY <2>3, <2>5, <2>7
    <3> QED
      BY <2>4, <2>7, <3>1, <3>2
  <2> QED
    BY <2>2, <2>6, <2>7
<1>4. people' \in Rows
  BY <1>2, <1>3 DEF applied_rows, Rows
<1>5. people_source' \in SourceRow
  BY <1>1 DEF apply_people_sync, RowsTyped, SourceRow
<1> QED
  BY <1>4, <1>5

LEMMA PeopleFetchKeeps ==
  ASSUME PeopleAssumption, PeopleInv, NEW t \in PeopleTasks, NEW a \in 1 .. MaxPeopleAttempts,
         \/ StartFetch(t, a) \/ Fetch(t, a) \/ ReadSource(t, a) \/ ComputePreview(t, a)
         \/ PublicationRaises(t, a)
  PROVE  PeopleInv'
<1>1. people_thread[t][a] \in ThreadState /\ people_thread[t][a].stage # "idle"
  BY DEF PeopleInv, RowsTyped, StartFetch, Fetch, ReadSource, ComputePreview,
         PublicationRaises
<1>2. people' \in Rows /\ people_source' \in SourceRow /\ people_task' = people_task
  BY DEF PeopleInv, RowsTyped, StartFetch, Fetch, ReadSource, ComputePreview,
         PublicationRaises
<1>3. ASSUME NEW stage \in {"begun", "fetching", "failing", "tested"}
      PROVE  [stage |-> stage] \in ThreadState
  BY DEF ThreadState
<1>4. CASE StartFetch(t, a)
  <2>1. PICK stage \in {"fetching", "failing"} : GoesTo(t, a, [stage |-> stage])
    BY <1>4 DEF StartFetch
  <2> QED
    BY <1>1, <1>2, <1>3, <2>1, ThreadAdvances
<1>5. CASE Fetch(t, a)
  <2>1. CASE GoesTo(t, a, [stage |-> "failing"])
    BY <1>1, <1>2, <1>3, <2>1, ThreadAdvances
  <2>2. CASE people_task[t].kind = "test" /\ GoesTo(t, a, [stage |-> "tested"])
    BY <1>1, <1>2, <1>3, <2>2, ThreadAdvances
  <2>3. CASE GoesTo(t, a, [stage |-> "fetched", snapshot |-> remote])
    <3>1. [stage |-> "fetched", snapshot |-> remote] \in ThreadState
      BY DEF ThreadState, PeopleInv, RowsTyped
    <3> QED
      BY <1>1, <1>2, <2>3, <3>1, ThreadAdvances
  <2> QED
    BY <1>5, <2>1, <2>2, <2>3 DEF Fetch
<1>6. CASE ReadSource(t, a)
  <2>1. CASE GoesTo(t, a, [stage |-> "failing"])
    BY <1>1, <1>2, <1>3, <2>1, ThreadAdvances
  <2> DEFINE th == [stage |-> "source_read", snapshot |-> people_thread[t][a].snapshot,
                    config |-> source_config(people_source)]
  <2>2. CASE GoesTo(t, a, th)
    <3>1. th \in ThreadState
      BY <1>1, <1>6, ThreadFacts, ConfigIsTyped DEF ReadSource, ThreadState, PeopleInv
    <3> QED
      BY <1>1, <1>2, <2>2, <3>1, ThreadAdvances
  <2> QED
    BY <1>6, <2>1, <2>2 DEF ReadSource
<1>7. CASE ComputePreview(t, a)
  <2>1. CASE GoesTo(t, a, [stage |-> "failing"])
    BY <1>1, <1>2, <1>3, <2>1, ThreadAdvances
  <2> DEFINE snapshot == people_thread[t][a].snapshot
             config   == people_thread[t][a].config
             th       == [stage |-> "previewed", preview |-> preview_of(people, snapshot, config)]
  <2>2. CASE conflicts(people, snapshot) = {} /\ GoesTo(t, a, th)
    <3>1. snapshot \in Snapshots /\ config \in Configs /\ people \in Rows
      BY <1>1, <1>7, ThreadFacts DEF ComputePreview, PeopleInv, RowsTyped
    <3>2. preview_of(people, snapshot, config) \in Previews
      BY <2>2, <3>1, PreviewIsSigned
    <3>3. th \in ThreadState
      BY <3>2 DEF ThreadState
    <3> QED
      BY <1>1, <1>2, <2>2, <3>3, ThreadAdvances
  <2> QED
    BY <1>7, <2>1, <2>2 DEF ComputePreview
<1>8. CASE PublicationRaises(t, a)
  <2>1. GoesTo(t, a, [stage |-> "failing"])
    BY <1>8 DEF PublicationRaises
  <2> QED
    BY <1>1, <1>2, <1>3, <2>1, ThreadAdvances
<1> QED
  BY <1>4, <1>5, <1>6, <1>7, <1>8

-----------------------------------------------------------------------------
(* Tasks.                                                                  *)

\* What a claim and an application do to a row.
LEMMA RowChanges ==
  ASSUME NEW old \in PeopleTaskRow, NEW a \in Nat
  PROVE  /\ claimed_row(old, a) \in PeopleTaskRow /\ claimed_row(old, a).status = "running"
         /\ claimed_row(old, a).attempt = a /\ claimed_row(old, a).kind = old.kind
         /\ claimed_row(old, a).preview = old.preview
         /\ claimed_row(old, a).applied = old.applied
         /\ applied_row(old, a) \in PeopleTaskRow /\ applied_row(old, a).status = old.status
         /\ applied_row(old, a).attempt = old.attempt /\ applied_row(old, a).kind = old.kind
         /\ applied_row(old, a).preview = old.preview
         /\ applied_row(old, a).applied = old.applied \cup {a}
  BY DEF PeopleTaskRow, Statuses, claimed_row, applied_row

\* What a publication does to a row.
LEMMA PublishedRow ==
  ASSUME NEW old \in PeopleTaskRow, NEW status \in Statuses, NEW preview \in Previews \cup {Null}
  PROVE  LET row == published_row(old, status, preview)
         IN /\ row \in PeopleTaskRow /\ row.status = status /\ row.preview = preview
            /\ row.attempt = old.attempt /\ row.kind = old.kind /\ row.applied = old.applied
  BY DEF PeopleTaskRow, published_row

\* One row changes.
LEMMA OneRow ==
  ASSUME RowsTyped, NEW t \in PeopleTasks, NEW row \in PeopleTaskRow,
         people_task' = [people_task EXCEPT ![t] = row]
  PROVE  /\ people_task'[t] = row /\ people_task' \in [PeopleTasks -> PeopleTaskRow]
         /\ \A u \in PeopleTasks : u # t => people_task'[u] = people_task[u]
  BY DEF RowsTyped

\* A task changes and its threads stay, or the thread of its next attempt begins.
LEMMA TaskMoves ==
  ASSUME PeopleAssumption, PeopleInv, NEW t \in PeopleTasks, NEW row \in PeopleTaskRow,
         people_task' = [people_task EXCEPT ![t] = row],
         UNCHANGED <<people, people_source, remote, people_plan, people_thread, people_edits>>,
         row.attempt <= people_plan[t], row.status = "queued" => row.attempt < people_plan[t],
         row.status # Null, row.kind # Null,
         \/ people_task[t].status = Null
         \/ row.kind = people_task[t].kind /\ row.applied = people_task[t].applied,
         row.kind = "preview" /\ row.status = "success" => row.preview \in Previews,
         row.preview # Null => row.kind = "preview",
         row.kind = "sync" /\ row.status = "success" => row.attempt \in row.applied
  PROVE  PeopleInv'
<1>1. /\ people_task'[t] = row
      /\ \A u \in PeopleTasks : u # t => people_task'[u] = people_task[u]
  BY DEF PeopleInv, RowsTyped
<1>2. RowsTyped'
  BY DEF PeopleInv, RowsTyped
<1>3. PeopleTasksFit'
  BY <1>1 DEF PeopleInv, PeopleTasksFit
<1>4. ThreadsFit'
  <2> SUFFICES ASSUME NEW u \in PeopleTasks, NEW b \in 1 .. MaxPeopleAttempts
               PROVE  ThreadFits(u, b)'
    BY DEF ThreadsFit
  <2>1. ThreadFits(u, b)
    BY DEF PeopleInv, ThreadsFit
  <2>2. CASE u = t
    BY <1>1, <2>1, <2>2 DEF ThreadFits
  <2>3. CASE u # t
    BY <1>1, <2>1, <2>3 DEF ThreadFits
  <2> QED
    BY <2>2, <2>3
<1>5. ResultsFit' /\ SuccessIsApplied'
  BY <1>1 DEF PeopleInv, ResultsFit, SuccessIsApplied
<1> QED
  BY <1>2, <1>3, <1>4, <1>5 DEF PeopleInv

LEMMA TaskFacts ==
  ASSUME PeopleInv, NEW t \in PeopleTasks
  PROVE  /\ people_task[t] \in PeopleTaskRow /\ people_plan[t] \in 0 .. MaxPeopleAttempts
         /\ people_source.identity \in Nat
         /\ people_task[t].attempt <= people_plan[t]
         /\ people_task[t].status = "queued" => people_task[t].attempt < people_plan[t]
         /\ people_task[t].status = Null <=> people_task[t].kind = Null
         /\ people_task[t].preview # Null => people_task[t].kind = "preview"
  BY DEF PeopleInv, RowsTyped, SourceRow, PeopleTasksFit, ResultsFit

LEMMA PeopleQueueKeeps ==
  ASSUME PeopleAssumption, PeopleInv, NEW t \in PeopleTasks,
         \/ \E kind \in Kinds : EnqueuePeople(t, kind)
         \/ RecoverPeople(t) \/ CancelPeople(t)
  PROVE  PeopleInv'
<1> DEFINE old == people_task[t]
<1>1. /\ old \in PeopleTaskRow /\ people_plan[t] \in 0 .. MaxPeopleAttempts
      /\ people_source.identity \in Nat
      /\ old.attempt <= people_plan[t] /\ (old.status = Null <=> old.kind = Null)
      /\ old.preview # Null => old.kind = "preview"
  BY TaskFacts
<1>2. CASE \E kind \in Kinds : EnqueuePeople(t, kind)
  <2>1. PICK kind \in Kinds : EnqueuePeople(t, kind)
    BY <1>2
  <2> DEFINE row == [kind |-> kind, status |-> "queued", attempt |-> 0,
                     identity |-> people_source.identity, preview |-> Null, applied |-> {}]
  <2>2. people_task' = [people_task EXCEPT ![t] = row]
    BY <2>1 DEF EnqueuePeople
  <2>3. /\ row \in PeopleTaskRow /\ row.kind # Null /\ row.status = "queued" /\ row.status # Null
        /\ row.attempt = 0 /\ row.preview = Null
    BY <1>1 DEF PeopleTaskRow, Statuses, Kinds, PeopleAssumption
  <2>4. old.status = Null /\ people_plan[t] > 0
        /\ UNCHANGED <<people, people_source, remote, people_plan, people_thread, people_edits>>
    BY <2>1 DEF EnqueuePeople
  <2> HIDE DEF row
  <2>5. ~ (row.kind = "preview" /\ row.status = "success") /\ row.status # "success"
    BY <2>3
  <2>6. row.attempt <= people_plan[t] /\ row.attempt < people_plan[t]
    BY <1>1, <2>3, <2>4 DEF PeopleAssumption
  <2> QED
    BY <2>2, <2>3, <2>4, <2>5, <2>6, TaskMoves
<1>3. CASE RecoverPeople(t) \/ CancelPeople(t)
  <2>1. PICK status \in {"queued", "failed", "cancelled"} :
          /\ people_task' = [people_task EXCEPT ![t].status = status]
          /\ status = "queued" => old.attempt < people_plan[t]
    BY <1>3 DEF RecoverPeople, CancelPeople, recovered_status
  <2> DEFINE row == [old EXCEPT !.status = status]
  <2>2. people_task' = [people_task EXCEPT ![t] = row]
    BY <2>1 DEF PeopleInv, RowsTyped
  <2>3. /\ row \in PeopleTaskRow /\ row.status = status
        /\ row.kind = old.kind /\ row.applied = old.applied
        /\ row.attempt = old.attempt /\ row.preview = old.preview
    BY <1>1 DEF PeopleTaskRow, Statuses
  <2>4. /\ old.status \in {"queued", "running"}
        /\ UNCHANGED <<people, people_source, remote, people_plan, people_thread, people_edits>>
    BY <1>3 DEF RecoverPeople, CancelPeople
  <2>5. status # Null /\ row.kind # Null
    BY <1>1, <2>3, <2>4 DEF PeopleAssumption
  <2> QED
    <3> HIDE DEF row
    <3>1. row.attempt <= people_plan[t] /\ (row.status = "queued" => row.attempt < people_plan[t])
      BY <1>1, <2>1, <2>3
    <3>2. /\ row.status # "success" /\ (row.preview # Null => row.kind = "preview")
      BY <1>1, <2>1, <2>3
    <3> QED
      BY <2>2, <2>3, <2>4, <2>5, <3>1, <3>2, TaskMoves
<1> QED
  BY <1>2, <1>3

\* A claim begins the thread of the next attempt.
LEMMA BeginKeeps ==
  ASSUME PeopleAssumption, PeopleInv, NEW t \in PeopleTasks, BeginPeople(t)
  PROVE  PeopleInv'
<1> DEFINE old == people_task[t]
           a   == old.attempt + 1
<1>1. /\ old \in PeopleTaskRow /\ people_plan[t] \in 0 .. MaxPeopleAttempts
      /\ old.attempt < people_plan[t] /\ old.status = "queued" /\ old.kind # Null
      /\ old.preview # Null => old.kind = "preview"
  BY TaskFacts DEF BeginPeople, PeopleAssumption
<1>2. a \in 1 .. MaxPeopleAttempts /\ a <= people_plan[t]
  BY <1>1 DEF PeopleTaskRow, PeopleAssumption
<1>3. /\ people_task'[t].status = "running" /\ people_task'[t].attempt = a
      /\ people_task'[t].kind = old.kind /\ people_task'[t].preview = old.preview
      /\ people_task'[t].applied = old.applied
      /\ \A u \in PeopleTasks : u # t => people_task'[u] = people_task[u]
      /\ people_task' \in [PeopleTasks -> PeopleTaskRow]
  <2>1. people_task' = [people_task EXCEPT ![t] = claimed_row(old, a)]
    BY DEF BeginPeople
  <2>2. a \in Nat
    BY <1>2
  <2> HIDE DEF old, a
  <2>3. /\ claimed_row(old, a) \in PeopleTaskRow /\ claimed_row(old, a).status = "running"
        /\ claimed_row(old, a).attempt = a /\ claimed_row(old, a).kind = old.kind
        /\ claimed_row(old, a).preview = old.preview
        /\ claimed_row(old, a).applied = old.applied
    BY ONLY <1>1, <2>2, RowChanges
  <2>4. /\ people_task'[t] = claimed_row(old, a) /\ people_task' \in [PeopleTasks -> PeopleTaskRow]
        /\ \A u \in PeopleTasks : u # t => people_task'[u] = people_task[u]
    BY <2>1, <2>3, OneRow DEF PeopleInv
  <2> QED
    BY <2>3, <2>4
<1>4. /\ people_thread'[t][a].stage = "begun"
      /\ \A u \in PeopleTasks, b \in 1 .. MaxPeopleAttempts :
           ~ (u = t /\ b = a) => people_thread'[u][b] = people_thread[u][b]
      /\ people_thread' \in [PeopleTasks -> [1 .. MaxPeopleAttempts -> ThreadState]]
  <2>1. [stage |-> "begun"] \in ThreadState
    BY DEF ThreadState
  <2> QED
    BY <1>2, <2>1 DEF BeginPeople, PeopleInv, RowsTyped
<1>5. RowsTyped'
  BY <1>3, <1>4 DEF BeginPeople, PeopleInv, RowsTyped
<1>6. PeopleTasksFit'
  BY <1>1, <1>2, <1>3 DEF BeginPeople, PeopleInv, PeopleTasksFit, PeopleAssumption
<1>7. ThreadsFit'
  <2> SUFFICES ASSUME NEW u \in PeopleTasks, NEW b \in 1 .. MaxPeopleAttempts
               PROVE  ThreadFits(u, b)'
    BY DEF ThreadsFit
  <2>1. ThreadFits(u, b)
    BY DEF PeopleInv, ThreadsFit
  <2>2. CASE u = t /\ b = a
    BY <1>3, <1>4, <2>2 DEF ThreadFits, PeopleAssumption
  <2>3. CASE u = t /\ b # a
    BY <1>3, <1>4, <2>1, <2>3 DEF ThreadFits, PeopleAssumption
  <2>4. CASE u # t
    BY <1>3, <1>4, <2>1, <2>4 DEF ThreadFits
  <2> QED
    BY <2>2, <2>3, <2>4
<1>8. ResultsFit' /\ SuccessIsApplied'
  BY <1>1, <1>3 DEF PeopleInv, ResultsFit, SuccessIsApplied
<1> QED
  BY <1>5, <1>6, <1>7, <1>8 DEF PeopleInv

\* An application by the thread of a synchronisation, which then has been applied.
LEMMA ApplyKeeps ==
  ASSUME PeopleAssumption, PeopleInv, NEW t \in PeopleTasks, NEW a \in 1 .. MaxPeopleAttempts,
         ApplySync(t, a)
  PROVE  PeopleInv'
<1> DEFINE p == people_thread[t][a].preview
<1>1. /\ people_thread[t][a] \in ThreadState /\ people_thread[t][a].stage = "previewed"
      /\ people_task[t].kind = "sync" /\ p \in Previews
  BY ThreadFacts DEF ApplySync, PeopleInv, RowsTyped
<1>2. CASE GoesTo(t, a, [stage |-> "failing"])
            /\ UNCHANGED <<people, people_source, people_task, last_apply>>
  <2>1. [stage |-> "failing"] \in ThreadState
    BY DEF ThreadState
  <2>2. people' \in Rows /\ people_source' \in SourceRow
    BY <1>2 DEF PeopleInv, RowsTyped
  <2> QED
    BY <1>1, <1>2, <2>1, <2>2, ThreadAdvances
<1>3. CASE /\ is_current(p) /\ apply_people_sync(t, p)
           /\ GoesTo(t, a, [stage |-> "applied"])
           /\ people_task' = [people_task EXCEPT ![t] = applied_row(@, a)]
  <2>1. people' \in Rows /\ people_source' \in SourceRow
    BY <1>1, <1>3, AppliedIsTyped DEF PeopleInv
  <2>2. people_task[t] \in PeopleTaskRow
    BY TaskFacts
  <2>3. /\ people_task'[t].status = people_task[t].status
        /\ people_task'[t].attempt = people_task[t].attempt
        /\ people_task'[t].kind = people_task[t].kind
        /\ people_task'[t].preview = people_task[t].preview
        /\ people_task'[t].applied = people_task[t].applied \cup {a}
        /\ \A u \in PeopleTasks : u # t => people_task'[u] = people_task[u]
        /\ people_task' \in [PeopleTasks -> PeopleTaskRow]
    <3> DEFINE row == applied_row(people_task[t], a)
    <3>0. a \in Nat
      BY DEF PeopleAssumption
    <3>1. /\ row \in PeopleTaskRow /\ row.status = people_task[t].status
          /\ row.attempt = people_task[t].attempt /\ row.kind = people_task[t].kind
          /\ row.preview = people_task[t].preview
          /\ row.applied = people_task[t].applied \cup {a}
      BY ONLY <2>2, <3>0, RowChanges
    <3>2. people_task' = [people_task EXCEPT ![t] = row]
      BY <1>3
    <3> HIDE DEF row
    <3>3. /\ people_task'[t] = row /\ people_task' \in [PeopleTasks -> PeopleTaskRow]
          /\ \A u \in PeopleTasks : u # t => people_task'[u] = people_task[u]
      BY <3>1, <3>2, OneRow DEF PeopleInv
    <3> QED
      BY <3>1, <3>3
  <2>4. /\ people_thread'[t][a].stage = "applied"
        /\ \A u \in PeopleTasks, b \in 1 .. MaxPeopleAttempts :
             ~ (u = t /\ b = a) => people_thread'[u][b] = people_thread[u][b]
        /\ people_thread' \in [PeopleTasks -> [1 .. MaxPeopleAttempts -> ThreadState]]
    <3>1. [stage |-> "applied"] \in ThreadState
      BY DEF ThreadState
    <3> QED
      BY <1>3, <3>1 DEF GoesTo, PeopleInv, RowsTyped
  <2>5. RowsTyped'
    BY <1>3, <2>1, <2>3, <2>4 DEF GoesTo, PeopleInv, RowsTyped
  <2>6. PeopleTasksFit' /\ ResultsFit' /\ SuccessIsApplied'
    BY <1>3, <2>3 DEF GoesTo, PeopleInv, PeopleTasksFit, ResultsFit, SuccessIsApplied
  <2>7. ThreadsFit'
    <3> SUFFICES ASSUME NEW u \in PeopleTasks, NEW b \in 1 .. MaxPeopleAttempts
                 PROVE  ThreadFits(u, b)'
      BY DEF ThreadsFit
    <3>1. ThreadFits(u, b) /\ ThreadFits(t, a)
      BY DEF PeopleInv, ThreadsFit
    <3>2. CASE u = t /\ b = a
      BY <1>1, <2>3, <2>4, <3>1, <3>2 DEF ThreadFits
    <3>3. CASE ~ (u = t /\ b = a)
      BY <2>3, <2>4, <3>1, <3>3 DEF ThreadFits
    <3> QED
      BY <3>2, <3>3
  <2> QED
    BY <2>5, <2>6, <2>7 DEF PeopleInv
<1> QED
  BY <1>2, <1>3 DEF ApplySync, refused_stage

\* A publication under the fence, or one that the fence refuses.
LEMMA PeoplePublishKeeps ==
  ASSUME PeopleAssumption, PeopleInv, NEW t \in PeopleTasks, NEW a \in 1 .. MaxPeopleAttempts,
         PublishPeople(t, a)
  PROVE  PeopleInv'
<1> DEFINE thread == people_thread[t][a]
           old    == people_task[t]
           status == IF thread.stage = "failing" \/ ~ source_matches_task(t) THEN "failed"
                     ELSE "success"
           result == IF status = "success" /\ old.kind = "preview" THEN thread.preview ELSE Null
           row    == published_row(old, status, result)
<1>1. /\ thread \in ThreadState /\ old \in PeopleTaskRow /\ people' = people
      /\ GoesTo(t, a, NoPeopleThread)
      /\ \/ thread.stage \in {"failing", "tested", "applied"}
         \/ thread.stage = "previewed" /\ old.kind = "preview"
  BY TaskFacts DEF PublishPeople, PeopleInv, RowsTyped
<1>2. NoPeopleThread \in ThreadState /\ NoPeopleThread.stage = "idle"
  BY DEF NoPeopleThread, ThreadState
<1>3. people_source' \in SourceRow /\ people' \in Rows
  <2>1. people_source \in SourceRow /\ people \in Rows
    BY DEF PeopleInv, RowsTyped
  <2>2. \/ people_source' = people_source
        \/ \E b : people_source' = [people_source EXCEPT !.tested = people_source.tested \/ b]
    BY DEF PublishPeople
  <2>3. ASSUME NEW b PROVE (people_source.tested \/ b) \in BOOLEAN
    OBVIOUS
  <2>4. ASSUME NEW b \in BOOLEAN PROVE [people_source EXCEPT !.tested = b] \in SourceRow
    BY ONLY <2>1, <2>4 DEF SourceRow
  <2> QED
    BY <1>1, <2>1, <2>2, <2>3, <2>4
<1>4. ThreadFits(t, a)
  BY DEF PeopleInv, ThreadsFit
<1>5. CASE people_task' = people_task
  BY <1>1, <1>2, <1>3, <1>5, ThreadAdvances
<1>6. CASE holds_claim(t, a) /\ people_task' = [people_task EXCEPT ![t] = row]
  <2>1. status \in Statuses /\ (status = "success" => thread.stage # "failing")
    BY DEF Statuses
  <2>2. status = "success" /\ old.kind = "preview" => thread.stage = "previewed"
    BY <1>1, <1>4, <2>1 DEF ThreadFits
  <2>3. status = "success" /\ old.kind = "preview" => result \in Previews
    BY <1>1, <2>2, ThreadFacts
  <2>4. result # Null => old.kind = "preview"
    OBVIOUS
  <2>5. result \in Previews \cup {Null}
    BY <2>3
  <2>6. status = "success" /\ old.kind = "sync" => a \in old.applied
    BY <1>1, <1>4, <2>1 DEF ThreadFits
  <2>7. old.status = "running" /\ old.attempt = a
    BY <1>6 DEF holds_claim
  <2> HIDE DEF status, result, old, thread
  <2>8. /\ row \in PeopleTaskRow /\ row.status = status /\ row.preview = result
        /\ row.attempt = old.attempt /\ row.kind = old.kind /\ row.applied = old.applied
    BY <1>1, <2>1, <2>5, PublishedRow
  <2> HIDE DEF row
  <2>9. /\ people_task'[t] = row /\ people_task' \in [PeopleTasks -> PeopleTaskRow]
        /\ \A u \in PeopleTasks : u # t => people_task'[u] = people_task[u]
    BY <1>6, <2>8, OneRow DEF PeopleInv
  <2>10. RowsTyped'
    BY <1>1, <1>2, <1>3, <2>9 DEF GoesTo, PeopleInv, RowsTyped
  <2>11. old.attempt <= people_plan[t] /\ old.kind # Null /\ status # Null /\ status # "queued"
    <3>1. people_task[t].attempt <= people_plan[t]
          /\ (people_task[t].status = Null <=> people_task[t].kind = Null)
      BY TaskFacts
    <3>2. status \in {"failed", "success"}
      BY DEF status
    <3> QED
      BY <2>7, <3>1, <3>2 DEF old, PeopleAssumption
  <2>12. PeopleTasksFit'
    BY <1>1, <2>8, <2>9, <2>11 DEF GoesTo, PeopleInv, PeopleTasksFit
  <2>13. ResultsFit'
    BY <2>3, <2>4, <2>8, <2>9 DEF PeopleInv, ResultsFit
  <2>14. SuccessIsApplied'
    BY <2>6, <2>7, <2>8, <2>9 DEF PeopleInv, SuccessIsApplied
  <2>15. ThreadsFit'
    <3> SUFFICES ASSUME NEW u \in PeopleTasks, NEW b \in 1 .. MaxPeopleAttempts
                 PROVE  ThreadFits(u, b)'
      BY DEF ThreadsFit
    <3>1. ThreadFits(u, b)
      BY DEF PeopleInv, ThreadsFit
    <3>2. CASE u = t /\ b = a
      <4>1. people_thread'[u][b].stage = "idle"
        BY <1>1, <1>2, <3>2 DEF GoesTo, PeopleInv, RowsTyped
      <4> QED
        BY <4>1 DEF ThreadFits
    <3>3. CASE u = t /\ b # a
      <4>1. people_thread'[u][b] = people_thread[u][b]
        BY <1>1, <3>3 DEF GoesTo, PeopleInv, RowsTyped
      <4> QED
        BY <2>8, <2>9, <2>11, <3>1, <3>3, <4>1 DEF ThreadFits, old
    <3>4. CASE u # t
      <4>1. people_thread'[u][b] = people_thread[u][b]
        BY <1>1, <3>4 DEF GoesTo, PeopleInv, RowsTyped
      <4> QED
        BY <2>9, <3>1, <3>4, <4>1 DEF ThreadFits
    <3> QED
      BY <3>2, <3>3, <3>4
  <2> QED
    BY <2>10, <2>12, <2>13, <2>14, <2>15 DEF PeopleInv
<1> QED
  BY <1>5, <1>6 DEF PublishPeople

\* A confirmation applies the differences of a preview.
LEMMA ConfirmKeeps ==
  ASSUME PeopleAssumption, PeopleInv, NEW t \in PeopleTasks, ConfirmPreview(t)
  PROVE  PeopleInv' /\ people_task[t].preview \in Previews
<1> DEFINE old == people_task[t]
           row == applied_row(old, old.attempt)
<1>1. old.preview \in Previews
  BY DEF ConfirmPreview, is_confirmable, PeopleInv, ResultsFit
<1>2. people' \in Rows /\ people_source' \in SourceRow
  BY <1>1, AppliedIsTyped DEF ConfirmPreview, PeopleInv
<1>3. /\ old \in PeopleTaskRow /\ old.attempt \in Nat
      /\ old.kind = "preview" /\ old.status = "success"
      /\ people_task' = [people_task EXCEPT ![t] = row]
      /\ UNCHANGED <<remote, people_plan, people_thread, people_edits>>
  BY TaskFacts DEF ConfirmPreview, is_confirmable, PeopleTaskRow
<1> HIDE DEF old
<1>4. /\ row \in PeopleTaskRow /\ row.status = old.status /\ row.attempt = old.attempt
      /\ row.kind = old.kind /\ row.preview = old.preview
      /\ row.applied = old.applied \cup {old.attempt}
  BY ONLY <1>3, RowChanges
<1> HIDE DEF row
<1>5. /\ people_task'[t] = row /\ people_task' \in [PeopleTasks -> PeopleTaskRow]
      /\ \A u \in PeopleTasks : u # t => people_task'[u] = people_task[u]
  BY <1>3, <1>4, OneRow DEF PeopleInv
<1>6. RowsTyped'
  BY <1>2, <1>3, <1>5 DEF PeopleInv, RowsTyped
<1>7. PeopleTasksFit' /\ ResultsFit' /\ SuccessIsApplied'
  BY <1>3, <1>4, <1>5 DEF PeopleInv, PeopleTasksFit, ResultsFit, SuccessIsApplied, old
<1>8. ThreadsFit'
  BY <1>3, <1>4, <1>5 DEF PeopleInv, ThreadsFit, ThreadFits, old
<1> QED
  BY <1>1, <1>6, <1>7, <1>8 DEF PeopleInv, old

\* What happens around the tasks.
LEMMA SourceEditKeeps ==
  ASSUME PeopleAssumption, PeopleInv,
         \/ \E on \in BOOLEAN, identity \in {0, 1} : EditSource(on, identity)
         \/ \E e \in Employees, content \in Contents : EditPerson(e, content)
         \/ \E rows \in SUBSET Employees, active \in BOOLEAN :
              \E file \in [rows -> Contents] : ImportPeople(file, active)
         \/ DirectoryChanges
  PROVE  PeopleInv'
<1>1. /\ people_source \in SourceRow /\ people \in Rows /\ remote \in Snapshots
      /\ people_edits \in 0 .. MaxPeopleEdits /\ MaxPeopleEdits \in Nat
  BY DEF PeopleInv, RowsTyped, PeopleAssumption
<1>2. PeopleEdit => people_edits' \in 0 .. MaxPeopleEdits
  BY <1>1 DEF PeopleEdit
<1>3. /\ people_source' \in SourceRow /\ people' \in Rows /\ remote' \in Snapshots
      /\ PeopleEdit /\ UNCHANGED <<people_plan, people_task, people_thread>>
  <2>1. ASSUME NEW on \in BOOLEAN, NEW identity \in {0, 1}, EditSource(on, identity)
        PROVE  people_source' \in SourceRow
    <3>1. people_source' = [people_source EXCEPT !.is_enabled = on, !.identity = identity,
                              !.updated_at = people_source.updated_at + 1, !.tested = FALSE]
      BY <2>1 DEF EditSource
    <3>2. people_source = [is_enabled |-> people_source.is_enabled,
                           identity |-> people_source.identity,
                           updated_at |-> people_source.updated_at,
                           last_synced_at |-> people_source.last_synced_at,
                           tested |-> people_source.tested]
          /\ people_source.updated_at + 1 \in Nat /\ people_source.last_synced_at \in Nat
      BY <1>1 DEF SourceRow
    <3>3. people_source' = [is_enabled |-> on, identity |-> identity,
                            updated_at |-> people_source.updated_at + 1,
                            last_synced_at |-> people_source.last_synced_at, tested |-> FALSE]
      BY <3>1, <3>2
    <3> QED
      BY <3>2, <3>3 DEF SourceRow
  <2>2. ASSUME NEW e \in Employees, NEW content \in Contents, EditPerson(e, content)
        PROVE  people' \in Rows
    <3>1. people[e] \in Person
      BY <1>1, <2>2 DEF EditPerson, Rows
    <3>2. [people[e] EXCEPT !.content = content] \in Person
      BY <3>1 DEF Person
    <3>3. people' = [people EXCEPT ![e] = [people[e] EXCEPT !.content = content]]
      BY <1>1, <2>2 DEF EditPerson
    <3> QED
      BY <1>1, <3>2, <3>3 DEF Rows
  <2>3. ASSUME NEW rows \in SUBSET Employees, NEW active \in BOOLEAN,
               NEW file \in [rows -> Contents], ImportPeople(file, active)
        PROVE  people' \in Rows
    <3>1. ASSUME NEW e \in rows
          PROVE  imported_row(e, file[e], active) \in Person
      <4>1. file[e] \in Contents /\ e \in Employees
        BY <3>1
      <4>2. (people[e] # Null /\ people[e].departed) \in BOOLEAN
        BY <1>1, <4>1 DEF Rows, Person
      <4> QED
        BY <4>1, <4>2 DEF imported_row, Person
    <3>2. people' = [e \in Employees |->
                       IF e \in rows THEN imported_row(e, file[e], active) ELSE people[e]]
      BY <2>3 DEF ImportPeople
    <3> QED
      BY <1>1, <3>1, <3>2 DEF Rows
  <2>4. CASE \E on \in BOOLEAN, identity \in {0, 1} : EditSource(on, identity)
    BY <1>1, <2>1, <2>4 DEF EditSource
  <2>5. CASE \E e \in Employees, content \in Contents : EditPerson(e, content)
    BY <1>1, <2>2, <2>5 DEF EditPerson
  <2>6. CASE \E rows \in SUBSET Employees, active \in BOOLEAN :
               \E file \in [rows -> Contents] : ImportPeople(file, active)
    <3>0. PICK rows \in SUBSET Employees, active \in BOOLEAN :
            \E file \in [rows -> Contents] : ImportPeople(file, active)
      BY <2>6
    <3>1. PICK file \in [rows -> Contents] : ImportPeople(file, active)
      BY <3>0
    <3>2. people' \in Rows
      BY <2>3, <3>1
    <3> QED
      BY <1>1, <3>1, <3>2 DEF ImportPeople
  <2>7. CASE DirectoryChanges
    BY <1>1, <2>7 DEF DirectoryChanges
  <2> QED
    BY <2>4, <2>5, <2>6, <2>7
<1>4. RowsTyped'
  BY <1>2, <1>3 DEF PeopleInv, RowsTyped
<1>5. PeopleTasksFit' /\ ThreadsFit' /\ ResultsFit' /\ SuccessIsApplied'
  BY <1>3 DEF PeopleInv, PeopleTasksFit, ThreadsFit, ThreadFits, ResultsFit, SuccessIsApplied
<1> QED
  BY <1>4, <1>5 DEF PeopleInv

-----------------------------------------------------------------------------
(* The specification.                                                      *)

LEMMA PeopleInitHolds ==
  ASSUME PeopleAssumption, PeopleInit
  PROVE  PeopleInv
<1>1. NoTask \in PeopleTaskRow
  BY DEF NoTask, PeopleTaskRow
<1>2. NoPeopleThread \in ThreadState /\ NoPeopleThread.stage = "idle"
  BY DEF NoPeopleThread, ThreadState
<1>3. people \in Rows /\ people_source \in SourceRow
  BY DEF PeopleInit, PeopleAssumption, Rows, SourceRow
<1>4. /\ remote \in Snapshots /\ people_plan \in [PeopleTasks -> 0 .. MaxPeopleAttempts]
      /\ people_edits \in 0 .. MaxPeopleEdits
  BY DEF PeopleInit, PeopleAssumption
<1>5. /\ people_task \in [PeopleTasks -> PeopleTaskRow]
      /\ people_thread \in [PeopleTasks -> [1 .. MaxPeopleAttempts -> ThreadState]]
      /\ \A t \in PeopleTasks : people_task[t] = NoTask
      /\ \A t \in PeopleTasks, a \in 1 .. MaxPeopleAttempts :
           people_thread[t][a] = NoPeopleThread
  BY <1>1, <1>2 DEF PeopleInit
<1>6. RowsTyped
  BY <1>3, <1>4, <1>5 DEF RowsTyped
<1>7. /\ NoTask.kind = Null /\ NoTask.status = Null /\ NoTask.attempt = 0
      /\ NoTask.preview = Null
  BY DEF NoTask
<1>8. PeopleTasksFit /\ ResultsFit /\ SuccessIsApplied
  BY <1>4, <1>5, <1>7 DEF PeopleTasksFit, ResultsFit, SuccessIsApplied, PeopleAssumption
<1>9. ThreadsFit
  BY <1>2, <1>5 DEF ThreadsFit, ThreadFits
<1> QED
  BY <1>6, <1>8, <1>9 DEF PeopleInv

LEMMA PeopleNextKeeps ==
  ASSUME PeopleAssumption, PeopleInv, [PeopleNext]_peopleVars
  PROVE  PeopleInv'
<1>1. CASE UNCHANGED peopleVars
  BY <1>1 DEF peopleVars, PeopleInv, RowsTyped, PeopleTasksFit, ThreadsFit, ThreadFits, ResultsFit,
              SuccessIsApplied
<1>2. ASSUME NEW t \in PeopleTasks, NEW kind \in Kinds, EnqueuePeople(t, kind)
      PROVE  PeopleInv'
  BY <1>2, PeopleQueueKeeps DEF Kinds
<1>3. ASSUME NEW t \in PeopleTasks, RecoverPeople(t) \/ CancelPeople(t)
      PROVE  PeopleInv'
  BY <1>3, PeopleQueueKeeps
<1>4. ASSUME NEW t \in PeopleTasks, BeginPeople(t) \/ ConfirmPreview(t)
      PROVE  PeopleInv'
  BY <1>4, BeginKeeps, ConfirmKeeps
<1>5. ASSUME NEW t \in PeopleTasks, NEW a \in 1 .. MaxPeopleAttempts, PeopleThreadStep(t, a)
      PROVE  PeopleInv'
  BY <1>5, PeopleFetchKeeps, ApplyKeeps, PeoplePublishKeeps DEF PeopleThreadStep
<1> QED
  BY <1>1, <1>2, <1>3, <1>4, <1>5, SourceEditKeeps DEF PeopleNext, Kinds

LEMMA PeopleInvTypes == PeopleInv => PeopleTypeOK
BY DEF PeopleInv, RowsTyped, PeopleTasksFit, ResultsFit, PeopleTypeOK, Rows, SourceRow,
       PeopleTaskRow, Kinds, Statuses

\* A synchronisation that succeeded was applied by the attempt that published it, for
\* every number of tasks, attempts, recoveries and edits (net/people/executor.py:
\* the publication is fenced by the claim, the application before it is not).
THEOREM SuccessesAreApplied == PeopleSpec => []PeopleTypeOK /\ []SuccessIsApplied
<1>1. PeopleInit => PeopleInv
  BY PeopleAssumption, PeopleInitHolds
<1>2. PeopleInv /\ [PeopleNext]_peopleVars => PeopleInv'
  BY PeopleAssumption, PeopleNextKeeps
<1>3. PeopleInv => PeopleTypeOK /\ SuccessIsApplied
  BY PeopleInvTypes DEF PeopleInv
<1> QED
  BY <1>1, <1>2, <1>3, PTL DEF PeopleSpec

\* An application with current differences is a synchronisation.
LEMMA ApplicationSynchronises ==
  ASSUME PeopleAssumption, RowsTyped, NEW t, NEW p \in Previews, is_current(p),
         apply_people_sync(t, p)
  PROVE  /\ last_apply'.snapshot \in Snapshots
         /\ \A e \in Employees :
              people'[e] = synchronised(people[e], last_apply'.snapshot[e],
                                        people_source'.last_synced_at)
<1> DEFINE now == people_source.last_synced_at + 1
<1>1. now \in Nat
  BY DEF RowsTyped, SourceRow
<1>2. people_source'.last_synced_at = now
  BY DEF apply_people_sync, RowsTyped, SourceRow
<1>3. last_apply'.snapshot = p.snapshot /\ people' = applied_rows(p, now)
  BY DEF apply_people_sync
<1>4. p.snapshot \in Snapshots
  BY SignedFacts
<1> QED
  BY <1>1, <1>2, <1>3, <1>4, AppliedIsSynchronised

\* Steps that are not applications leave the mark of the last one.
LEMMA OnlyApplicationsMark ==
  ASSUME PeopleAssumption, PeopleInv, [PeopleNext]_peopleVars,
         people_source'.last_synced_at # people_source.last_synced_at
  PROVE  \E t \in PeopleTasks, p \in Previews : is_current(p) /\ apply_people_sync(t, p)
<1>1. people_source \in SourceRow
  BY DEF PeopleInv, RowsTyped
<1>2. ASSUME NEW on \in BOOLEAN, NEW identity \in {0, 1}, EditSource(on, identity)
      PROVE  FALSE
  BY <1>1, <1>2 DEF EditSource, SourceRow
<1>3. ASSUME NEW t \in PeopleTasks, NEW a \in 1 .. MaxPeopleAttempts, PublishPeople(t, a)
      PROVE  FALSE
  BY <1>1, <1>3 DEF PublishPeople, SourceRow
<1>4. ASSUME NEW t \in PeopleTasks, NEW a \in 1 .. MaxPeopleAttempts, ApplySync(t, a)
      PROVE  \E p \in Previews : is_current(p) /\ apply_people_sync(t, p)
  <2>1. people_thread[t][a] \in ThreadState /\ people_thread[t][a].stage = "previewed"
    BY <1>4 DEF ApplySync, PeopleInv, RowsTyped
  <2>2. people_thread[t][a].preview \in Previews
    BY <2>1, ThreadFacts
  <2> QED
    BY <1>4, <2>2 DEF ApplySync
<1>5. ASSUME NEW t \in PeopleTasks, ConfirmPreview(t)
      PROVE  \E p \in Previews : is_current(p) /\ apply_people_sync(t, p)
  BY <1>5, ConfirmKeeps DEF ConfirmPreview
<1>6. ASSUME NEW t \in PeopleTasks, NEW a \in 1 .. MaxPeopleAttempts,
             \/ StartFetch(t, a) \/ Fetch(t, a) \/ ReadSource(t, a) \/ ComputePreview(t, a)
             \/ PublicationRaises(t, a)
      PROVE  FALSE
  BY <1>6 DEF StartFetch, Fetch, ReadSource, ComputePreview, PublicationRaises
<1>7. ASSUME NEW t \in PeopleTasks,
             \/ \E kind \in {"test", "preview", "sync"} : EnqueuePeople(t, kind)
             \/ BeginPeople(t) \/ RecoverPeople(t) \/ CancelPeople(t)
      PROVE  FALSE
  BY <1>7 DEF EnqueuePeople, BeginPeople, RecoverPeople, CancelPeople
<1>8. ASSUME \/ \E e \in Employees, content \in Contents : EditPerson(e, content)
             \/ \E rows \in SUBSET Employees, active \in BOOLEAN :
                  \E file \in [rows -> Contents] : ImportPeople(file, active)
             \/ DirectoryChanges \/ UNCHANGED peopleVars
      PROVE  FALSE
  BY <1>8 DEF EditPerson, ImportPeople, DirectoryChanges, peopleVars
<1> QED
  BY <1>2, <1>3, <1>4, <1>5, <1>6, <1>7, <1>8 DEF PeopleNext, PeopleThreadStep

\* Every application, by a thread that may have lost its claim or by a confirmation long
\* after its preview, makes of the people as they are at that moment the
\* synchronisation with one complete directory (net/people/directory/sync.py: the
\* differences are computed and signed without a lock and compared under it).
THEOREM AppliesAreSynchronisations == PeopleSpec => ApplyIsSynchronisation
<1>1. PeopleInit => PeopleInv
  BY PeopleAssumption, PeopleInitHolds
<1>2. PeopleInv /\ [PeopleNext]_peopleVars => PeopleInv'
  BY PeopleAssumption, PeopleNextKeeps
<1> DEFINE Synchronises ==
             people_source'.last_synced_at # people_source.last_synced_at
               => /\ last_apply'.snapshot \in Snapshots
                  /\ \A e \in Employees :
                       people'[e] = synchronised(people[e], last_apply'.snapshot[e],
                                                 people_source'.last_synced_at)
<1>3. PeopleInv /\ [PeopleNext]_peopleVars => [Synchronises]_peopleVars
  BY PeopleAssumption, OnlyApplicationsMark, ApplicationSynchronises DEF PeopleInv
<1> QED
  BY <1>1, <1>2, <1>3, PTL DEF PeopleSpec, ApplyIsSynchronisation

-----------------------------------------------------------------------------
(* Access control.                                                         *)

Events == [door : Doors, at : Nat]
Thread == [stage : {"idle", "begun", "fetched", "failing"}, events : SUBSET Events]

AccessRows ==
  /\ access_clock \in 0 .. AccessDuration
  /\ events \subseteq Events /\ records \subseteq Events
  /\ access_source \in [is_enabled : BOOLEAN, identity : {0, 1}, cursor_at : Nat]
  /\ access_task \in [status : {"none", "queued", "running", "success", "failed", "cancelled"},
                      attempt : Nat, identity : {0, 1}, window : Nat \X Nat]
  /\ access_thread \in [1 .. MaxAccessAttempts -> Thread]
  /\ access_form \in [open : BOOLEAN, cursor_at : Nat]
  /\ first_start \in Nat

AttemptLeft ==
  /\ access_task.attempt <= MaxAccessAttempts
  /\ access_task.status = "queued" => access_task.attempt < MaxAccessAttempts

\* Nothing lies in the future.
TimesPast ==
  /\ \A e \in events : e.at <= access_clock
  /\ access_source.cursor_at # NoCursor => access_source.cursor_at <= access_clock
  /\ access_form.cursor_at # NoCursor => access_form.cursor_at <= access_clock
  /\ access_task.window[1] <= access_task.window[2] /\ access_task.window[2] <= access_clock

Covered(start, end) == \A e \in events : start <= e.at /\ e.at < end => e \in records

\* What the cursor, an open form and the window of an active task rest on.
StartKnown ==
  /\ access_source.cursor_at = NoCursor <=> first_start = NoCursor
  /\ access_form.cursor_at # NoCursor => first_start # NoCursor

CursorCovered == first_start # NoCursor => Covered(first_start, access_source.cursor_at)

FormCovered == access_form.cursor_at # NoCursor => Covered(first_start, access_form.cursor_at)

WindowCovered ==
  access_task.status \in {"queued", "running"} /\ first_start # NoCursor
    => Covered(first_start, access_task.window[1])

\* What a thread has fetched is all that its window will ever have.
FetchComplete(a) ==
  access_thread[a].stage = "fetched"
    => \A e \in events : access_task.window[1] <= e.at /\ e.at < access_task.window[2]
                           => e \in access_thread[a].events

FetchesComplete == \A a \in 1 .. MaxAccessAttempts : FetchComplete(a)

AccessInv == /\ AccessRows /\ AttemptLeft /\ TimesPast /\ StartKnown
             /\ CursorCovered /\ FormCovered /\ WindowCovered /\ FetchesComplete

-----------------------------------------------------------------------------
LEMMA SecondsGrow ==
  ASSUME AccessAssumption, NEW s \in Nat, NEW t \in Nat, s <= t
  PROVE  second(s) <= second(t)
  BY DEF second, AccessAssumption

\* A record that goes on is kept, a new event is not in the past.
LEMMA CoveredStays ==
  ASSUME AccessRows, NEW start, NEW end, end \in Nat, end <= access_clock,
         Covered(start, end), records \subseteq records',
         \A e \in events' : e \in events \/ e.at = access_clock
  PROVE  \A e \in events' : start <= e.at /\ e.at < end => e \in records'
  BY DEF AccessRows, Covered

\* Steps that leave the events, the records and the rows of the source.
LEMMA RestKeeps ==
  ASSUME AccessAssumption, AccessInv, UNCHANGED <<events, records, access_source, first_start>>,
         AccessRows', AttemptLeft', access_clock <= access_clock',
         access_task'.window[1] <= access_task'.window[2],
         access_task'.window[2] <= access_clock',
         access_form' = access_form \/ access_form'.cursor_at = access_source.cursor_at,
         WindowCovered', FetchesComplete'
  PROVE  AccessInv'
<1>1. access_clock \in Nat /\ access_clock' \in Nat /\ access_source.cursor_at \in Nat
      /\ access_form.cursor_at \in Nat /\ \A e \in events : e.at \in Nat
  BY DEF AccessInv, AccessRows, Events
<1>2. TimesPast'
  BY <1>1 DEF AccessInv, TimesPast, NoCursor
<1>3. StartKnown' /\ CursorCovered'
  BY DEF AccessInv, StartKnown, CursorCovered, Covered, NoCursor
<1>4. FormCovered'
  BY DEF AccessInv, StartKnown, CursorCovered, FormCovered, Covered, NoCursor
<1> QED
  BY <1>2, <1>3, <1>4 DEF AccessInv

\* Steps of the queue: the active task keeps its window.
LEMMA AccessQueueKeeps ==
  ASSUME AccessAssumption, AccessInv,
         BeginAccess \/ RecoverAccess \/ CancelAccess \/ AccessTick \/ OpenPlatform
  PROVE  AccessInv'
<1> DEFINE statuses == {"none", "queued", "running", "success", "failed", "cancelled"}
           TaskRow  == [status : statuses, attempt : Nat, identity : {0, 1}, window : Nat \X Nat]
<1>1. /\ access_clock \in 0 .. AccessDuration /\ AccessDuration \in Nat
      /\ access_task \in TaskRow /\ access_task.window \in Nat \X Nat
      /\ access_thread \in [1 .. MaxAccessAttempts -> Thread]
      /\ access_source.cursor_at \in Nat /\ MaxAccessAttempts \in Nat
  BY DEF AccessInv, AccessRows, AccessAssumption
<1>2. access_task = [status |-> access_task.status, attempt |-> access_task.attempt,
                     identity |-> access_task.identity, window |-> access_task.window]
  BY <1>1
<1>3. ASSUME NEW status \in statuses
      PROVE  LET row == [access_task EXCEPT !.status = status]
             IN /\ row \in TaskRow /\ row.status = status
                /\ row.attempt = access_task.attempt /\ row.window = access_task.window
  BY <1>1
<1>4. CASE BeginAccess
  <2> DEFINE a == access_task.attempt + 1
  <2>1. a \in 1 .. MaxAccessAttempts /\ access_task.attempt \in Nat
    BY <1>1, <1>4 DEF BeginAccess, AccessInv, AttemptLeft
  <2>2. /\ access_task' \in TaskRow /\ access_task'.status = "running"
        /\ access_task'.attempt = a /\ access_task'.window = access_task.window
    <3>1. access_task' = [access_task EXCEPT !.status = "running", !.attempt = @ + 1]
      BY <1>4 DEF BeginAccess
    <3>2. access_task' = [status |-> "running", attempt |-> a,
                          identity |-> access_task.identity, window |-> access_task.window]
      BY <1>2, <3>1
    <3>3. access_task.identity \in {0, 1} /\ a \in Nat
      BY <1>1, <2>1
    <3> HIDE DEF a
    <3> QED
      BY <1>1, <3>2, <3>3
  <2>3. [access_thread[a] EXCEPT !.stage = "begun"] \in Thread
        /\ [access_thread[a] EXCEPT !.stage = "begun"].stage = "begun"
    <3>1. access_thread[a] \in Thread
      BY <1>1, <2>1
    <3> QED
      BY <3>1 DEF Thread
  <2>4. /\ access_thread' \in [1 .. MaxAccessAttempts -> Thread]
        /\ access_thread'[a].stage = "begun"
        /\ \A b \in 1 .. MaxAccessAttempts : b # a => access_thread'[b] = access_thread[b]
    <3>1. access_thread' = [access_thread EXCEPT ![a] = [access_thread[a] EXCEPT !.stage = "begun"]]
      BY <1>1, <2>1, <1>4 DEF BeginAccess
    <3> QED
      BY <1>1, <2>1, <2>3, <3>1
  <2>5. UNCHANGED <<access_clock, events, access_source, records, access_form, first_start>>
    BY <1>4 DEF BeginAccess
  <2> HIDE DEF a
  <2>6. AccessRows'
    BY <2>2, <2>4, <2>5 DEF AccessInv, AccessRows
  <2>7. AttemptLeft'
    BY <1>1, <2>1, <2>2 DEF AttemptLeft
  <2>8. WindowCovered'
    BY <1>4, <2>2, <2>5 DEF BeginAccess, AccessInv, WindowCovered, Covered
  <2>9. FetchesComplete'
    BY <2>2, <2>4, <2>5 DEF AccessInv, FetchesComplete, FetchComplete
  <2> QED
    BY <1>1, <2>2, <2>5, <2>6, <2>7, <2>8, <2>9, RestKeeps DEF AccessInv, TimesPast
<1>5. CASE RecoverAccess \/ CancelAccess
  <2>1. PICK status \in {"queued", "failed", "cancelled"} :
          /\ access_task' = [access_task EXCEPT !.status = status]
          /\ status = "queued" => access_task.attempt < MaxAccessAttempts
    BY <1>5 DEF RecoverAccess, CancelAccess, recovered_access_status
  <2>2. /\ access_task' \in TaskRow /\ access_task'.status = status
        /\ access_task'.attempt = access_task.attempt
        /\ access_task'.window = access_task.window
    BY <1>3, <2>1
  <2>3. /\ UNCHANGED <<access_clock, events, access_source, records, access_form, first_start,
                       access_thread>>
        /\ access_task.status \in {"queued", "running"}
    BY <1>5 DEF RecoverAccess, CancelAccess
  <2>4. AccessRows' /\ AttemptLeft'
    BY <2>1, <2>2, <2>3 DEF AccessInv, AccessRows, AttemptLeft
  <2>5. WindowCovered' /\ FetchesComplete'
    BY <2>2, <2>3 DEF AccessInv, WindowCovered, Covered, FetchesComplete, FetchComplete
  <2> QED
    BY <1>1, <2>2, <2>3, <2>4, <2>5, RestKeeps DEF AccessInv, TimesPast
<1>6. CASE AccessTick
  <2>1. /\ UNCHANGED <<events, access_source, records, access_form, first_start, access_thread,
                       access_task>>
        /\ access_clock' = access_clock + 1 /\ access_clock < AccessDuration
    BY <1>6 DEF AccessTick
  <2>2. AccessRows' /\ AttemptLeft'
    BY <1>1, <2>1 DEF AccessInv, AccessRows, AttemptLeft
  <2>3. WindowCovered' /\ FetchesComplete'
    BY <2>1 DEF AccessInv, WindowCovered, Covered, FetchesComplete, FetchComplete
  <2>4. access_task.window[2] \in Nat
    BY <1>1
  <2> QED
    BY <1>1, <2>1, <2>2, <2>3, <2>4, RestKeeps DEF AccessInv, TimesPast
<1>7. CASE OpenPlatform
  <2>1. /\ UNCHANGED <<access_clock, events, access_source, records, first_start, access_thread,
                       access_task>>
        /\ access_form' = [open |-> TRUE, cursor_at |-> access_source.cursor_at]
    BY <1>7 DEF OpenPlatform
  <2>2. AccessRows' /\ AttemptLeft'
    BY <1>1, <2>1 DEF AccessInv, AccessRows, AttemptLeft
  <2>3. WindowCovered' /\ FetchesComplete'
    BY <2>1 DEF AccessInv, WindowCovered, Covered, FetchesComplete, FetchComplete
  <2> QED
    BY <1>1, <2>1, <2>2, <2>3, RestKeeps DEF AccessInv, TimesPast
<1> QED
  BY <1>4, <1>5, <1>6, <1>7

\* An event happens now, behind every cursor and every window.
LEMMA DoorKeeps ==
  ASSUME AccessAssumption, AccessInv, NEW d \in Doors, PassDoor(d)
  PROVE  AccessInv'
<1> DEFINE new == [door |-> d, at |-> access_clock]
<1>1. /\ access_clock \in Nat /\ events' = events \cup {new} /\ new \in Events
      /\ new.at = access_clock /\ events \subseteq Events
      /\ access_source.cursor_at \in Nat /\ access_form.cursor_at \in Nat
      /\ access_task.window \in Nat \X Nat
      /\ UNCHANGED <<access_clock, access_source, records, access_task, access_thread,
                     access_form, first_start>>
  BY DEF PassDoor, AccessInv, AccessRows, Events
<1> HIDE DEF new
<1>2. AccessRows' /\ AttemptLeft' /\ StartKnown'
  BY <1>1 DEF AccessInv, AccessRows, AttemptLeft, StartKnown
<1>3. TimesPast'
  BY <1>1 DEF AccessInv, TimesPast
<1>4. ASSUME NEW start, NEW end \in Nat, end <= access_clock, Covered(start, end)
      PROVE  \A e \in events' : start <= e.at /\ e.at < end => e \in records'
  BY <1>1, <1>4, CoveredStays DEF AccessInv
<1>5. CursorCovered'
  BY <1>1, <1>4 DEF AccessInv, TimesPast, StartKnown, CursorCovered, Covered
<1>6. FormCovered'
  BY <1>1, <1>4 DEF AccessInv, TimesPast, FormCovered, Covered
<1>7. WindowCovered'
  <2>1. access_task.window[1] \in Nat /\ access_task.window[1] <= access_clock
    BY <1>1 DEF AccessInv, TimesPast
  <2> QED
    BY <1>1, <1>4, <2>1 DEF AccessInv, WindowCovered, Covered
<1>8. FetchesComplete'
  <2>1. ~ (new.at < access_task.window[2])
    BY <1>1 DEF AccessInv, TimesPast
  <2> QED
    BY <1>1, <2>1 DEF AccessInv, FetchesComplete, FetchComplete
<1> QED
  BY <1>2, <1>3, <1>5, <1>6, <1>7, <1>8 DEF AccessInv

\* A new task starts at the cursor.
LEMMA EnqueueKeeps ==
  ASSUME AccessAssumption, AccessInv, EnqueueAccess
  PROVE  AccessInv'
<1>1. /\ access_clock \in 0 .. AccessDuration /\ AccessDuration \in Nat /\ Lookback \in Nat
      /\ MaxAccessAttempts \in Nat \ {0} /\ access_source.cursor_at \in Nat
      /\ access_source.identity \in {0, 1}
  BY DEF AccessInv, AccessRows, AccessAssumption
<1>2. /\ window_start \in Nat /\ window_start < access_clock
      /\ access_source.cursor_at # NoCursor => window_start = access_source.cursor_at
  BY <1>1 DEF EnqueueAccess, window_start
<1> DEFINE start == window_start
<1>3. /\ access_task' = [status |-> "queued", attempt |-> 0, identity |-> access_source.identity,
                         window |-> <<start, access_clock>>]
      /\ access_thread' = [a \in 1 .. MaxAccessAttempts |-> NoAccessThread]
      /\ UNCHANGED <<access_clock, events, access_source, records, access_form, first_start>>
  BY DEF EnqueueAccess
<1> HIDE DEF start
<1>4. /\ access_task'.window[1] = start /\ access_task'.window[2] = access_clock
      /\ access_task'.attempt = 0 /\ access_task'.status = "queued" /\ start \in Nat
  BY <1>2, <1>3 DEF start
<1>5. AccessRows'
  <2>1. NoAccessThread \in Thread
    BY DEF NoAccessThread, Thread
  <2> QED
    BY <1>1, <1>3, <1>4, <2>1 DEF AccessInv, AccessRows
<1>6. AttemptLeft'
  BY <1>1, <1>4 DEF AttemptLeft
<1>7. WindowCovered'
  BY <1>2, <1>3, <1>4 DEF AccessInv, WindowCovered, CursorCovered, StartKnown, Covered, start
<1>8. FetchesComplete'
  BY <1>3 DEF FetchesComplete, FetchComplete, NoAccessThread
<1> QED
  BY <1>1, <1>2, <1>3, <1>4, <1>5, <1>6, <1>7, <1>8, RestKeeps DEF start

\* A thread fetches all that its window has: what happens from now on is behind it.
LEMMA AccessFetchKeeps ==
  ASSUME AccessAssumption, AccessInv, NEW a \in 1 .. MaxAccessAttempts, FetchEvents(a)
  PROVE  AccessInv'
<1> DEFINE window == access_task.window
           found  == {e \in events : in_window(e, window)}
<1>1. /\ access_clock \in Nat /\ access_thread[a] \in Thread /\ events \subseteq Events
      /\ window \in Nat \X Nat
      /\ access_thread \in [1 .. MaxAccessAttempts -> Thread]
      /\ UNCHANGED <<access_clock, events, access_source, records, access_task, access_form,
                     first_start>>
  <2>1. UNCHANGED <<access_clock, events, access_source, records, access_task, access_form,
                    first_start>>
    BY DEF FetchEvents
  <2>2. /\ access_clock \in Nat /\ events \subseteq Events
        /\ access_thread \in [1 .. MaxAccessAttempts -> Thread]
    BY DEF AccessInv, AccessRows, AccessAssumption
  <2>3. window \in Nat \X Nat
    BY DEF AccessInv, AccessRows
  <2> QED
    BY <2>1, <2>2, <2>3
<1>2. ASSUME NEW e \in events, window[1] <= e.at, e.at < window[2] PROVE e \in found
  <2>1. window[1] \in Nat /\ window[2] \in Nat /\ e.at \in Nat /\ e.at <= window[2]
    BY <1>1, <1>2 DEF Events
  <2>2. second(window[1]) <= second(e.at) /\ second(e.at) <= second(window[2])
    BY <1>2, <2>1, SecondsGrow
  <2> QED
    BY <2>2 DEF in_window
<1>3. PICK th \in Thread : /\ access_thread' = [access_thread EXCEPT ![a] = th]
                           /\ th.stage = "fetched" => th.events = found
  <2>1. [stage |-> "fetched", events |-> found] \in Thread
    BY <1>1 DEF Thread
  <2>2. [access_thread[a] EXCEPT !.stage = "failing"] \in Thread
        /\ [access_thread[a] EXCEPT !.stage = "failing"].stage = "failing"
    BY <1>1 DEF Thread
  <2>3. CASE access_thread' = [access_thread EXCEPT ![a] = [stage |-> "fetched", events |-> found]]
    BY <2>1, <2>3
  <2>4. CASE access_thread' = [access_thread EXCEPT ![a].stage = "failing"]
    <3>1. access_thread' =
            [access_thread EXCEPT ![a] = [access_thread[a] EXCEPT !.stage = "failing"]]
      BY <1>1, <2>4
    <3> QED
      BY <2>2, <3>1
  <2> QED
    BY <2>3, <2>4 DEF FetchEvents
<1> HIDE DEF found
<1>4. AccessRows' /\ AttemptLeft' /\ WindowCovered'
  BY <1>1, <1>3 DEF AccessInv, AccessRows, AttemptLeft, WindowCovered, Covered
<1>5. FetchesComplete'
  <2> SUFFICES ASSUME NEW b \in 1 .. MaxAccessAttempts PROVE FetchComplete(b)'
    BY DEF FetchesComplete
  <2>1. CASE b = a
    BY <1>1, <1>2, <1>3, <2>1 DEF FetchComplete
  <2>2. CASE b # a
    BY <1>1, <1>3, <2>2 DEF AccessInv, FetchesComplete, FetchComplete
  <2> QED
    BY <2>1, <2>2
<1> QED
  BY <1>1, <1>4, <1>5, RestKeeps DEF AccessInv, TimesPast

\* A form writes the cursor that it has read: an older one, or none.
LEMMA SaveKeeps ==
  ASSUME AccessAssumption, AccessInv, NEW on \in BOOLEAN, NEW identity \in {0, 1},
         SavePlatform(on, identity)
  PROVE  AccessInv'
<1>1. /\ access_source' = [is_enabled |-> on, identity |-> identity,
                           cursor_at |-> access_form.cursor_at]
      /\ access_form' = NoForm /\ AccessDuration \in Nat /\ NoCursor \in Nat
      /\ first_start' = IF access_form.cursor_at = NoCursor THEN NoCursor ELSE first_start
      /\ UNCHANGED <<access_clock, events, records, access_task, access_thread>>
      /\ access_form.cursor_at \in Nat
  BY DEF SavePlatform, NoCursor, AccessInv, AccessRows, AccessAssumption
<1>2. AccessRows' /\ AttemptLeft'
  BY <1>1 DEF AccessInv, AccessRows, AttemptLeft, NoForm
<1>3. TimesPast'
  BY <1>1 DEF AccessInv, TimesPast, NoForm
<1>4. StartKnown' /\ CursorCovered' /\ FormCovered'
  BY <1>1 DEF AccessInv, StartKnown, CursorCovered, FormCovered, Covered, NoForm
<1>5. WindowCovered' /\ FetchesComplete'
  BY <1>1 DEF AccessInv, WindowCovered, Covered, FetchesComplete, FetchComplete
<1> QED
  BY <1>2, <1>3, <1>4, <1>5 DEF AccessInv

\* The thread of a window is gone; the others have fetched what they had.
LEMMA ThreadEnds ==
  ASSUME AccessAssumption, AccessInv, NEW a \in 1 .. MaxAccessAttempts,
         access_thread' = [access_thread EXCEPT ![a] = NoAccessThread],
         UNCHANGED events, access_task'.window = access_task.window
  PROVE  FetchesComplete' /\ access_thread' \in [1 .. MaxAccessAttempts -> Thread]
<1>1. NoAccessThread \in Thread /\ NoAccessThread.stage = "idle"
  BY DEF NoAccessThread, Thread
<1>2. access_thread \in [1 .. MaxAccessAttempts -> Thread]
  BY DEF AccessInv, AccessRows
<1>3. ASSUME NEW b \in 1 .. MaxAccessAttempts PROVE FetchComplete(b)'
  <2>1. CASE b = a
    BY <1>1, <1>2, <2>1 DEF FetchComplete
  <2>2. CASE b # a
    BY <1>2, <2>2 DEF AccessInv, FetchesComplete, FetchComplete
  <2> QED
    BY <2>1, <2>2
<1> QED
  BY <1>1, <1>2, <1>3 DEF FetchesComplete

\* The publication of a whole window extends what is covered to its end.
LEMMA AccessPublishKeeps ==
  ASSUME AccessAssumption, AccessInv, NEW a \in 1 .. MaxAccessAttempts, PublishAccess(a)
  PROVE  AccessInv'
<1> DEFINE statuses == {"none", "queued", "running", "success", "failed", "cancelled"}
           success  == access_thread[a].stage = "fetched" /\ access_source_matches_task
           from     == access_task.window[1]
           to       == access_task.window[2]
<1>1. /\ access_clock \in Nat /\ access_clock <= AccessDuration /\ AccessDuration \in Nat
      /\ from \in Nat /\ to \in Nat /\ from <= to /\ to <= access_clock
      /\ events \subseteq Events /\ first_start \in Nat
      /\ access_thread[a] \in Thread
      /\ access_source \in [is_enabled : BOOLEAN, identity : {0, 1}, cursor_at : Nat]
      /\ access_task \in [status : statuses, attempt : Nat, identity : {0, 1},
                          window : Nat \X Nat]
  BY DEF AccessInv, AccessRows, TimesPast, AccessAssumption
<1>2. /\ access_thread' = [access_thread EXCEPT ![a] = NoAccessThread]
      /\ UNCHANGED <<access_clock, events, access_form>>
  BY DEF PublishAccess
<1>3. CASE UNCHANGED <<access_task, records, access_source, first_start>>
  <2>1. FetchesComplete' /\ access_thread' \in [1 .. MaxAccessAttempts -> Thread]
    BY <1>2, <1>3, ThreadEnds
  <2>2. AccessRows' /\ AttemptLeft' /\ WindowCovered'
    BY <1>2, <1>3, <2>1 DEF AccessInv, AccessRows, AttemptLeft, WindowCovered, Covered
  <2> QED
    BY <1>1, <1>2, <1>3, <2>1, <2>2, RestKeeps
<1>4. CASE may_publish(a) /\ ~ UNCHANGED <<access_task, records, access_source, first_start>>
  <2>1. /\ access_task.status = "running"
        /\ access_task' = [access_task EXCEPT !.status = IF success THEN "success" ELSE "failed"]
        /\ records' = IF success THEN records \cup access_thread[a].events ELSE records
        /\ access_source' = [access_source EXCEPT !.cursor_at = cursor_after(success)]
        /\ first_start' = IF success /\ first_start = NoCursor THEN from ELSE first_start
    BY <1>4 DEF PublishAccess, may_publish
  <2>2. /\ access_task' \in [status : statuses, attempt : Nat, identity : {0, 1},
                             window : Nat \X Nat]
        /\ access_task'.window = access_task.window
        /\ access_task'.attempt = access_task.attempt
        /\ access_task'.status \in {"success", "failed"}
    BY <1>1, <2>1
  <2>3. FetchesComplete' /\ access_thread' \in [1 .. MaxAccessAttempts -> Thread]
    BY <1>2, <2>2, ThreadEnds
  <2>4. AttemptLeft' /\ WindowCovered'
    BY <2>2 DEF AccessInv, AttemptLeft, WindowCovered
  <2>5. CASE ~ success
    <3>1. access_source' = access_source /\ records' = records /\ first_start' = first_start
      BY <1>1, <2>1, <2>5 DEF cursor_after
    <3>2. AccessRows'
      BY <1>2, <2>2, <2>3, <3>1 DEF AccessInv, AccessRows
    <3> QED
      BY <1>1, <1>2, <2>2, <2>3, <2>4, <3>1, <3>2, RestKeeps
  <2>6. CASE success
    <3> DEFINE cursor == access_source.cursor_at
               later  == IF cursor # NoCursor /\ cursor > to THEN cursor ELSE to
               start  == IF first_start = NoCursor THEN from ELSE first_start
    <3>1. /\ records' = records \cup access_thread[a].events
          /\ access_source' \in [is_enabled : BOOLEAN, identity : {0, 1}, cursor_at : Nat]
          /\ access_source'.cursor_at = later /\ first_start' = start
          /\ later \in Nat /\ start \in Nat /\ cursor \in Nat
      BY <1>1, <2>1, <2>6 DEF cursor_after
    <3>2. /\ later <= access_clock /\ later # NoCursor /\ start # NoCursor
          /\ cursor = NoCursor <=> first_start = NoCursor
      BY <1>1, <3>1 DEF AccessInv, TimesPast, StartKnown, NoCursor
    <3>3. AccessRows'
      BY <1>1, <1>2, <2>2, <2>3, <3>1 DEF AccessInv, AccessRows, Thread
    <3>4. TimesPast'
      BY <1>1, <1>2, <2>2, <3>1, <3>2 DEF AccessInv, TimesPast
    <3>5. \A e \in events : from <= e.at /\ e.at < to => e \in records'
      BY <2>6, <3>1 DEF AccessInv, FetchesComplete, FetchComplete
    <3>6. Covered(first_start, from) \/ first_start = NoCursor
      BY <2>1 DEF AccessInv, WindowCovered
    <3>7. \A e \in events : start <= e.at /\ e.at < to => e \in records'
      <4> SUFFICES ASSUME NEW e \in events, start <= e.at, e.at < to PROVE e \in records'
        OBVIOUS
      <4>1. e.at \in Nat
        BY <1>1 DEF Events
      <4>2. CASE from <= e.at
        BY <3>5, <4>2
      <4>3. CASE e.at < from
        BY <1>1, <3>1, <3>6, <4>1, <4>3 DEF Covered
      <4> QED
        BY <1>1, <4>1, <4>2, <4>3
    <3>8. \A e \in events : start <= e.at /\ e.at < later => e \in records'
      BY <3>1, <3>2, <3>7 DEF AccessInv, CursorCovered, Covered
    <3>9. StartKnown' /\ CursorCovered'
      BY <1>2, <3>1, <3>2, <3>8 DEF AccessInv, StartKnown, CursorCovered, Covered
    <3>10. FormCovered'
      BY <1>2, <3>1 DEF AccessInv, StartKnown, FormCovered, Covered
    <3> QED
      BY <2>3, <2>4, <3>3, <3>4, <3>9, <3>10 DEF AccessInv
  <2> QED
    BY <2>5, <2>6
<1> QED
  BY <1>3, <1>4 DEF PublishAccess

-----------------------------------------------------------------------------
LEMMA AccessInitHolds ==
  ASSUME AccessAssumption, AccessInit
  PROVE  AccessInv
<1>1. NoAccessThread \in Thread /\ NoAccessThread.stage = "idle" /\ NoCursor \in Nat
  BY DEF NoAccessThread, Thread, NoCursor, AccessAssumption
<1>2. AccessRows
  BY <1>1 DEF AccessInit, AccessRows, NoForm, AccessAssumption
<1>3. AttemptLeft /\ TimesPast /\ StartKnown
  BY DEF AccessInit, AttemptLeft, TimesPast, StartKnown, NoForm, AccessAssumption
<1>4. CursorCovered /\ FormCovered /\ WindowCovered
  BY DEF AccessInit, CursorCovered, FormCovered, WindowCovered, Covered
<1>5. FetchesComplete
  BY <1>1 DEF AccessInit, FetchesComplete, FetchComplete
<1> QED
  BY <1>2, <1>3, <1>4, <1>5 DEF AccessInv

LEMMA AccessNextKeeps ==
  ASSUME AccessAssumption, AccessInv, [AccessNext]_accessVars
  PROVE  AccessInv'
<1>1. CASE UNCHANGED accessVars
  BY <1>1 DEF accessVars, AccessInv, AccessRows, AttemptLeft, TimesPast, StartKnown,
              CursorCovered, FormCovered, WindowCovered, FetchesComplete, FetchComplete, Covered
<1>2. CASE BeginAccess \/ RecoverAccess \/ CancelAccess \/ AccessTick \/ OpenPlatform
  BY <1>2, AccessQueueKeeps
<1>3. CASE EnqueueAccess
  BY <1>3, EnqueueKeeps
<1>4. ASSUME NEW a \in 1 .. MaxAccessAttempts, AccessThreadStep(a)
      PROVE  AccessInv'
  BY <1>4, AccessFetchKeeps, AccessPublishKeeps DEF AccessThreadStep
<1>5. ASSUME NEW on \in BOOLEAN, NEW identity \in {0, 1}, SavePlatform(on, identity)
      PROVE  AccessInv'
  BY <1>5, SaveKeeps
<1>6. ASSUME NEW d \in Doors, PassDoor(d)
      PROVE  AccessInv'
  BY <1>6, DoorKeeps
<1> QED
  BY <1>1, <1>2, <1>3, <1>4, <1>5, <1>6 DEF AccessNext

\* Only events are fetched and recorded.
OnlyEvents ==
  /\ records \subseteq events /\ access_syncs \in Nat
  /\ \A a \in 1 .. MaxAccessAttempts : access_thread[a].events \subseteq events

LEMMA OnlyEventsKeep ==
  ASSUME AccessInv, OnlyEvents, [AccessNext]_accessVars
  PROVE  OnlyEvents'
<1>0. access_thread \in [1 .. MaxAccessAttempts -> Thread]
  BY DEF AccessInv, AccessRows
<1>1. ASSUME UNCHANGED <<access_thread, records>>, events \subseteq events',
             access_syncs' \in {access_syncs, access_syncs + 1}
      PROVE  OnlyEvents'
  BY <1>1 DEF OnlyEvents
<1>2. CASE RecoverAccess \/ CancelAccess \/ AccessTick \/ OpenPlatform \/ UNCHANGED accessVars
  BY <1>1, <1>2 DEF RecoverAccess, CancelAccess, AccessTick, OpenPlatform, accessVars
<1>3. ASSUME NEW on \in BOOLEAN, NEW identity \in {0, 1}, SavePlatform(on, identity)
      PROVE  OnlyEvents'
  BY <1>1, <1>3 DEF SavePlatform
<1>4. ASSUME NEW d \in Doors, PassDoor(d) PROVE OnlyEvents'
  BY <1>1, <1>4 DEF PassDoor
<1>5. CASE EnqueueAccess
  BY <1>5 DEF EnqueueAccess, OnlyEvents, NoAccessThread
<1>6. CASE BeginAccess
  BY <1>0, <1>6 DEF BeginAccess, OnlyEvents, Thread
<1>7. ASSUME NEW a \in 1 .. MaxAccessAttempts, FetchEvents(a) PROVE OnlyEvents'
  <2>1. /\ UNCHANGED <<events, records, access_syncs>>
        /\ \E thread : access_thread' = [access_thread EXCEPT ![a] = thread]
                       /\ thread.events \subseteq events
    BY <1>0, <1>7 DEF FetchEvents, OnlyEvents, Thread
  <2> QED
    BY <1>0, <2>1 DEF OnlyEvents
<1>8. ASSUME NEW a \in 1 .. MaxAccessAttempts, PublishAccess(a) PROVE OnlyEvents'
  <2>1. /\ access_thread' = [access_thread EXCEPT ![a] = NoAccessThread]
        /\ UNCHANGED <<events, access_syncs>>
        /\ records' \subseteq records \cup access_thread[a].events
    BY <1>8 DEF PublishAccess
  <2> QED
    BY <1>0, <2>1 DEF OnlyEvents, NoAccessThread
<1> QED
  BY <1>2, <1>3, <1>4, <1>5, <1>6, <1>7, <1>8 DEF AccessNext, AccessThreadStep

LEMMA AccessInitEvents == AccessInit => OnlyEvents
BY DEF AccessInit, OnlyEvents, NoAccessThread

LEMMA AccessInvTypes == AccessInv /\ OnlyEvents => AccessTypeOK
<1> SUFFICES ASSUME AccessInv, OnlyEvents PROVE AccessTypeOK
  OBVIOUS
<1>1. access_thread \in [1 .. MaxAccessAttempts ->
                           [stage : {"idle", "begun", "fetched", "failing"}, events : SUBSET events]]
  BY DEF AccessInv, AccessRows, OnlyEvents, Thread
<1>2. access_task \in [status : {"none", "queued", "running", "success", "failed", "cancelled"},
                       attempt : 0 .. MaxAccessAttempts, identity : {0, 1}, window : Nat \X Nat]
  BY AccessAssumption DEF AccessInv, AccessRows, AttemptLeft, AccessAssumption
<1> QED
  BY <1>1, <1>2, AccessAssumption
     DEF AccessInv, AccessRows, OnlyEvents, AccessTypeOK, Events, AccessAssumption

\* Between the start of the first window and the cursor every event is recorded, for
\* every length of a second and of a window, every number of attempts that are lost,
\* recovered or cancelled, and whatever forms write an old cursor back
\* (net/access/executor.py: the cursor moves with the records, under the fence).
THEOREM CursorLeavesNoGap == AccessSpec => []AccessTypeOK /\ []NoGapBehindCursor
<1>1. AccessInit => AccessInv /\ OnlyEvents
  BY AccessAssumption, AccessInitHolds, AccessInitEvents
<1>2. AccessInv /\ OnlyEvents /\ [AccessNext]_accessVars => AccessInv' /\ OnlyEvents'
  BY AccessAssumption, AccessNextKeeps, OnlyEventsKeep
<1>3. AccessInv /\ OnlyEvents => AccessTypeOK /\ NoGapBehindCursor
  BY AccessInvTypes DEF AccessInv, StartKnown, CursorCovered, Covered, NoGapBehindCursor
<1> QED
  BY <1>1, <1>2, <1>3, PTL DEF AccessSpec

-----------------------------------------------------------------------------
(* The requests of a call.                                                 *)

CallStates == [at : Steps \cup Results, current : SUBSET Flags, tries : 0 .. MaxUacWrites,
               known : BOOLEAN]

ClientTyped ==
  /\ client_plan \in ClientPlans /\ ad_object \in DirectoryObject
  /\ client_call \in [Calls -> CallStates]
  /\ client_edits \in 0 .. client_plan.edits

\* The step of a call belongs to its action; without assertions nothing is asserted; a
\* move past its first check has two different groups.
CallFits(c, call) ==
  /\ call.at \in {"reading", "writing", "rereading", "plain_writing", "reading_back"}
       => ActionOf(c) = "flag"
  /\ call.at \in {"rereading", "plain_writing", "reading_back"} => ~ client_plan.asserts
  /\ call.at \in {"idle", "reading", "writing"} => call.tries < MaxUacWrites
  /\ call.at = "checking" => ActionOf(c) = "remove_group"
  /\ call.at = "adding_user" => ActionOf(c) = "create_user"
  /\ call.at \in {"adding", "compare_added", "rechecking", "removing", "compare_removed"}
       => (ActionOf(c) = "move_group" => RequestOf(c).group # RequestOf(c).source)

HasAdded == {"rechecking", "removing", "compare_removed"}
MovesAlone(g, h) == OnlyMoves(g, h) /\ client_edits = 0

CallsFit == \A c \in Calls : CallFits(c, client_call[c])

\* The object is the one a call knows, and nobody has neither flags nor groups.
ObjectFits ==
  /\ \A c \in Calls : client_call[c].known => ad_object.login = "asked"
  /\ ad_object.login = "none" => ad_object.flags = {} /\ ad_object.groups = {}

\* While there are only moves, one that removes has made its addition, and it stays.
MovesFit ==
  \A g, h \in Groups : MovesAlone(g, h) =>
    \A c \in Calls : client_call[c].at \in HasAdded => h \in ad_object.groups

ClientInv == ClientTyped /\ CallsFit /\ ObjectFits /\ MovesFit

KeepsToRequest == FlagsAreKept /\ PasswordIsOwn /\ StaysMember

LEMMA ClientInitInv == ClientInit => ClientInv
<1> SUFFICES ASSUME ClientInit PROVE ClientInv
  OBVIOUS
<1>1. \A c \in Calls : client_call[c] = NewCall
  BY DEF ClientInit
<1>2. /\ NewCall.at = "idle" /\ NewCall.tries = 0 /\ ~ NewCall.known
      /\ NewCall \in CallStates
  BY ClientAssumption DEF NewCall, CallStates, Steps, ClientAssumption
<1>3. /\ client_plan.object \in DirectoryObject /\ client_plan.edits \in Nat
      /\ client_plan.object.login = "none"
           => client_plan.object.flags = {} /\ client_plan.object.groups = {}
  BY ClientAssumption DEF ClientAssumption, ClientInit
<1>4. ClientTyped
  BY <1>2, <1>3 DEF ClientInit, ClientTyped
<1>5. CallsFit
  BY <1>1, <1>2, ClientAssumption DEF CallsFit, CallFits, ClientAssumption
<1>6. ObjectFits
  BY <1>1, <1>2, <1>3 DEF ClientInit, ObjectFits
<1>7. MovesFit
  BY <1>1, <1>2 DEF MovesFit, HasAdded
<1> QED
  BY <1>4, <1>5, <1>6, <1>7 DEF ClientInv

\* A call goes to another step.
LEMMA CallAt ==
  ASSUME NEW call \in CallStates, NEW at \in Steps \cup Results,
         NEW next, next = [call EXCEPT !.at = at]
  PROVE  /\ next \in CallStates /\ next.at = at /\ next.current = call.current
         /\ next.tries = call.tries /\ next.known = call.known
BY Zenon DEF CallStates

\* One step of one call, by what it makes of the object and of its own state.
LEMMA CallStepKeeps ==
  ASSUME ClientInv, NEW c \in Calls, NEW call \in CallStates, Becomes(c, call),
         ad_object' \in DirectoryObject, CallFits(c, call),
         call.known => ad_object'.login = "asked",
         ad_object.login = "asked" => ad_object'.login = "asked",
         ad_object'.login = "none" => ad_object'.flags = {} /\ ad_object'.groups = {},
         \A g, h \in Groups : MovesAlone(g, h) =>
           /\ h \in ad_object.groups => h \in ad_object'.groups
           /\ call.at \in HasAdded => h \in ad_object'.groups
  PROVE  ClientInv'
<1>1. /\ client_call \in [Calls -> CallStates]
      /\ client_call' = [client_call EXCEPT ![c] = call]
      /\ UNCHANGED <<client_plan, client_edits>>
  BY DEF Becomes, ClientInv, ClientTyped
<1>2. /\ client_call' \in [Calls -> CallStates] /\ client_call'[c] = call
      /\ \A d \in Calls : d # c => client_call'[d] = client_call[d]
  BY <1>1
<1>3. ClientTyped'
  BY <1>1, <1>2 DEF ClientInv, ClientTyped
<1>4. CallsFit'
  BY <1>1, <1>2 DEF ClientInv, CallsFit, CallFits, ActionOf, RequestOf
<1>5. ObjectFits'
  BY <1>2 DEF ClientInv, ObjectFits
<1>6. MovesFit'
  <2>1. \A g, h \in Groups : MovesAlone(g, h)' => MovesAlone(g, h)
    BY <1>1 DEF MovesAlone, OnlyMoves, RequestOf
  <2>2. ASSUME NEW g \in Groups, NEW h \in Groups, MovesAlone(g, h)', NEW d \in Calls,
               client_call'[d].at \in HasAdded
        PROVE  h \in ad_object'.groups
    <3>1. MovesAlone(g, h)
      BY <2>1, <2>2
    <3>2. CASE d = c
      BY <1>2, <2>2, <3>1, <3>2
    <3>3. CASE d # c
      BY <1>2, <2>2, <3>1, <3>3 DEF ClientInv, MovesFit
    <3> QED
      BY <3>2, <3>3
  <2> QED
    BY <2>2 DEF MovesFit
<1> QED
  BY <1>3, <1>4, <1>5, <1>6 DEF ClientInv

\* A step that leaves the object alone, and is not the first of a removal.
LEMMA ObjectStays ==
  ASSUME ClientInv, UNCHANGED ad_object PROVE KeepsToRequest
BY DEF KeepsToRequest, FlagsAreKept, PasswordIsOwn, StaysMember

LEMMA MemoryStepKeeps ==
  ASSUME ClientInv, NEW c \in Calls, NEW call \in CallStates, Becomes(c, call),
         UNCHANGED ad_object, CallFits(c, call),
         call.known => ad_object.login = "asked",
         \A g, h \in Groups :
           MovesAlone(g, h) /\ call.at \in HasAdded => h \in ad_object.groups
  PROVE  ClientInv' /\ KeepsToRequest
<1>1. /\ ad_object' \in DirectoryObject
      /\ ad_object'.login = "none" => ad_object'.flags = {} /\ ad_object'.groups = {}
  BY DEF ClientInv, ClientTyped, ObjectFits
<1> QED
  BY <1>1, CallStepKeeps, ObjectStays

\* A call that keeps what it has read goes to another step.
LEMMA KeepsStep ==
  ASSUME ClientInv, NEW c \in Calls, NEW at \in Steps \cup Results, Keeps(c, at),
         CallFits(c, [client_call[c] EXCEPT !.at = at]),
         \A g, h \in Groups : MovesAlone(g, h) /\ at \in HasAdded => h \in ad_object.groups
  PROVE  ClientInv' /\ KeepsToRequest
<1> DEFINE next == [client_call[c] EXCEPT !.at = at]
<1>1. client_call[c] \in CallStates
  BY DEF ClientInv, ClientTyped
<1>2. next \in CallStates /\ next.at = at /\ next.known = client_call[c].known
  BY <1>1, CallAt
<1>3. Becomes(c, next) /\ UNCHANGED ad_object
  BY DEF Keeps, Goes
<1>4. next.known => ad_object.login = "asked"
  BY <1>2 DEF ClientInv, ObjectFits
<1>5. CallFits(c, next)
  OBVIOUS
<1> HIDE DEF next
<1> QED
  BY <1>2, <1>3, <1>4, <1>5, MemoryStepKeeps

\* A call that has reported a result asks for nothing more.
LEMMA ResultFits ==
  ASSUME ClientInv, NEW c \in Calls, NEW at \in Results
  PROVE  CallFits(c, [client_call[c] EXCEPT !.at = at]) /\ at \notin HasAdded
<1> DEFINE next == [client_call[c] EXCEPT !.at = at]
<1>1. client_call[c] \in CallStates
  BY DEF ClientInv, ClientTyped
<1>2. next.at = at
  BY <1>1, CallAt
<1> HIDE DEF next
<1>3. CallFits(c, next) /\ at \notin HasAdded
  BY <1>2 DEF CallFits, Results, HasAdded
<1> QED
  BY <1>3 DEF next

LEMMA Reported ==
  ASSUME NEW c \in Calls PROVE refused(c) \in Results /\ unconfirmed(c) \in Results
BY DEF refused, unconfirmed, Results

LEMMA ResultKeeps ==
  ASSUME ClientInv, NEW c \in Calls, NEW at \in Results, Keeps(c, at)
  PROVE  ClientInv' /\ KeepsToRequest
<1>1. at \in Steps \cup Results
  OBVIOUS
<1> QED
  BY <1>1, ResultFits, KeepsStep

LEMMA FailsKeeps ==
  ASSUME ClientInv, NEW c \in Calls, Fails(c) PROVE ClientInv' /\ KeepsToRequest
BY Reported, ResultKeeps DEF Fails

\* A change that is carried out, confirmed or not, or that is not.
LEMMA ChangeKeeps ==
  ASSUME ClientInv, NEW c \in Calls, NEW object \in DirectoryObject,
         NEW call \in CallStates, Change(c, object, call), CallFits(c, call),
         call.known => object.login = "asked",
         ad_object.login = "asked" => object.login = "asked",
         object.login = "none" => object.flags = {} /\ object.groups = {},
         \A g, h \in Groups : MovesAlone(g, h) =>
           /\ h \in ad_object.groups => h \in object.groups
           /\ call.at \in HasAdded => h \in object.groups
  PROVE  /\ ClientInv'
         /\ KeepsToRequest \/ ad_object' = object
<1>1. CASE ad_object' = object /\ Becomes(c, call)
  BY <1>1, CallStepKeeps
<1>2. CASE ad_object' = object /\ Goes(c, unconfirmed(c))
  <2> DEFINE next == [client_call[c] EXCEPT !.at = unconfirmed(c)]
  <2>1. client_call[c] \in CallStates /\ unconfirmed(c) \in Results
    BY Reported DEF ClientInv, ClientTyped
  <2>2. next \in CallStates /\ next.at = unconfirmed(c) /\ next.known = client_call[c].known
    BY <2>1, CallAt
  <2>3. CallFits(c, next) /\ unconfirmed(c) \notin HasAdded
    BY <2>1, ResultFits
  <2>4. Becomes(c, next)
    BY <1>2 DEF Goes
  <2>5. next.known => object.login = "asked"
    BY <2>2 DEF ClientInv, ObjectFits
  <2> HIDE DEF next
  <2> QED
    BY <1>2, <2>2, <2>3, <2>4, <2>5, CallStepKeeps
<1>3. CASE Fails(c)
  BY <1>3, FailsKeeps
<1> QED
  BY <1>1, <1>2, <1>3 DEF Change

\* The same for a call that only goes to another step, with an object that keeps its
\* user.
LEMMA ModifyKeeps ==
  ASSUME ClientInv, NEW c \in Calls, NEW object \in DirectoryObject,
         NEW at \in Steps \cup Results, Modify(c, object, at), Exists,
         CallFits(c, [client_call[c] EXCEPT !.at = at]),
         object.login = ad_object.login,
         \A g, h \in Groups : MovesAlone(g, h) =>
           /\ h \in ad_object.groups => h \in object.groups
           /\ at \in HasAdded => h \in object.groups
  PROVE  /\ ClientInv'
         /\ KeepsToRequest \/ ad_object' = object
<1> DEFINE next == [client_call[c] EXCEPT !.at = at]
<1>1. client_call[c] \in CallStates
  BY DEF ClientInv, ClientTyped
<1>2. next \in CallStates /\ next.at = at /\ next.known = client_call[c].known
  BY <1>1, CallAt
<1>3. Change(c, object, next) /\ CallFits(c, next)
  BY DEF Modify
<1>4. next.known => object.login = "asked"
  BY <1>2 DEF ClientInv, ObjectFits
<1>5. object.login # "none"
  BY DEF Exists
<1> HIDE DEF next
<1> QED
  BY <1>2, <1>3, <1>4, <1>5, ChangeKeeps

\* What a step changes of the call it belongs to.
LEMMA CallMoves ==
  ASSUME ClientInv, NEW c \in Calls, NEW object, NEW at \in Steps \cup Results,
         Modify(c, object, at), at # At(c), At(c) \notin Results
  PROVE  client_call'[c] # client_call[c] /\ UNCHANGED <<client_plan, client_edits>>
<1>1. client_call \in [Calls -> CallStates] /\ client_call[c] \in CallStates
  BY DEF ClientInv, ClientTyped
<1>2. PICK next \in Steps \cup Results :
        Goes(c, next) /\ (next = at \/ next \in Results)
  BY Reported DEF Modify, Change, Fails, Keeps, Goes
<1>3. client_call'[c] = [client_call[c] EXCEPT !.at = next]
  BY <1>1, <1>2 DEF Goes, Becomes
<1>4. client_call'[c].at = next
  BY <1>1, <1>3, CallAt
<1> QED
  BY <1>2, <1>4 DEF At, Goes, Becomes

-----------------------------------------------------------------------------
\* The first step belongs to the action.
LEMMA ExecuteKeeps ==
  ASSUME ClientInv, NEW c \in Calls, NEW recovery \in BOOLEAN, Execute(c, recovery)
  PROVE  ClientInv' /\ KeepsToRequest
<1> DEFINE at == first_step(c, recovery)
           next == [client_call[c] EXCEPT !.at = at]
<1>1. /\ client_call[c] \in CallStates /\ At(c) = "idle" /\ ActionOf(c) \in ClientActions
      /\ Keeps(c, at) \/ Keeps(c, "failed")
  BY ClientAssumption
  DEF ClientInv, ClientTyped, ClientAssumption, Execute, ActionOf, RequestOf, Request
<1>2. /\ at \in Steps /\ at \notin HasAdded
      /\ at \in {"reading"} => ActionOf(c) = "flag"
      /\ at \notin {"writing", "rereading", "plain_writing", "reading_back", "idle",
                    "compare_added", "removing", "rechecking", "compare_removed"}
      /\ at = "checking" => ActionOf(c) = "remove_group"
      /\ at = "adding_user" => ActionOf(c) = "create_user"
      /\ at = "adding" => ActionOf(c) = "add_group"
  BY <1>1 DEF first_step, Steps, HasAdded, ClientActions
<1>3. next.at = at /\ next.tries = client_call[c].tries
  BY <1>1, <1>2, CallAt
<1>4. client_call[c].tries < MaxUacWrites
  BY <1>1 DEF ClientInv, CallsFit, CallFits, At
<1> HIDE DEF next, at
<1>5. CallFits(c, next)
  BY <1>2, <1>3, <1>4 DEF CallFits
<1>6. CASE Keeps(c, at)
  BY <1>2, <1>5, <1>6, KeepsStep DEF next
<1>7. CASE Keeps(c, "failed")
  BY <1>7, ResultKeeps DEF Results
<1> QED
  BY <1>1, <1>6, <1>7

\* Flags: a call reads them, and writes what it has made of them if they are the same.
LEMMA ReadsKeep ==
  ASSUME ClientInv, NEW c \in Calls, ReadUac(c) \/ RereadUac(c)
  PROVE  ClientInv' /\ KeepsToRequest
<1>1. CASE Fails(c)
  BY <1>1, FailsKeeps
<1>2. ASSUME NEW at \in {"writing", "success", "plain_writing"},
             at = "writing" => At(c) = "reading",
             at # "writing" => At(c) = "rereading",
             Becomes(c, [client_call[c] EXCEPT !.at = at, !.current = ad_object.flags]),
             UNCHANGED ad_object
      PROVE  ClientInv' /\ KeepsToRequest
  <2> DEFINE next == [client_call[c] EXCEPT !.at = at, !.current = ad_object.flags]
  <2>1. /\ client_call[c] \in CallStates /\ ad_object.flags \in SUBSET Flags
        /\ at \in Steps \cup Results
    BY DEF ClientInv, ClientTyped, DirectoryObject, Steps, Results
  <2>2. /\ next \in CallStates /\ next.at = at /\ next.tries = client_call[c].tries
        /\ next.known = client_call[c].known
    BY ONLY <2>1, Zenon DEF CallStates
  <2>3. CallFits(c, client_call[c])
    BY DEF ClientInv, CallsFit
  <2>4. next.known => ad_object.login = "asked"
    BY <2>2 DEF ClientInv, ObjectFits
  <2>5. Becomes(c, next)
    BY <1>2
  <2> HIDE DEF next
  <2>6. CallFits(c, next)
    BY <1>2, <2>2, <2>3 DEF CallFits, At
  <2>7. at \notin HasAdded
    BY DEF HasAdded
  <2> QED
    BY <1>2, <2>2, <2>4, <2>5, <2>6, <2>7, MemoryStepKeeps
<1>3. CASE ReadUac(c)
  BY <1>1, <1>2, <1>3 DEF ReadUac
<1>4. CASE RereadUac(c)
  <2>1. \/ Fails(c)
        \/ \E at \in {"success", "plain_writing"} :
             /\ At(c) = "rereading" /\ UNCHANGED ad_object
             /\ Becomes(c, [client_call[c] EXCEPT !.at = at, !.current = ad_object.flags])
    <3>1. CASE uac_value(c, ad_object.flags) = ad_object.flags
      <4>1. \/ Fails(c)
            \/ /\ At(c) = "rereading" /\ UNCHANGED ad_object
               /\ Becomes(c, [client_call[c] EXCEPT !.current = ad_object.flags,
                                                    !.at = "success"])
        BY <1>4, <3>1 DEF RereadUac
      <4>2. [client_call[c] EXCEPT !.current = ad_object.flags, !.at = "success"]
              = [client_call[c] EXCEPT !.at = "success", !.current = ad_object.flags]
        BY DEF ClientInv, ClientTyped, CallStates
      <4> QED
        BY <4>1, <4>2
    <3>2. CASE uac_value(c, ad_object.flags) # ad_object.flags
      <4>1. \/ Fails(c)
            \/ /\ At(c) = "rereading" /\ UNCHANGED ad_object
               /\ Becomes(c, [client_call[c] EXCEPT !.current = ad_object.flags,
                                                    !.at = "plain_writing"])
        BY <1>4, <3>2 DEF RereadUac
      <4>2. [client_call[c] EXCEPT !.current = ad_object.flags, !.at = "plain_writing"]
              = [client_call[c] EXCEPT !.at = "plain_writing", !.current = ad_object.flags]
        BY DEF ClientInv, ClientTyped, CallStates
      <4> QED
        BY <4>1, <4>2
    <3> QED
      BY <3>1, <3>2
  <2> QED
    BY <1>1, <1>2, <2>1
<1> QED
  BY <1>3, <1>4

LEMMA AssertionFailsKeeps ==
  ASSUME ClientInv, NEW c \in Calls, AssertionFails(c)
  PROVE  ClientInv' /\ KeepsToRequest
<1> DEFINE tries == client_call[c].tries + 1
           at == IF ~ Exists \/ tries = MaxUacWrites THEN "failed" ELSE "reading"
           next == [client_call[c] EXCEPT !.tries = tries, !.at = at]
<1>1. /\ client_call[c] \in CallStates /\ At(c) = "writing" /\ UNCHANGED ad_object
      /\ Becomes(c, next) /\ CallFits(c, client_call[c])
  BY DEF AssertionFails, ClientInv, ClientTyped, CallsFit
<1>2. tries \in 0 .. MaxUacWrites /\ (at = "reading" => tries < MaxUacWrites)
  <2>1. client_call[c].tries \in 0 .. MaxUacWrites /\ client_call[c].tries < MaxUacWrites
    BY <1>1 DEF CallFits, At, CallStates
  <2> QED
    BY <2>1, ClientAssumption DEF ClientAssumption
<1>3. at \in {"failed", "reading"} /\ at \in Steps \cup Results /\ at \notin HasAdded
  BY DEF Steps, Results, HasAdded
<1> HIDE DEF at, tries
<1>4. /\ next \in CallStates /\ next.at = at /\ next.tries = tries
      /\ next.known = client_call[c].known
  BY ONLY <1>1, <1>2, <1>3, Zenon DEF CallStates
<1> HIDE DEF next
<1>5. CallFits(c, next)
  BY <1>1, <1>2, <1>3, <1>4 DEF CallFits, At
<1>6. next.known => ad_object.login = "asked"
  BY <1>4 DEF ClientInv, ObjectFits
<1> QED
  BY <1>1, <1>3, <1>4, <1>5, <1>6, MemoryStepKeeps

\* Steps that only go on to the next request or report a result.
LEMMA PlainSteps ==
  ASSUME ClientInv, NEW c \in Calls, NEW at \in Steps \cup Results, Keeps(c, at),
         \/ At(c) = "writing" /\ ~ client_plan.asserts /\ at = "rereading"
         \/ At(c) = "compare_added" /\ at = after_addition(c)
              /\ RequestOf(c).group \in ad_object.groups
         \/ At(c) = "adding" /\ at = "compare_added"
         \/ At(c) = "checking" /\ at = "removing"
         \/ At(c) = "rechecking" /\ at = "removing"
         \/ At(c) = "removing" /\ at = "compare_removed"
         \/ /\ At(c) = "checking_source" /\ at = "adding"
            /\ RequestOf(c).group # RequestOf(c).source
  PROVE  ClientInv' /\ KeepsToRequest
<1> DEFINE next == [client_call[c] EXCEPT !.at = at]
<1>1. client_call[c] \in CallStates /\ CallFits(c, client_call[c])
  BY DEF ClientInv, ClientTyped, CallsFit
<1>2. next.at = at
  BY <1>1, CallAt
<1> HIDE DEF next
<1>3. CallFits(c, next)
  BY <1>1, <1>2 DEF CallFits, At, after_addition
<1>4. ASSUME NEW g \in Groups, NEW h \in Groups, MovesAlone(g, h), at \in HasAdded
      PROVE  h \in ad_object.groups
  <2>1. /\ RequestOf(c).group = h /\ ActionOf(c) = "move_group"
        /\ At(c) \in HasAdded => h \in ad_object.groups
    BY <1>4 DEF MovesAlone, OnlyMoves, ActionOf, ClientInv, MovesFit, At
  <2>2. At(c) # "checking"
    BY <1>1, <2>1 DEF CallFits, At
  <2> QED
    BY <1>4, <2>1, <2>2 DEF HasAdded
<1> QED
  BY <1>3, <1>4, KeepsStep DEF next

\* The writes of a flag.
LEMMA WithFlags ==
  ASSUME ClientInv, NEW c \in Calls
  PROVE  /\ with_flags(c) \in DirectoryObject
         /\ with_flags(c).login = ad_object.login /\ with_flags(c).groups = ad_object.groups
         /\ with_flags(c).password = ad_object.password
         /\ with_flags(c).flags = uac_value(c, client_call[c].current)
<1>1. ad_object \in DirectoryObject /\ client_call[c].current \in SUBSET Flags
  BY DEF ClientInv, ClientTyped, CallStates
<1>2. RequestOf(c).flag \in Flags
  BY ClientAssumption DEF ClientInv, ClientTyped, ClientAssumption, RequestOf, Request
<1>3. uac_value(c, client_call[c].current) \in SUBSET Flags
  BY <1>1, <1>2 DEF uac_value
<1> QED
  BY <1>1, <1>3 DEF with_flags, DirectoryObject

LEMMA WritesKeep ==
  ASSUME ClientInv, NEW c \in Calls, WriteUac(c) \/ PlainWriteUac(c)
  PROVE  ClientInv' /\ KeepsToRequest
<1> DEFINE at == IF At(c) = "writing" THEN "success" ELSE "reading_back"
           next == [client_call[c] EXCEPT !.at = at]
<1>1. /\ client_call[c] \in CallStates /\ CallFits(c, client_call[c])
      /\ At(c) \in {"writing", "plain_writing"}
  BY DEF ClientInv, ClientTyped, CallsFit, WriteUac, PlainWriteUac
<1>2. at \in Steps \cup Results /\ at \notin HasAdded /\ at # At(c) /\ At(c) \notin Results
  BY <1>1 DEF Steps, Results, HasAdded
<1>3. ActionOf(c) = "flag" /\ (At(c) = "plain_writing" => ~ client_plan.asserts)
  BY <1>1 DEF CallFits, At
<1>4. next.at = at
  BY <1>1, <1>2, CallAt
<1>5. CallFits(c, next)
  <2> HIDE DEF next
  <2>1. at \in {"success", "reading_back"} /\ (at = "reading_back" => ~ client_plan.asserts)
    BY <1>1, <1>3
  <2> HIDE DEF at
  <2> QED
    BY <1>3, <1>4, <2>1 DEF CallFits
<1>6. CASE Fails(c)
  BY <1>6, FailsKeeps
<1>7. ASSUME Exists, Modify(c, with_flags(c), at),
             At(c) = "writing" => asserted(c) /\ client_plan.asserts
      PROVE  ClientInv' /\ KeepsToRequest
  <2>1. ClientInv' /\ (KeepsToRequest \/ ad_object' = with_flags(c))
    BY <1>2, <1>5, <1>7, WithFlags, ModifyKeeps
  <2>2. client_call'[c] # client_call[c]
    BY <1>2, <1>7, WithFlags, CallMoves
  <2>3. ASSUME ad_object' = with_flags(c) PROVE KeepsToRequest
    <3>1. FlagsAreKept
      <4>1. ASSUME client_plan.asserts PROVE ad_object'.flags = uac_value(c, ad_object.flags)
        BY <1>1, <1>3, <1>7, <2>3, <4>1, WithFlags DEF asserted
      <4> QED
        BY <1>3, <2>2, <4>1 DEF FlagsAreKept
    <3>2. PasswordIsOwn
      BY <2>3, WithFlags DEF PasswordIsOwn
    <3>3. StaysMember
      BY <2>3, WithFlags DEF StaysMember
    <3> QED
      BY <3>1, <3>2, <3>3 DEF KeepsToRequest
  <2> QED
    BY <2>1, <2>3
<1>8. CASE WriteUac(c)
  BY <1>7, <1>8 DEF WriteUac
<1>9. CASE PlainWriteUac(c)
  BY <1>6, <1>7, <1>9 DEF PlainWriteUac
<1> QED
  BY <1>8, <1>9

LEMMA FlagStepsKeep ==
  ASSUME ClientInv, NEW c \in Calls, ControlUnavailable(c) \/ ReadBack(c)
  PROVE  ClientInv' /\ KeepsToRequest
<1>1. "rereading" \in Steps /\ "success" \in Results
  BY DEF Steps, Results
<1>2. CASE ControlUnavailable(c)
  BY <1>1, <1>2, FailsKeeps, PlainSteps DEF ControlUnavailable
<1>3. CASE ReadBack(c)
  BY <1>1, <1>3, FailsKeeps, ResultKeeps DEF ReadBack
<1> QED
  BY <1>2, <1>3

\* Groups.
LEMMA MoveOfCall ==
  ASSUME ClientInv, NEW c \in Calls, NEW g \in Groups, NEW h \in Groups, OnlyMoves(g, h)
  PROVE  /\ ActionOf(c) = "move_group"
         /\ RequestOf(c).source = g /\ RequestOf(c).group = h
BY DEF OnlyMoves, ActionOf

\* A change of the groups that leaves everything else.
LEMMA GroupsChange ==
  ASSUME ClientInv, NEW c \in Calls, NEW groups \in SUBSET Groups, NEW at \in Steps \cup Results,
         Modify(c, [ad_object EXCEPT !.groups = groups], at), Exists,
         CallFits(c, [client_call[c] EXCEPT !.at = at]),
         \A g, h \in Groups : OnlyMoves(g, h) /\ client_edits = 0 =>
           /\ h \in ad_object.groups => h \in groups
           /\ at \in HasAdded => h \in groups
           /\ ad_object.groups \cap {g, h} # {} => groups \cap {g, h} # {}
  PROVE  ClientInv' /\ KeepsToRequest
<1> DEFINE object == [ad_object EXCEPT !.groups = groups]
<1>1. /\ object \in DirectoryObject /\ object.login = ad_object.login
      /\ object.groups = groups /\ object.flags = ad_object.flags
      /\ object.password = ad_object.password
  BY DEF ClientInv, ClientTyped, DirectoryObject
<1> HIDE DEF object
<1>2. Modify(c, object, at)
  BY DEF object
<1>3. ClientInv' /\ (KeepsToRequest \/ ad_object' = object)
  BY <1>1, <1>2, ModifyKeeps DEF MovesAlone
<1>4. UNCHANGED client_edits
  BY <1>2 DEF Modify, Change, Fails, Keeps, Goes, Becomes
<1>5. ASSUME ad_object' = object PROVE KeepsToRequest
  BY <1>1, <1>4, <1>5 DEF KeepsToRequest, FlagsAreKept, PasswordIsOwn, StaysMember
<1> QED
  BY <1>3, <1>5

LEMMA AddMemberKeeps ==
  ASSUME ClientInv, NEW c \in Calls, AddMember(c) PROVE ClientInv' /\ KeepsToRequest
<1> DEFINE group == RequestOf(c).group
           at == after_addition(c)
           next == [client_call[c] EXCEPT !.at = at]
<1>1. /\ client_call[c] \in CallStates /\ CallFits(c, client_call[c]) /\ At(c) = "adding"
      /\ group \in Groups /\ ad_object.groups \in SUBSET Groups
  BY ClientAssumption
  DEF ClientInv, ClientTyped, CallsFit, AddMember, ClientAssumption, RequestOf, Request,
      DirectoryObject
<1>2. at \in {"rechecking", "success"} /\ at \in Steps \cup Results
  BY DEF after_addition, Steps, Results
<1>3. next.at = at
  BY <1>1, <1>2, CallAt
<1>4. CallFits(c, next)
  <2> HIDE DEF next, at
  <2> QED
    BY <1>1, <1>2, <1>3 DEF CallFits, At
<1>5. ASSUME Exists, Modify(c, [ad_object EXCEPT !.groups = @ \cup {group}], at)
      PROVE  ClientInv' /\ KeepsToRequest
  <2> DEFINE groups == ad_object.groups \cup {group}
  <2>1. groups \in SUBSET Groups
    BY <1>1
  <2>2. Modify(c, [ad_object EXCEPT !.groups = groups], at)
    BY <1>5
  <2>3. \A g, h \in Groups : OnlyMoves(g, h) => h \in groups
    BY MoveOfCall
  <2> HIDE DEF next, at, groups
  <2>4. CallFits(c, [client_call[c] EXCEPT !.at = at])
    BY <1>4 DEF next
  <2> QED
    BY <1>2, <1>5, <2>1, <2>2, <2>3, <2>4, GroupsChange
<1>6. CASE Keeps(c, "compare_added")
  BY <1>1, <1>6, PlainSteps DEF Steps
<1> QED
  BY <1>5, <1>6, FailsKeeps DEF AddMember

LEMMA RemoveMemberKeeps ==
  ASSUME ClientInv, NEW c \in Calls, RemoveMember(c) PROVE ClientInv' /\ KeepsToRequest
<1> DEFINE group == RequestOf(c).source
           next == [client_call[c] EXCEPT !.at = "success"]
<1>1. /\ client_call[c] \in CallStates /\ CallFits(c, client_call[c]) /\ At(c) = "removing"
      /\ ad_object.groups \in SUBSET Groups
  BY DEF ClientInv, ClientTyped, CallsFit, RemoveMember, DirectoryObject
<1>2. "success" \in Results /\ "success" \in Steps \cup Results /\ "success" \notin HasAdded
      /\ CallFits(c, next)
  BY ResultFits DEF Results, HasAdded
<1>3. ASSUME Exists, Modify(c, [ad_object EXCEPT !.groups = @ \ {group}], "success")
      PROVE  ClientInv' /\ KeepsToRequest
  <2> DEFINE groups == ad_object.groups \ {group}
  <2>1. groups \in SUBSET Groups
    BY <1>1
  <2>2. Modify(c, [ad_object EXCEPT !.groups = groups], "success")
    BY <1>3
  <2>3. ASSUME NEW g \in Groups, NEW h \in Groups, OnlyMoves(g, h), client_edits = 0
        PROVE  h \in groups
    <3>1. /\ ActionOf(c) = "move_group"
          /\ RequestOf(c).source = g /\ RequestOf(c).group = h
      BY <2>3, MoveOfCall
    <3>2. h # g
      BY <1>1, <3>1 DEF CallFits, At
    <3>3. h \in ad_object.groups
      BY <1>1, <2>3 DEF ClientInv, MovesFit, MovesAlone, At, HasAdded
    <3> QED
      BY <3>1, <3>2, <3>3
  <2> HIDE DEF groups, next
  <2>4. CallFits(c, [client_call[c] EXCEPT !.at = "success"])
    BY <1>2 DEF next
  <2> QED
    BY <1>2, <1>3, <2>1, <2>2, <2>3, <2>4, GroupsChange
<1>4. CASE Keeps(c, "compare_removed")
  BY <1>1, <1>4, PlainSteps DEF Steps
<1> QED
  BY <1>3, <1>4, FailsKeeps DEF RemoveMember

LEMMA GroupChecksKeep ==
  ASSUME ClientInv, NEW c \in Calls, CompareAdded(c) \/ CheckRemovable(c) \/ CompareRemoved(c)
  PROVE  ClientInv' /\ KeepsToRequest
<1>1. /\ "adding" \in Steps /\ "removing" \in Steps /\ "success" \in Results
      /\ after_addition(c) \in Steps \cup Results
  BY DEF Steps, Results, after_addition
<1>2. CASE CompareAdded(c)
  BY <1>1, <1>2, FailsKeeps, PlainSteps DEF CompareAdded
<1>3. CASE CheckRemovable(c)
  BY <1>1, <1>3, FailsKeeps, PlainSteps DEF CheckRemovable
<1>4. CASE CompareRemoved(c)
  BY <1>1, <1>4, FailsKeeps, ResultKeeps DEF CompareRemoved
<1> QED
  BY <1>2, <1>3, <1>4

\* Users and passwords.
LEMMA KnownCall ==
  ASSUME ClientInv, NEW c \in Calls, NEW next,
         next = [client_call[c] EXCEPT !.at = "setting_password", !.known = TRUE]
  PROVE  /\ next \in CallStates /\ next.known /\ next.at = "setting_password"
         /\ CallFits(c, next) /\ next.at \notin HasAdded
<1>1. client_call[c] \in CallStates /\ "setting_password" \in Steps \cup Results
  BY DEF ClientInv, ClientTyped, Steps
<1>2. next \in CallStates /\ next.known = TRUE /\ next.at = "setting_password"
  BY ONLY <1>1, next = [client_call[c] EXCEPT !.at = "setting_password", !.known = TRUE], Zenon
  DEF CallStates
<1>3. CallFits(c, next) /\ next.at \notin HasAdded
  BY <1>2 DEF CallFits, HasAdded
<1> QED
  BY <1>2, <1>3

LEMMA AddUserKeeps ==
  ASSUME ClientInv, NEW c \in Calls, AddUser(c) PROVE ClientInv' /\ KeepsToRequest
<1> DEFINE next == [client_call[c] EXCEPT !.at = "setting_password", !.known = TRUE]
           object == [login |-> "asked", flags |-> {}, groups |-> {}, primary |-> NoGroup,
                      password |-> NoCall]
<1>1. At(c) = "adding_user" /\ ActionOf(c) = "create_user"
  BY DEF AddUser, ClientInv, CallsFit, CallFits, At
<1>2. /\ object \in DirectoryObject /\ object.login = "asked" /\ object.flags = {}
      /\ object.password = NoCall
  BY DEF DirectoryObject
<1>3. /\ next \in CallStates /\ next.known /\ next.at \notin HasAdded /\ CallFits(c, next)
  BY KnownCall
<1>4. \A g, h \in Groups : ~ OnlyMoves(g, h)
  BY <1>1, MoveOfCall
<1>5. CASE Fails(c)
  BY <1>5, FailsKeeps
<1>6. ASSUME ~ Exists, Change(c, object, next) PROVE ClientInv' /\ KeepsToRequest
  <2> HIDE DEF next, object
  <2>1. ClientInv' /\ (KeepsToRequest \/ ad_object' = object)
    BY <1>2, <1>3, <1>4, <1>6, ChangeKeeps DEF MovesAlone
  <2>2. ASSUME ad_object' = object PROVE KeepsToRequest
    <3>1. ad_object.flags = {}
      BY <1>6 DEF ClientInv, ObjectFits, Exists
    <3> QED
      BY <1>2, <1>4, <2>2, <3>1 DEF KeepsToRequest, FlagsAreKept, PasswordIsOwn, StaysMember
  <2> QED
    BY <2>1, <2>2
<1> QED
  BY <1>5, <1>6 DEF AddUser

LEMMA MatchUserKeeps ==
  ASSUME ClientInv, NEW c \in Calls, MatchUser(c) PROVE ClientInv' /\ KeepsToRequest
<1> DEFINE next == [client_call[c] EXCEPT !.at = "setting_password", !.known = TRUE]
<1>1. /\ next \in CallStates /\ next.known /\ next.at \notin HasAdded /\ CallFits(c, next)
  BY KnownCall
<1>2. CASE Fails(c)
  BY <1>2, FailsKeeps
<1>3. ASSUME ad_object.login = "asked", Becomes(c, next), UNCHANGED ad_object
      PROVE  ClientInv' /\ KeepsToRequest
  <2> HIDE DEF next
  <2> QED
    BY <1>1, <1>3, MemoryStepKeeps
<1> QED
  BY <1>2, <1>3 DEF MatchUser, created_user_matches

LEMMA SetPasswordKeeps ==
  ASSUME ClientInv, NEW c \in Calls, SetPassword(c) PROVE ClientInv' /\ KeepsToRequest
<1> DEFINE object == [ad_object EXCEPT !.password = c]
<1>1. /\ object \in DirectoryObject /\ object.login = ad_object.login
      /\ object.groups = ad_object.groups /\ object.flags = ad_object.flags
      /\ object.password = c
  BY DEF ClientInv, ClientTyped, DirectoryObject
<1>2. "success" \in Results /\ "success" \notin HasAdded
      /\ CallFits(c, [client_call[c] EXCEPT !.at = "success"])
  BY ResultFits DEF Results, HasAdded
<1>3. CASE Fails(c)
  BY <1>3, FailsKeeps
<1>4. ASSUME Exists, Modify(c, object, "success") PROVE ClientInv' /\ KeepsToRequest
  <2> HIDE DEF object
  <2>1. ClientInv' /\ (KeepsToRequest \/ ad_object' = object)
    BY <1>1, <1>2, <1>4, ModifyKeeps
  <2>2. client_call[c].known => ad_object.login = "asked"
    BY DEF ClientInv, ObjectFits
  <2>3. ASSUME ad_object' = object PROVE KeepsToRequest
    BY <1>1, <2>2, <2>3 DEF KeepsToRequest, FlagsAreKept, PasswordIsOwn, StaysMember
  <2> QED
    BY <2>1, <2>3
<1> QED
  BY <1>3, <1>4 DEF SetPassword

-----------------------------------------------------------------------------
\* Administrators change the object; no call is to blame for that.
LEMMA EditKeeps ==
  ASSUME ClientInv, NEW object \in DirectoryObject, ClientEdit(object),
         object.password \in {ad_object.password, NoCall},
         object.login = "none" => object.flags = {} /\ object.groups = {},
         \/ UNCHANGED client_call /\ object.login = ad_object.login
         \/ client_call' = [c \in Calls |-> [client_call[c] EXCEPT !.known = FALSE]]
  PROVE  ClientInv' /\ KeepsToRequest
<1>1. /\ client_edits < client_plan.edits /\ client_edits' = client_edits + 1
      /\ ad_object' = object /\ UNCHANGED client_plan
      /\ client_call \in [Calls -> CallStates]
  BY DEF ClientEdit, ClientInv, ClientTyped
<1>2. client_plan.edits \in Nat /\ client_edits \in Nat
  BY ClientAssumption DEF ClientInv, ClientTyped, ClientAssumption
<1>3. /\ client_edits' \in 0 .. client_plan.edits /\ client_edits' # 0
      /\ client_edits' # client_edits
  BY <1>1, <1>2
<1>4. /\ client_call' \in [Calls -> CallStates]
      /\ \A c \in Calls :
           /\ client_call'[c].at = client_call[c].at
           /\ client_call'[c].tries = client_call[c].tries
           /\ client_call'[c].known => client_call[c].known /\ object.login = ad_object.login
  <2>1. CASE UNCHANGED client_call /\ object.login = ad_object.login
    BY <1>1, <2>1
  <2>2. CASE client_call' = [c \in Calls |-> [client_call[c] EXCEPT !.known = FALSE]]
    <3>1. ASSUME NEW c \in Calls, NEW next, next = [client_call[c] EXCEPT !.known = FALSE]
          PROVE  /\ next \in CallStates /\ next.at = client_call[c].at
                 /\ next.tries = client_call[c].tries /\ next.known = FALSE
      <4>1. client_call[c] \in CallStates
        BY <1>1
      <4> QED
        BY ONLY <3>1, <4>1, Zenon DEF CallStates
    <3> QED
      BY <2>2, <3>1
  <2> QED
    BY <2>1, <2>2
<1>5. ClientTyped'
  BY <1>1, <1>3, <1>4 DEF ClientInv, ClientTyped
<1>6. CallsFit'
  BY <1>1, <1>4 DEF ClientInv, CallsFit, CallFits, ActionOf, RequestOf
<1>7. ObjectFits'
  BY <1>1, <1>4 DEF ClientInv, ObjectFits
<1>8. MovesFit'
  BY <1>3 DEF MovesFit, MovesAlone
<1>9. KeepsToRequest
  BY <1>1, <1>3 DEF KeepsToRequest, FlagsAreKept, PasswordIsOwn, StaysMember
<1> QED
  BY <1>5, <1>6, <1>7, <1>8, <1>9 DEF ClientInv

LEMMA EditsKeep ==
  ASSUME ClientInv,
         \/ \E f \in Flags : EditFlag(f)
         \/ \E g \in Groups : EditGroups(g) \/ EditPrimary(g)
         \/ \E login \in {"none", "other"} : EditUser(login)
  PROVE  ClientInv' /\ KeepsToRequest
<1>1. /\ ad_object \in DirectoryObject
      /\ ad_object.login = "none" => ad_object.groups = {}
  BY DEF ClientInv, ClientTyped, ObjectFits
<1>2. ASSUME NEW f \in Flags, EditFlag(f) PROVE ClientInv' /\ KeepsToRequest
  <2> DEFINE object == [ad_object EXCEPT !.flags = IF f \in @ THEN @ \ {f} ELSE @ \cup {f}]
  <2>1. /\ object \in DirectoryObject /\ object.login = ad_object.login
        /\ object.password = ad_object.password
    BY <1>1 DEF DirectoryObject
  <2>2. ClientEdit(object) /\ UNCHANGED client_call /\ object.login # "none"
    BY <1>2, <2>1 DEF EditFlag, Exists
  <2> HIDE DEF object
  <2> QED
    BY <2>1, <2>2, EditKeeps
<1>3. ASSUME NEW g \in Groups, EditGroups(g) PROVE ClientInv' /\ KeepsToRequest
  <2> DEFINE object == [ad_object EXCEPT !.groups = IF g \in @ THEN @ \ {g} ELSE @ \cup {g}]
  <2>1. /\ object \in DirectoryObject /\ object.login = ad_object.login
        /\ object.password = ad_object.password
    BY <1>1 DEF DirectoryObject
  <2>2. ClientEdit(object) /\ UNCHANGED client_call /\ object.login # "none"
    BY <1>3, <2>1 DEF EditGroups, Exists
  <2> HIDE DEF object
  <2> QED
    BY <2>1, <2>2, EditKeeps
<1>4. ASSUME NEW g \in Groups, EditPrimary(g) PROVE ClientInv' /\ KeepsToRequest
  <2> DEFINE object == [ad_object EXCEPT !.primary = g,
                          !.groups = (@ \ {g}) \cup ({ad_object.primary} \ {NoGroup})]
  <2>1. /\ object \in DirectoryObject /\ object.login = ad_object.login
        /\ object.password = ad_object.password
    BY <1>1 DEF DirectoryObject
  <2>2. ClientEdit(object) /\ UNCHANGED client_call /\ object.login # "none"
    BY <1>1, <1>4, <2>1 DEF EditPrimary
  <2> HIDE DEF object
  <2> QED
    BY <2>1, <2>2, EditKeeps
<1>5. ASSUME NEW login \in {"none", "other"}, EditUser(login) PROVE ClientInv' /\ KeepsToRequest
  <2> DEFINE object == [login |-> login, flags |-> {}, groups |-> {}, primary |-> NoGroup,
                        password |-> NoCall]
  <2>1. /\ object \in DirectoryObject /\ object.flags = {} /\ object.groups = {}
        /\ object.password = NoCall
    BY DEF DirectoryObject
  <2>2. /\ ClientEdit(object)
        /\ client_call' = [c \in Calls |-> [client_call[c] EXCEPT !.known = FALSE]]
    BY <1>5 DEF EditUser
  <2> HIDE DEF object
  <2> QED
    BY <2>1, <2>2, EditKeeps
<1> QED
  BY <1>2, <1>3, <1>4, <1>5

LEMMA ClientNextInv ==
  ASSUME ClientInv, [ClientNext]_clientVars PROVE ClientInv' /\ KeepsToRequest
<1>1. ASSUME NEW c \in Calls, ClientStep(c) PROVE ClientInv' /\ KeepsToRequest
  <2>1. CASE \E recovery \in BOOLEAN : Execute(c, recovery)
    BY <2>1, ExecuteKeeps
  <2>2. CASE ReadUac(c) \/ RereadUac(c) \/ WriteUac(c) \/ PlainWriteUac(c)
    BY <2>2, ReadsKeep, WritesKeep
  <2>3. CASE AssertionFails(c) \/ ControlUnavailable(c) \/ ReadBack(c)
    BY <2>3, AssertionFailsKeeps, FlagStepsKeep
  <2>4. CASE AddMember(c) \/ RemoveMember(c)
    BY <2>4, AddMemberKeeps, RemoveMemberKeeps
  <2>5. CASE CompareAdded(c) \/ CheckRemovable(c) \/ CompareRemoved(c)
    BY <2>5, GroupChecksKeep
  <2>6. CASE AddUser(c) \/ MatchUser(c) \/ SetPassword(c)
    BY <2>6, AddUserKeeps, MatchUserKeeps, SetPasswordKeeps
  <2> QED
    BY <1>1, <2>1, <2>2, <2>3, <2>4, <2>5, <2>6 DEF ClientStep
<1>2. CASE UNCHANGED clientVars
  <2>1. UNCHANGED <<client_plan, ad_object, client_call, client_edits>>
    BY <1>2 DEF clientVars
  <2>2. /\ ClientTyped' /\ CallsFit' /\ ObjectFits' /\ MovesFit'
    BY <2>1 DEF ClientInv, ClientTyped, CallsFit, CallFits, ActionOf, RequestOf, ObjectFits,
       MovesFit, MovesAlone, OnlyMoves
  <2> QED
    BY <2>1, <2>2, ObjectStays DEF ClientInv
<1> QED
  BY <1>1, <1>2, EditsKeep DEF ClientNext

LEMMA ClientInvTypes == ClientInv => ClientTypeOK
BY DEF ClientInv, ClientTyped, ClientTypeOK, CallStates

\* Calls of one user's operations, overlapping and beside administrators: on a server
\* with assertions a call changes the one flag it was asked for in the flags as they
\* are, a password reaches only the user it was meant for, and moves never leave the
\* user without both groups.
THEOREM RequestsAreKeptTo == ClientSpec => []ClientTypeOK /\ CallsKeepToTheirRequest
<1>1. ClientInit => ClientInv
  BY ClientInitInv
<1>2. ClientInv /\ [ClientNext]_clientVars => ClientInv'
  BY ClientNextInv
<1>3. ClientInv /\ [ClientNext]_clientVars => FlagsAreKept /\ PasswordIsOwn /\ StaysMember
  BY ClientNextInv DEF KeepsToRequest
<1>4. ClientInv => ClientTypeOK
  BY ClientInvTypes
<1> QED
  BY <1>1, <1>2, <1>3, <1>4, PTL DEF ClientSpec, CallsKeepToTheirRequest
=============================================================================
