---------------------------- MODULE PeopleSync -----------------------------
(***************************************************************************)
(* The people directory (net/people/tasks.py, net/people/executor.py and   *)
(* net/people/directory/sync.py): connection tests, previews that a person *)
(* confirms later, and scheduled synchronisations, of one source.          *)
(*                                                                         *)
(* A thread reads the source, fetches the directory without any lock,      *)
(* reads the source and the people again, computes the differences and     *)
(* signs them with the state they were computed from.  An application      *)
(* locks source and people and goes on only if nothing has changed.  A     *)
(* synchronisation is applied by its thread before the publication, which  *)
(* is fenced by the claim.  The queue itself is in TaskQueue: claims,      *)
(* recoveries and cancellations appear here as single steps, and a thread  *)
(* that sees its guard or dies is one that takes no further step.          *)
(***************************************************************************)
EXTENDS Naturals, FiniteSets

CONSTANTS
  Employees,        \* employee numbers
  Contents,         \* contents of a directory record
  Snapshots,        \* directories: a content, "absent" or "skipped" per employee
  Registers,        \* local people an instance may start with
  PeopleTasks,
  MaxPeopleAttempts,
  PeoplePlans,      \* how often each task may be claimed, 0 if it does not exist
  Null,             \* no row, no value
  MaxPeopleEdits    \* bound on what happens around: edits, directory changes

\* A local person.  claimable: entered by hand or from a file; own: written by
\* this source; other: written by another source.
Person == [owner : {"claimable", "own", "other"}, content : Contents,
           active : BOOLEAN, departed : BOOLEAN, synced : Nat]

ASSUME PeopleAssumption ==
  /\ Snapshots \subseteq [Employees -> Contents \cup {"absent", "skipped"}]
  /\ Registers \subseteq [Employees -> Person \cup {Null}]
  /\ {"absent", "skipped"} \cap Contents = {}
  /\ PeoplePlans \subseteq [PeopleTasks -> 0 .. MaxPeopleAttempts]
  /\ MaxPeopleAttempts \in Nat \ {0} /\ MaxPeopleEdits \in Nat
  /\ Null \notin {"test", "preview", "sync",
                 "queued", "running", "success", "failed", "cancelled"}

VARIABLES
  people,          \* the People rows
  people_source,   \* the PeopleSyncSource row; the secrets are its identity
  remote,          \* the directory of the provider
  people_plan,     \* the member of PeoplePlans (never changes)
  people_task,     \* TaskRun rows with their target
  people_thread,   \* the thread of each attempt of a task
  people_edits,    \* bounds the model
  last_apply       \* the directory that the last application wrote (history)

peopleVars == <<people, people_source, remote, people_plan, people_task, people_thread,
                people_edits, last_apply>>

NoTask   == [kind |-> Null, status |-> Null, attempt |-> 0, identity |-> 0,
             preview |-> Null, applied |-> {}]
NoPeopleThread == [stage |-> "idle"]

PeopleInit ==
  /\ people \in Registers
  /\ people_source = [is_enabled |-> TRUE, identity |-> 0, updated_at |-> 0,
                      last_synced_at |-> 0, tested |-> TRUE]
  /\ remote \in Snapshots
  /\ people_plan \in PeoplePlans
  /\ people_task = [t \in PeopleTasks |-> NoTask]
  /\ people_thread = [t \in PeopleTasks |-> [a \in 1 .. MaxPeopleAttempts |-> NoPeopleThread]]
  /\ people_edits = 0
  /\ last_apply = [task |-> Null, snapshot |-> Null]

-----------------------------------------------------------------------------
(* Differences between a directory and the local people.                   *)

in_directory(snapshot, e) == snapshot[e] \notin {"absent", "skipped"}

matches_record(person, content) == person.content = content /\ person.active

creates(rows, snapshot) == {e \in Employees : in_directory(snapshot, e) /\ rows[e] = Null}

updates(rows, snapshot) ==
  {e \in Employees : /\ in_directory(snapshot, e) /\ rows[e] # Null
                     /\ rows[e].owner \in {"own", "claimable"}
                     /\ ~ matches_record(rows[e], snapshot[e])}

conflicts(rows, snapshot) ==
  {e \in Employees : in_directory(snapshot, e) /\ rows[e] # Null /\ rows[e].owner = "other"}

\* Active people of the source that a complete directory neither has nor skips.
deactivations(rows, snapshot) ==
  {e \in Employees : /\ rows[e] # Null /\ rows[e].owner = "own" /\ rows[e].active
                     /\ snapshot[e] = "absent"}

\* The signed preview: the differences and the state they were computed from.
preview_of(rows, snapshot, config) ==
  [creates |-> creates(rows, snapshot), updates |-> updates(rows, snapshot),
   deactivations |-> deactivations(rows, snapshot), snapshot |-> snapshot,
   source_config |-> config, local_state |-> rows]

source_config(source) == <<source.is_enabled, source.identity, source.updated_at,
                           source.last_synced_at>>

\* Mutant: the local people are not compared.
is_current_SourceOnly(preview) == preview.source_config = source_config(people_source)

\* Source and people are what the preview was signed with.
is_current(preview) ==
  /\ preview.source_config = source_config(people_source)
  /\ preview.local_state = people

\* Rows as an application writes them.
written(content, departed, now) ==
  [owner |-> "own", content |-> content, active |-> TRUE, departed |-> departed, synced |-> now]

deactivated(row, now) ==
  [owner |-> row.owner, content |-> row.content, active |-> FALSE, departed |-> TRUE,
   synced |-> now]

\* The rows after the application of a preview.
applied_rows(preview, now) ==
  [e \in Employees |->
     IF e \in preview.creates THEN written(preview.snapshot[e], FALSE, now)
     ELSE IF e \in preview.updates
     THEN written(preview.snapshot[e], people[e].departed, now)
     ELSE IF e \in preview.deactivations THEN deactivated(people[e], now)
     ELSE people[e]]

apply_people_sync(t, preview) ==
  LET now == people_source.last_synced_at + 1
  IN /\ people' = applied_rows(preview, now)
     /\ people_source' = [people_source EXCEPT !.last_synced_at = now]
     /\ last_apply' = [task |-> t, snapshot |-> preview.snapshot]

-----------------------------------------------------------------------------
(* The queue.                                                              *)

source_matches_task(t) ==
  people_source.is_enabled /\ people_source.identity = people_task[t].identity

\* A test needs an enabled source, the other operations a current test as well;
\* one active task of each kind.
EnqueuePeople(t, kind) ==
  /\ people_task[t].status = Null /\ people_plan[t] > 0
  /\ people_source.is_enabled /\ (kind # "test" => people_source.tested)
  /\ \A u \in PeopleTasks : people_task[u].kind = kind
                              => people_task[u].status \notin {"queued", "running"}
  /\ people_task' = [people_task EXCEPT ![t] =
                       [kind |-> kind, status |-> "queued", attempt |-> 0,
                        identity |-> people_source.identity, preview |-> Null, applied |-> {}]]
  /\ UNCHANGED <<people, people_source, remote, people_plan, people_thread, people_edits,
                 last_apply>>

\* Columns that a claim, an application and a publication write; applied remembers
\* the attempts that have applied (history).
claimed_row(row, a) == [row EXCEPT !.status = "running", !.attempt = a]
applied_row(row, a) == [row EXCEPT !.applied = @ \cup {a}]
published_row(row, status, preview) == [row EXCEPT !.status = status, !.preview = preview]

\* The task is claimed and its target begun.
BeginPeople(t) ==
  /\ people_task[t].status = "queued"
  /\ LET a == people_task[t].attempt + 1
     IN /\ people_task' = [people_task EXCEPT ![t] = claimed_row(@, a)]
        /\ people_thread' = [people_thread EXCEPT ![t][a] = [stage |-> "begun"]]
  /\ UNCHANGED <<people, people_source, remote, people_plan, people_edits, last_apply>>

recovered_status(t) == IF people_task[t].attempt < people_plan[t] THEN "queued" ELSE "failed"

\* The lease has run out: another attempt, or a failure when there is none left.
\* The thread of the lost claim knows nothing of it.
RecoverPeople(t) ==
  /\ people_task[t].status = "running"
  /\ people_task' = [people_task EXCEPT ![t].status = recovered_status(t)]
  /\ UNCHANGED <<people, people_source, remote, people_plan, people_thread, people_edits,
                 last_apply>>

CancelPeople(t) ==
  /\ people_task[t].status \in {"queued", "running"}
  /\ people_task' = [people_task EXCEPT ![t].status = "cancelled"]
  /\ UNCHANGED <<people, people_source, remote, people_plan, people_thread, people_edits,
                 last_apply>>

-----------------------------------------------------------------------------
(* execute_people_target: the thread of attempt a.                         *)

GoesTo(t, a, thread) ==
  /\ people_thread' = [people_thread EXCEPT ![t][a] = thread]
  /\ UNCHANGED <<remote, people_plan, people_edits>>

\* The source is read and an adapter built from it.
StartFetch(t, a) ==
  /\ people_thread[t][a].stage = "begun"
  /\ GoesTo(t, a, [stage |-> IF source_matches_task(t) THEN "fetching" ELSE "failing"])
  /\ UNCHANGED <<people, people_source, people_task, last_apply>>

\* The provider delivers the whole directory, or fails, or delivers less.
Fetch(t, a) ==
  /\ people_thread[t][a].stage = "fetching"
  /\ \/ GoesTo(t, a, [stage |-> "failing"])
     \/ people_task[t].kind = "test" /\ GoesTo(t, a, [stage |-> "tested"])
     \/ people_task[t].kind # "test"
        /\ GoesTo(t, a, [stage |-> "fetched", snapshot |-> remote])
  /\ UNCHANGED <<people, people_source, people_task, last_apply>>

\* The source is read again after the fetch ...
ReadSource(t, a) ==
  /\ people_thread[t][a].stage = "fetched"
  /\ GoesTo(t, a,
       IF source_matches_task(t)
       THEN [stage |-> "source_read", snapshot |-> people_thread[t][a].snapshot,
             config |-> source_config(people_source)]
       ELSE [stage |-> "failing"])
  /\ UNCHANGED <<people, people_source, people_task, last_apply>>

\* ... and the people in a statement of its own.
ComputePreview(t, a) ==
  /\ people_thread[t][a].stage = "source_read"
  /\ LET thread == people_thread[t][a]
     IN GoesTo(t, a,
          IF conflicts(people, thread.snapshot) # {} THEN [stage |-> "failing"]
          ELSE [stage |-> "previewed",
                preview |-> preview_of(people, thread.snapshot, thread.config)])
  /\ UNCHANGED <<people, people_source, people_task, last_apply>>

refused_stage == "failing"

\* A synchronisation applies its own preview in a transaction that knows nothing
\* of the claim.  A preview that is too old is refused.
ApplySync(t, a) ==
  /\ people_thread[t][a].stage = "previewed" /\ people_task[t].kind = "sync"
  /\ \/ /\ is_current(people_thread[t][a].preview)
        /\ GoesTo(t, a, [stage |-> "applied"])
        /\ apply_people_sync(t, people_thread[t][a].preview)
        /\ people_task' = [people_task EXCEPT ![t] = applied_row(@, a)]
     \/ /\ GoesTo(t, a, [stage |-> refused_stage])
        /\ UNCHANGED <<people, people_source, people_task, last_apply>>

\* Mutant: the attempt is not compared.
holds_claim_AnyAttempt(t, a) == people_task[t].status = "running"

\* The fence of _publish.
holds_claim(t, a) == people_task[t].status = "running" /\ people_task[t].attempt = a

\* _publish: a source that has changed since makes the operation a failure.
PublishPeople(t, a) ==
  LET thread == people_thread[t][a]
      task   == people_task[t]
      status == IF thread.stage = "failing" \/ ~ source_matches_task(t) THEN "failed"
                ELSE "success"
  IN /\ \/ thread.stage \in {"failing", "tested", "applied"}
        \/ thread.stage = "previewed" /\ task.kind = "preview"
     /\ GoesTo(t, a, NoPeopleThread)
     /\ IF holds_claim(t, a)
        THEN /\ people_task' =
                  [people_task EXCEPT ![t] =
                     published_row(@, status, IF status = "success" /\ task.kind = "preview"
                                              THEN thread.preview ELSE Null)]
             /\ people_source' = [people_source EXCEPT !.tested =
                                    @ \/ (status = "success" /\ task.kind = "test")]
        ELSE UNCHANGED <<people_task, people_source>>
     /\ UNCHANGED <<people, last_apply>>

\* The publication raises (the database is away) after the operation has been done:
\* the Worker publishes a failure instead, although people may have been changed.
PublicationRaises(t, a) ==
  /\ people_thread[t][a].stage \in {"tested", "previewed", "applied"}
  /\ GoesTo(t, a, [stage |-> "failing"])
  /\ UNCHANGED <<people, people_source, people_task, last_apply>>

-----------------------------------------------------------------------------
(* apply_people_task: the owner of the session confirms a preview.         *)

is_confirmable(t) ==
  people_task[t].status = "success" /\ people_task[t].kind = "preview"
    /\ people_task[t].applied = {}

ConfirmPreview(t) ==
  /\ is_confirmable(t) /\ source_matches_task(t)
  /\ is_current(people_task[t].preview)
  /\ apply_people_sync(t, people_task[t].preview)
  /\ people_task' = [people_task EXCEPT ![t] = applied_row(@, @.attempt)]
  /\ UNCHANGED <<remote, people_plan, people_thread, people_edits>>

-----------------------------------------------------------------------------
(* What happens around.                                                    *)

PeopleEdit == people_edits < MaxPeopleEdits /\ people_edits' = people_edits + 1

\* The provider form locks the row; credentials and roots are the identity.  A form
\* that changes nothing saves nothing, any other moves updated_at.
EditSource(on, identity) ==
  /\ PeopleEdit /\ <<on, identity>> # <<people_source.is_enabled, people_source.identity>>
  /\ people_source' = [people_source EXCEPT !.is_enabled = on, !.identity = identity,
                         !.updated_at = @ + 1, !.tested = FALSE]
  /\ UNCHANGED <<people, remote, people_plan, people_task, people_thread, last_apply>>

\* A person is edited by hand.
EditPerson(e, content) ==
  /\ PeopleEdit /\ people[e] # Null /\ people[e].content # content
  /\ people' = [people EXCEPT ![e].content = content]
  /\ UNCHANGED <<people_source, remote, people_plan, people_task, people_thread, last_apply>>

\* import_csv: a file of people, all of it or nothing.  It takes over nobody that a
\* directory owns, and what it writes is entered from a file.
imported_row(e, content, active) ==
  [owner |-> "claimable", content |-> content, active |-> active,
   departed |-> people[e] # Null /\ people[e].departed, synced |-> 0]

ImportPeople(file, active) ==
  /\ PeopleEdit
  /\ \A e \in DOMAIN file : people[e] # Null => people[e].owner = "claimable"
  /\ people' = [e \in Employees |->
                  IF e \in DOMAIN file THEN imported_row(e, file[e], active) ELSE people[e]]
  /\ UNCHANGED <<people_source, remote, people_plan, people_task, people_thread, last_apply>>

DirectoryChanges ==
  /\ PeopleEdit /\ remote' \in Snapshots \ {remote}
  /\ UNCHANGED <<people, people_source, people_plan, people_task, people_thread, last_apply>>

PeopleThreadStep(t, a) ==
  \/ StartFetch(t, a) \/ Fetch(t, a) \/ ReadSource(t, a) \/ ComputePreview(t, a)
  \/ ApplySync(t, a) \/ PublishPeople(t, a) \/ PublicationRaises(t, a)

PeopleNext ==
  \/ \E t \in PeopleTasks :
       \/ \E kind \in {"test", "preview", "sync"} : EnqueuePeople(t, kind)
       \/ BeginPeople(t) \/ RecoverPeople(t) \/ CancelPeople(t) \/ ConfirmPreview(t)
       \/ \E a \in 1 .. MaxPeopleAttempts : PeopleThreadStep(t, a)
  \/ \E on \in BOOLEAN, identity \in {0, 1} : EditSource(on, identity)
  \/ \E e \in Employees, content \in Contents : EditPerson(e, content)
  \/ \E rows \in SUBSET Employees, active \in BOOLEAN :
       \E file \in [rows -> Contents] : ImportPeople(file, active)
  \/ DirectoryChanges

PeopleSpec == PeopleInit /\ [][PeopleNext]_peopleVars

-----------------------------------------------------------------------------
(* Properties.                                                             *)

\* Rows of people, source and tasks keep their types.
PeopleTypeOK ==
  /\ people \in [Employees -> Person \cup {Null}]
  /\ people_source \in [is_enabled : BOOLEAN, identity : Nat, updated_at : Nat,
                        last_synced_at : Nat, tested : BOOLEAN]
  /\ remote \in Snapshots
  /\ \A t \in PeopleTasks :
       /\ people_task[t].kind \in {Null, "test", "preview", "sync"}
       /\ people_task[t].status \in {Null, "queued", "running", "success", "failed", "cancelled"}
       /\ people_task[t].attempt \in 0 .. people_plan[t]
       /\ people_task[t].preview # Null => people_task[t].kind = "preview"
  /\ people_edits \in 0 .. MaxPeopleEdits

\* What a synchronisation with a directory makes of one row, said without the
\* differences: people of other sources are never touched.
synchronised(row, record, now) ==
  IF row = Null
  THEN IF record \in Contents THEN written(record, FALSE, now) ELSE Null
  ELSE IF row.owner = "other" THEN row
  ELSE IF record \in Contents
  THEN IF row.content = record /\ row.active THEN row ELSE written(record, row.departed, now)
  ELSE IF record = "absent" /\ row.owner = "own" /\ row.active THEN deactivated(row, now)
  ELSE row

\* Every application, by a thread or by a confirmation, makes of the people as they
\* are at that moment the synchronisation with one complete directory, whatever
\* was edited, applied or switched off between the fetch and the lock.
ApplyIsSynchronisation ==
  [][people_source'.last_synced_at # people_source.last_synced_at
       => /\ last_apply'.snapshot \in Snapshots
          /\ \A e \in Employees :
               people'[e] = synchronised(people[e], last_apply'.snapshot[e],
                                         people_source'.last_synced_at)]_peopleVars

\* A synchronisation that succeeded was applied by the attempt that published it,
\* with the configuration the task was created with; an application that an
\* earlier attempt made before it lost its claim does not count.
SuccessIsApplied ==
  \A t \in PeopleTasks :
    people_task[t].kind = "sync" /\ people_task[t].status = "success"
      => people_task[t].attempt \in people_task[t].applied
=============================================================================
