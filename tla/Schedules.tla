----------------------------- MODULE Schedules -----------------------------
(***************************************************************************)
(* Database schedules (net/inspections/schedules.py, the Schedule rows of  *)
(* net/models/tasks.py and the forms that edit them).                      *)
(*                                                                         *)
(* Every Worker polls the due schedules: it lists them, then handles each  *)
(* in a transaction of its own that locks the row, checks again that it is *)
(* due, enqueues the task and moves next_run_at.  A refused enqueue rolls  *)
(* back; its outcome is classified and written afterwards.  Tasks end, an  *)
(* administrator switches devices and edits schedules meanwhile.           *)
(***************************************************************************)
EXTENDS Naturals, Sequences, FiniteSets

CONSTANTS
  DeviceSchedules,   \* schedules of inspection profiles, whose form reads the
                     \* row without locking it
  BoundSchedules,    \* schedules of a people source or of the domain, whose
                     \* form locks the row
  Assets,            \* devices of the inspected type
  SelectorOf,        \* target_selector: [mode, ids] of each device schedule
  TimingOf,          \* [kind, value] of each schedule
  DayLength,         \* ticks of a day
  MaxTime,           \* the clock stops here
  Pollers,           \* Workers
  SteadyPollers,     \* Workers that do not die while they poll
  Editors,           \* web requests that edit device schedules
  Deployments,       \* [schedules, workers, editors] an instance may have
  MaxInterventions   \* bound on what people do: edits, switches, manual tasks

AllSchedules == DeviceSchedules \cup BoundSchedules

ASSUME SchedulesAssumption ==
  /\ SelectorOf \in [DeviceSchedules -> [mode : {"all", "selected", "filtered"},
                                         ids : SUBSET Assets]]
  /\ TimingOf \in [AllSchedules -> [kind : {"interval", "daily"}, value : Nat]]
  /\ \A s \in AllSchedules : TimingOf[s].kind = "interval" => TimingOf[s].value > 0
  /\ DeviceSchedules \cap BoundSchedules = {}
  /\ DayLength \in Nat \ {0} /\ MaxTime \in Nat \ {0} /\ MaxInterventions \in Nat
  /\ SteadyPollers \subseteq Pollers
  /\ Deployments \subseteq [schedules : SUBSET AllSchedules, workers : SUBSET Pollers,
                           editors : SUBSET Editors]

VARIABLES
  deployment,      \* what of these there is (never changes)
  schedule,        \* the rows; 0 stands for a null time
  enabled_assets,  \* devices with is_enabled
  ready,           \* bound schedules whose source may be synchronised now
  active,          \* tasks with an active_scope_key
  poll_clock,
  poll,            \* what each Worker remembers of its poll
  draft,           \* the row an open edit has read, if any
  interventions,   \* what people have done so far (bounds the model)
  runs             \* available_at of the last two scheduled tasks (history)

schedulesVars == <<deployment, schedule, enabled_assets, ready, active, poll_clock, poll,
                   draft,
                   interventions, runs>>

NoDraft == [open |-> FALSE]
Row     == [enabled : BOOLEAN, next_run_at : Nat, last_enqueued_at : Nat,
            last_attempt_at : Nat, last_status : {"", "queued", "blocked", "error"}]
Idle    == [stage |-> "idle", now |-> 0, due |-> {}, refused |-> {}, blocked |-> FALSE]

SchedulesInit ==
  /\ deployment \in Deployments
  /\ schedule = [s \in AllSchedules |->
                   [enabled |-> TRUE, next_run_at |-> 0, last_enqueued_at |-> 0,
                    last_attempt_at |-> 0, last_status |-> ""]]
  /\ enabled_assets = Assets
  /\ ready = BoundSchedules
  /\ active = {}
  /\ poll_clock = 1
  /\ poll = [p \in Pollers |-> Idle]
  /\ draft = [e \in Editors |-> NoDraft]
  /\ interventions = 0
  /\ runs = [s \in AllSchedules |-> <<0, 0>>]

-----------------------------------------------------------------------------
(* Calculations.                                                           *)

\* The first occurrence strictly after a time.
next_occurrence(s, after) ==
  LET day == (after \div DayLength) * DayLength + TimingOf[s].value
  IN IF TimingOf[s].kind = "interval" THEN after + TimingOf[s].value
     ELSE IF day <= after THEN day + DayLength
     ELSE day

is_due(row, now) == row.next_run_at = 0 \/ row.next_run_at <= now

\* The devices a profile selects, switched-off ones excluded.  The empty set
\* stands for a refusal: a selected device is gone or nothing is left.
selected_target_ids(s) ==
  LET selector == SelectorOf[s]
  IN CASE selector.mode = "all" -> enabled_assets
       [] selector.mode = "selected" ->
            IF selector.ids \subseteq enabled_assets THEN selector.ids ELSE {}
       [] selector.mode = "filtered" -> selector.ids \cap enabled_assets

\* The scope key of the task that s would enqueue now: the profile and, for an
\* inspection, the exact targets.
scope_of(s) == <<s, IF s \in DeviceSchedules THEN selected_target_ids(s) ELSE {}>>

\* The task can be enqueued: targets or a usable source, and no active task of
\* the same scope.
can_enqueue(s) ==
  /\ IF s \in DeviceSchedules THEN selected_target_ids(s) # {} ELSE s \in ready
  /\ \A t \in active : t.scope # scope_of(s)

\* _has_active_schedule_scope: by the scope for inspections, by the schedule of
\* the task for the others.
has_active_schedule_scope(s) ==
  IF s \in DeviceSchedules
  THEN selected_target_ids(s) # {} /\ \E t \in active : t.scope = scope_of(s)
  ELSE \E t \in active : t.scope = scope_of(s) /\ t.scheduled

-----------------------------------------------------------------------------
(* enqueue_due_schedules.                                                  *)

\* The clock is read and the due schedules are listed.
ListDue(p) ==
  /\ poll[p].stage = "idle" /\ p \in deployment.workers
  /\ \E s \in deployment.schedules : schedule[s].enabled /\ is_due(schedule[s], poll_clock)
  /\ poll' = [poll EXCEPT ![p] =
                [Idle EXCEPT !.stage = "poll", !.now = poll_clock,
                   !.due = {s \in deployment.schedules :
                              schedule[s].enabled /\ is_due(schedule[s], poll_clock)}]]
  /\ UNCHANGED <<deployment, schedule, enabled_assets, ready, active, poll_clock, draft,
                 interventions, runs>>

\* Mutant: a schedule that cannot be enqueued ends the poll.
after_refusal_Stop(p, s) == {}

\* The rest of the poll goes on.
after_refusal(p, s) == poll[p].due \ {s}

\* Mutant: the listed row is not checked again under its lock.
row_is_due_Listed(row, now) == TRUE

\* The check repeated under the row lock.
row_is_due(row, now) == row.enabled /\ is_due(row, now)

\* One transaction: the row is locked and checked again, the task enqueued, the
\* row moved to its next occurrence.
EnqueueDue(p, s) ==
  LET now == poll[p].now
      row == schedule[s]
  IN /\ poll[p].stage = "poll" /\ s \in poll[p].due
     /\ IF ~ row_is_due(row, now)
        THEN /\ poll' = [poll EXCEPT ![p].due = @ \ {s}]
             /\ UNCHANGED <<deployment, schedule, active, runs>>
        ELSE IF ~ can_enqueue(s)
        THEN /\ poll' = [poll EXCEPT ![p].stage = "refused", ![p].refused = {s},
                                     ![p].due = after_refusal(p, s)]
             /\ UNCHANGED <<deployment, schedule, active, runs>>
        ELSE /\ poll' = [poll EXCEPT ![p].due = @ \ {s}]
             /\ active' = active \cup {[scope |-> scope_of(s), scheduled |-> TRUE]}
             /\ schedule' = [schedule EXCEPT ![s] =
                               [row EXCEPT !.next_run_at = next_occurrence(s, now),
                                           !.last_enqueued_at = now,
                                           !.last_attempt_at = now,
                                           !.last_status = "queued"]]
             /\ runs' = [runs EXCEPT ![s] = <<@[2], now>>]
     /\ UNCHANGED <<deployment, enabled_assets, ready, poll_clock, draft, interventions>>

\* The transaction has rolled back; why it was refused is read from the tables
\* as they are now.
Classify(p) ==
  /\ poll[p].stage = "refused"
  /\ \E s \in poll[p].refused :
       poll' = [poll EXCEPT ![p].stage = "classified",
                            ![p].blocked = has_active_schedule_scope(s)]
  /\ UNCHANGED <<deployment, schedule, enabled_assets, ready, active, poll_clock, draft,
                 interventions, runs>>

\* The row is still due for this attempt, and no later attempt is recorded.
still_current(row, now) == is_due(row, now) /\ row.last_attempt_at < now

refusal_status(blocked) == IF blocked THEN "blocked" ELSE "error"

\* _record_schedule_failure: one conditional UPDATE.
RecordFailure(p) ==
  /\ poll[p].stage = "classified"
  /\ \E s \in poll[p].refused :
       schedule' = [schedule EXCEPT ![s] =
                      IF still_current(@, poll[p].now)
                      THEN [@ EXCEPT !.last_attempt_at = poll[p].now,
                                     !.last_status = refusal_status(poll[p].blocked)]
                      ELSE @]
  /\ poll' = [poll EXCEPT ![p].stage = "poll", ![p].refused = {}, ![p].blocked = FALSE]
  /\ UNCHANGED <<deployment, enabled_assets, ready, active, poll_clock, draft,
                 interventions, runs>>

EndPoll(p) ==
  /\ poll[p].stage = "poll" /\ poll[p].due = {}
  /\ poll' = [poll EXCEPT ![p] = Idle]
  /\ UNCHANGED <<deployment, schedule, enabled_assets, ready, active, poll_clock, draft,
                 interventions, runs>>

\* The process dies between two transactions; what it had listed is forgotten.
PollerDies(p) ==
  /\ p \notin SteadyPollers /\ poll[p].stage # "idle"
  /\ poll' = [poll EXCEPT ![p] = Idle]
  /\ UNCHANGED <<deployment, schedule, enabled_assets, ready, active, poll_clock, draft,
                 interventions, runs>>

-----------------------------------------------------------------------------
(* The forms.                                                              *)

Intervention ==
  interventions < MaxInterventions /\ interventions' = interventions + 1

\* _save_schedule reads the schedule of a device profile without a lock ...
OpenEdit(e, s) ==
  /\ ~ draft[e].open /\ e \in deployment.editors /\ s \in deployment.schedules
  /\ Intervention
  /\ draft' = [draft EXCEPT ![e] = [open |-> TRUE, schedule |-> s, row |-> schedule[s]]]
  /\ UNCHANGED <<deployment, schedule, enabled_assets, ready, active, poll_clock, poll,
                 runs>>

\* ... and writes every column back, with a new time when the timing has changed.
SaveEdit(e, on) ==
  /\ draft[e].open
  /\ LET s == draft[e].schedule
         d == draft[e].row
     IN schedule' =
          [schedule EXCEPT ![s] =
             IF ~ on THEN IF d.enabled THEN [@ EXCEPT !.enabled = FALSE] ELSE @
             ELSE IF d.enabled THEN d
             ELSE [d EXCEPT !.enabled = TRUE,
                            !.next_run_at = next_occurrence(s, poll_clock)]]
  /\ draft' = [draft EXCEPT ![e] = NoDraft]
  /\ UNCHANGED <<deployment, enabled_assets, ready, active, poll_clock, poll,
                 interventions, runs>>

\* save_people_schedule holds the row locked.  The form of the domain schedule does
\* not: it writes the columns of the last attempt back as it has read them, which
\* nothing below says of bound schedules.
EditBound(s, on) ==
  /\ s \in deployment.schedules /\ Intervention
  /\ schedule' = [schedule EXCEPT ![s].enabled = on,
                    ![s].next_run_at = IF on THEN next_occurrence(s, poll_clock) ELSE 0]
  /\ UNCHANGED <<deployment, enabled_assets, ready, active, poll_clock, poll, draft, runs>>

-----------------------------------------------------------------------------
(* What goes on around the schedules.                                      *)

EnqueueManually(s) ==
  /\ s \in deployment.schedules /\ can_enqueue(s) /\ Intervention
  /\ active' = active \cup {[scope |-> scope_of(s), scheduled |-> FALSE]}
  /\ UNCHANGED <<deployment, schedule, enabled_assets, ready, poll_clock, poll, draft,
                 runs>>

TaskEnds(t) ==
  /\ active' = active \ {t}
  /\ UNCHANGED <<deployment, schedule, enabled_assets, ready, poll_clock, poll, draft,
                 interventions, runs>>

SwitchAsset(a) ==
  /\ Intervention
  /\ enabled_assets' = IF a \in enabled_assets THEN enabled_assets \ {a}
                       ELSE enabled_assets \cup {a}
  /\ UNCHANGED <<deployment, schedule, ready, active, poll_clock, poll, draft, runs>>

\* The connection test of a source goes out of date or is repeated; a domain
\* operation begins or ends.
SourceChanges(s) ==
  /\ s \in deployment.schedules /\ Intervention
  /\ ready' = IF s \in ready THEN ready \ {s} ELSE ready \cup {s}
  /\ UNCHANGED <<deployment, schedule, enabled_assets, active, poll_clock, poll, draft,
                 runs>>

ScheduleTick ==
  /\ poll_clock < MaxTime
  /\ poll_clock' = poll_clock + 1
  /\ UNCHANGED <<deployment, schedule, enabled_assets, ready, active, poll, draft,
                 interventions, runs>>

-----------------------------------------------------------------------------
PollerStep(p) ==
  \/ ListDue(p) \/ Classify(p) \/ RecordFailure(p) \/ EndPoll(p)
  \/ \E s \in AllSchedules : EnqueueDue(p, s)

SchedulesNext ==
  \/ \E p \in Pollers : PollerStep(p) \/ PollerDies(p)
  \/ \E e \in Editors : \/ \E s \in DeviceSchedules : OpenEdit(e, s)
                        \/ \E on \in BOOLEAN : SaveEdit(e, on)
  \/ \E s \in BoundSchedules : SourceChanges(s) \/ \E on \in BOOLEAN : EditBound(s, on)
  \/ \E s \in AllSchedules : EnqueueManually(s)
  \/ \E t \in active : TaskEnds(t)
  \/ \E a \in Assets : SwitchAsset(a)
  \/ ScheduleTick

\* Workers poll and every task ends, which queue_liveness shows; nothing is
\* assumed of people and their edits.
SchedulesFairness ==
  /\ \A p \in SteadyPollers : WF_schedulesVars(PollerStep(p))
  /\ \A s \in AllSchedules :
       WF_schedulesVars(\E t \in active : t.scope[1] = s /\ TaskEnds(t))

SchedulesSpec     == SchedulesInit /\ [][SchedulesNext]_schedulesVars
FairSchedulesSpec == SchedulesSpec /\ SchedulesFairness

-----------------------------------------------------------------------------
(* Properties.                                                             *)

\* Rows, drafts and polls keep their types.
SchedulesTypeOK ==
  /\ deployment \in Deployments
  /\ schedule \in [AllSchedules -> Row]
  /\ enabled_assets \subseteq Assets /\ ready \subseteq BoundSchedules
  /\ active \subseteq [scope : AllSchedules \X SUBSET Assets, scheduled : BOOLEAN]
  /\ poll_clock \in 1 .. MaxTime
  /\ \A p \in Pollers :
       /\ poll[p].stage \in {"idle", "poll", "refused", "classified"}
       /\ poll[p].now \in 0 .. MaxTime
       /\ poll[p].due \subseteq AllSchedules
       /\ poll[p].stage \in {"refused", "classified"} <=> Cardinality(poll[p].refused) = 1
  /\ interventions \in 0 .. MaxInterventions
  /\ runs \in [AllSchedules -> Nat \X Nat]

\* Two tasks of a schedule never belong to the same occurrence: however many
\* Workers poll it, with clocks read at whatever time, the next task is not due
\* before the occurrence after the previous one.
Spaced(s) == runs[s][1] # 0 => next_occurrence(s, runs[s][1]) <= runs[s][2]

BoundRunsAreSpaced == \A s \in BoundSchedules : Spaced(s)

\* A recorded refusal concerns an occurrence after the last task of the schedule:
\* a slow Worker never hides a task that another one has enqueued meanwhile.  The
\* form of a bound schedule clears next_run_at when it is switched off, and a
\* cleared time counts as due, so this is said of device schedules.
RefusalIsCurrent ==
  \A s \in DeviceSchedules :
    LET row == schedule[s]
    IN row.last_status \in {"blocked", "error"} /\ row.last_enqueued_at # 0
         => next_occurrence(s, row.last_enqueued_at) <= row.last_attempt_at

\* What pollers write concerns the current occurrence, however old the list and the
\* clock they act on: no occurrence gets a second task, no refusal hides a later task.
OccurrencesAreKept == BoundRunsAreSpaced /\ RefusalIsCurrent

\* A due schedule that can run is not left behind by schedules that cannot: it is
\* enqueued unless it is edited, its source or selection fails, or someone keeps
\* its scope busy.
DueSchedulesRun ==
  \A s \in AllSchedules :
    s \in deployment.schedules /\ schedule[s].enabled /\ is_due(schedule[s], poll_clock)
      ~> \/ ~ schedule[s].enabled \/ ~ is_due(schedule[s], poll_clock)
         \/ IF s \in DeviceSchedules THEN selected_target_ids(s) = {} ELSE s \notin ready
=============================================================================
