------------------------------ MODULE Retention ------------------------------
(***************************************************************************)
(* Retention of inspection records and of finished tasks                   *)
(* (net/inspections/retention.py, alert_processing_complete of             *)
(* net/infrastructure/retention.py), run by the maintenance of every       *)
(* Worker.  A task has one target and at most one record here, so a record *)
(* is named by its task; tasks are numbered in the order they finish.      *)
(***************************************************************************)
EXTENDS Naturals, FiniteSets

CONSTANTS
  RetainedAssets,          \* assets that are inspected
  RetentionSettings,
  RetentionDays,    \* RECORD_RETENTION_DAYS
  HistoryDays,      \* TaskHistoryConfig.current_days
  RecordLimit,      \* rows per call, a multiple of the pool of the Worker
  HistoryLimit,
  Sweepers,         \* Workers
  SteadySweepers,   \* Workers that do not die during a sweep
  HistoryPlans,     \* [finished, settings, sweepers, removals]: how many tasks finish,
                    \* with which settings, and how many records a person removes
  MaxHistory, MaxDay

ASSUME RetentionAssumption ==
  /\ RetentionDays \in [RetentionSettings -> Nat] /\ HistoryDays \in Nat
  /\ RecordLimit \in Nat \ {0} /\ HistoryLimit \in Nat \ {0}
  /\ MaxHistory \in Nat /\ MaxDay \in Nat /\ SteadySweepers \subseteq Sweepers
  /\ HistoryPlans \subseteq [finished : 0 .. MaxHistory, removals : Nat,
                             settings : SUBSET RetentionSettings,
                             sweepers : SUBSET Sweepers]

VARIABLES
  history_plan,   \* the member of HistoryPlans (never changes)
  day,
  past,           \* TaskRun and TaskTargetRun rows of the tasks
  record,         \* their inspection records
  sweep,          \* what each Worker has listed
  by_hand         \* devices a record of which was removed by a person (history)

retentionVars == <<history_plan, day, past, record, sweep, by_hand>>

HistoryIds == 1 .. MaxHistory
NoPast  == [status |-> "none", device |-> 0, setting |-> 0, finished_on |-> 0,
            alerts_processed |-> FALSE, pinned |-> FALSE]
Begun   == [stage |-> "records", settings |-> RetentionSettings, ids |-> {}]

RetentionInit ==
  /\ history_plan \in HistoryPlans
  /\ day = 0
  /\ past = [t \in HistoryIds |-> NoPast]
  /\ record = [t \in HistoryIds |-> "none"]
  /\ sweep = [w \in Sweepers |-> Begun]
  /\ by_hand = {}

-----------------------------------------------------------------------------
\* A task finishes, with a record unless its inspection failed early; a topology
\* batch or the row of a domain operation holds it for ever.
FinishTask(t, d, setting, stored, pinned) ==
  /\ t <= history_plan.finished /\ setting \in history_plan.settings
  /\ \A u \in HistoryIds : past[u].status = "none" <=> u >= t
  /\ past' = [past EXCEPT ![t] =
                [status |-> "finished", device |-> d, setting |-> setting, finished_on |-> day,
                 alerts_processed |-> FALSE, pinned |-> pinned]]
  /\ record' = [record EXCEPT ![t] = IF stored THEN "stored" ELSE "none"]
  /\ UNCHANGED <<history_plan, day, sweep, by_hand>>

\* Findings and summary of the task are processed; an alert holds the task as well.
ProcessPastAlerts(t, alert) ==
  /\ past[t].status = "finished" /\ ~ past[t].alerts_processed
  /\ past' = [past EXCEPT ![t].alerts_processed = TRUE, ![t].pinned = @ \/ alert]
  /\ UNCHANGED <<history_plan, day, record, sweep, by_hand>>

-----------------------------------------------------------------------------
(* cleanup_inspection_records.                                             *)

Stored(d) == {t \in HistoryIds : record[t] = "stored" /\ past[t].device = d}

is_newest(t) == \A u \in Stored(past[t].device) : u <= t

alerts_complete(t) == past[t].alerts_processed

Expired(t, setting) ==
  /\ record[t] = "stored" /\ past[t].setting = setting
  /\ past[t].finished_on + RetentionDays[setting] < day
  /\ ~ is_newest(t) /\ alerts_complete(t)

\* The first rows of a set.
FirstOf(ids, limit) == {t \in ids : Cardinality({u \in ids : u < t}) < limit}

\* Mutant: the first rows are taken before the newest records are excluded.
listed_BeforeExclusion(setting) ==
  LET old == {t \in HistoryIds : /\ record[t] = "stored" /\ past[t].setting = setting
                                 /\ past[t].finished_on + RetentionDays[setting] < day}
  IN {t \in FirstOf(old, RecordLimit) : Expired(t, setting)}

listed(setting) == FirstOf({t \in HistoryIds : Expired(t, setting)}, RecordLimit)

\* The expired records of one setting after the other are listed ...
ListExpired(w, setting) ==
  /\ sweep[w].stage = "records" /\ setting \in sweep[w].settings
  /\ w \in history_plan.sweepers
  /\ sweep' = [sweep EXCEPT ![w] =
                 [stage |-> IF listed(setting) = {} THEN "records" ELSE "deletion",
                  settings |-> @.settings \ {setting}, ids |-> listed(setting)]]
  /\ UNCHANGED <<history_plan, day, past, record, by_hand>>

deletable(w) == {t \in sweep[w].ids : record[t] = "stored" /\ alerts_complete(t)}

\* ... and deleted in a transaction that repeats only the condition on alerts.
DeleteExpired(w) ==
  /\ sweep[w].stage = "deletion"
  /\ record' = [t \in HistoryIds |-> IF t \in deletable(w) THEN "gone" ELSE record[t]]
  /\ sweep' = [sweep EXCEPT ![w].stage = "records", ![w].ids = {}]
  /\ UNCHANGED <<history_plan, day, past, by_hand>>

-----------------------------------------------------------------------------
(* cleanup_task_history.                                                   *)

OldTasks == {t \in HistoryIds : /\ past[t].status = "finished"
                                /\ past[t].finished_on + HistoryDays < day}

\* Mutant: a stored record holds its task, an alert, a batch or an operation does not.
referenced_RecordsOnly(t) == record[t] = "stored"

\* _strongly_referenced, of the task and of its target.
referenced(t) == past[t].pinned \/ record[t] = "stored"

\* The oldest tasks, whether they can be removed or not.
ListHistory(w) ==
  /\ sweep[w].stage = "records" /\ sweep[w].settings = {}
  /\ sweep' = [sweep EXCEPT ![w].stage = "history", ![w].ids = FirstOf(OldTasks, HistoryLimit)]
  /\ UNCHANGED <<history_plan, day, past, record, by_hand>>

\* One task after the other, each in its transaction, unless something refers to it.
RemoveTask(w) ==
  /\ sweep[w].stage = "history"
  /\ IF sweep[w].ids = {} THEN sweep' = [sweep EXCEPT ![w] = Begun] /\ UNCHANGED past
     ELSE LET t == CHOOSE t \in sweep[w].ids : \A u \in sweep[w].ids : t <= u
          IN /\ sweep' = [sweep EXCEPT ![w].ids = @ \ {t}]
             /\ past' = IF past[t].status = "finished" /\ ~ referenced(t)
                        THEN [past EXCEPT ![t].status = "removed"]
                        ELSE past
  /\ UNCHANGED <<history_plan, day, record, by_hand>>

\* The Worker dies.
SweepDies(w) ==
  /\ w \notin SteadySweepers /\ sweep[w] # Begun
  /\ sweep' = [sweep EXCEPT ![w] = Begun]
  /\ UNCHANGED <<history_plan, day, past, record, by_hand>>

-----------------------------------------------------------------------------
\* A person deletes a record in the administration.
RemoveByHand(t) ==
  /\ record[t] = "stored" /\ Cardinality(by_hand) < history_plan.removals
  /\ record' = [record EXCEPT ![t] = "gone"]
  /\ by_hand' = by_hand \cup {past[t].device}
  /\ UNCHANGED <<history_plan, day, past, sweep>>

NextDay ==
  /\ day < MaxDay /\ day' = day + 1
  /\ UNCHANGED <<history_plan, past, record, sweep, by_hand>>

SweepStep(w) ==
  \/ DeleteExpired(w) \/ ListHistory(w) \/ RemoveTask(w)
  \/ \E s \in RetentionSettings : ListExpired(w, s)

RetentionNext ==
  \/ \E t \in HistoryIds :
       \/ \E d \in RetainedAssets, s \in RetentionSettings, stored, pinned \in BOOLEAN :
            FinishTask(t, d, s, stored, pinned)
       \/ RemoveByHand(t) \/ \E alert \in BOOLEAN : ProcessPastAlerts(t, alert)
  \/ \E w \in Sweepers : SweepStep(w) \/ SweepDies(w)
  \/ NextDay

\* Both sweeps belong to every maintenance pass.
RetentionFairness == \A w \in SteadySweepers : WF_retentionVars(SweepStep(w))

RetentionSpec     == RetentionInit /\ [][RetentionNext]_retentionVars
FairRetentionSpec == RetentionSpec /\ RetentionFairness

-----------------------------------------------------------------------------
(* Properties.                                                             *)

\* Rows and sweeps keep their types.
RetentionTypeOK ==
  /\ day \in 0 .. MaxDay
  /\ \A t \in HistoryIds :
       /\ past[t].status \in {"none", "finished", "removed"}
       /\ past[t].status = "finished"
            => past[t].device \in RetainedAssets /\ past[t].finished_on <= day
       /\ record[t] \in {"none", "stored", "gone"}
  /\ \A w \in Sweepers :
       /\ sweep[w].stage \in {"records", "deletion", "history"}
       /\ sweep[w].ids \subseteq HistoryIds /\ sweep[w].settings \subseteq RetentionSettings
       /\ sweep[w].stage = "records" => sweep[w].ids = {}
  /\ by_hand \subseteq RetainedAssets

\* The record from which the device lists show a status is never lost to retention:
\* however many Workers sweep, a device that had a record has one, unless a person
\* removed one of its records.  (A removal between the two statements makes a listed
\* record the newest, and the DELETE does not look again.)
NewestRecordStays ==
  \A d \in RetainedAssets \ by_hand :
    (\E t \in HistoryIds : record[t] = "gone" /\ past[t].device = d) => Stored(d) # {}

\* Whatever refers to a task keeps it, also when it appeared after a Worker had listed
\* the task: a topology batch, a domain operation, an alert that was made of its
\* results (pinned), or a record that is still stored.
ReferencedTasksStay ==
  \A t \in HistoryIds :
    /\ past[t].pinned => past[t].status # "removed"
    /\ record[t] = "stored" => past[t].status = "finished"

\* A record whose alerts were not processed is never deleted by a sweep, also when a
\* Worker works on a list that another one has made out of date.
PendingAlertsKeepRecord ==
  \A t \in HistoryIds :
    record[t] = "gone" /\ past[t].status = "finished" /\ past[t].device \notin by_hand
      => past[t].alerts_processed

\* What is still needed stays: the newest record of a device, a record with pending
\* alerts, and a task that something refers to.
NothingNeededGoes == NewestRecordStays /\ ReferencedTasksStay /\ PendingAlertsKeepRecord

\* Every record that has expired goes, although a pass lists a few rows only.
RecordsExpire ==
  \A t \in HistoryIds, s \in RetentionSettings :
    Expired(t, s) ~> record[t] = "gone" \/ is_newest(t)
=============================================================================
