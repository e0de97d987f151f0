------------------------------- MODULE PcLogs -------------------------------
(***************************************************************************)
(* The logs of one PC and their analyses: ingestion                        *)
(* (net/devices/pc/ingestion.py), selection and queueing                   *)
(* (net/devices/pc/analysis_scope.py, enqueue_task of                      *)
(* net/inspections/queue.py), execution (net/devices/pc/executor.py) and   *)
(* retention (net/devices/pc/retention.py), with one analysis profile.     *)
(*                                                                         *)
(* Uploads, queueing, publication and cleaning lock the Computer row; the  *)
(* settings of the upload and the logs a thread analyses are read without  *)
(* it.  Claims, recoveries and cancellations of TaskQueue appear as single *)
(* steps; a thread that dies is one that takes no further step.            *)
(***************************************************************************)
EXTENDS Naturals, Sequences

CONSTANTS
  LogContents,         \* what a PC may upload
  StampOf,          \* collected_at of each content
  StampsPerDay,
  Uploaders,        \* web processes
  PcPlans,          \* [uploads, analyses, attempts, edits]: what an instance has
  MaxAnalyses,      \* bounds on these
  MaxPcAttempts

ASSUME PcLogsAssumption ==
  /\ StampOf \in [LogContents -> Nat] /\ StampsPerDay \in Nat \ {0}
  /\ MaxAnalyses \in Nat /\ MaxPcAttempts \in Nat
  /\ PcPlans \subseteq [uploads : Nat, analyses : 0 .. MaxAnalyses,
                        attempts : 0 .. MaxPcAttempts, edits : Nat]
  /\ \A plan \in PcPlans : plan.analyses > 0 => plan.attempts > 0

VARIABLES
  pc_plan,         \* the member of PcPlans (never changes)
  pc_config,       \* PCUploadConfig: is_enabled, log_retention; and the
                   \* analysis_retention of the profile
  pc_logs,         \* ComputerLogFile rows: pk, content, retained
  last_report_at,  \* Computer.last_report_at
  upload,          \* the request each web process is busy with
  selected_log,    \* the log a person or a schedule has selected, 0 for none
  analysis_task,   \* TaskRun rows with their target, in the order of creation
  analysis_thread, \* the thread of each attempt
  analyses,        \* ComputerAnalysis rows; one analysis is active at a time and has
                   \* one row at most, so that the tasks are in the order of creation
  today,
  pc_edits,        \* bound the model
  pc_uploads,
  created_logs     \* the content of every row ever created, by pk (history)

pcVars == <<pc_plan, pc_config, pc_logs, last_report_at, upload, selected_log, analysis_task,
            analysis_thread, analyses, today, pc_edits, pc_uploads, created_logs>>

Modes         == {"daily_latest", "all"}
AnalysisIds   == 1 .. MaxAnalyses
NoUpload      == [stage |-> "idle"]
NoAnalysisTask == [status |-> "none", attempt |-> 0, log |-> 0, retention |-> "all",
                   missing |-> FALSE]
NoAnalysisThread == [stage |-> "idle", day |-> 0]
day_of(content) == StampOf[content] \div StampsPerDay

PcInit ==
  /\ pc_plan \in PcPlans
  /\ pc_config = [is_enabled |-> TRUE, log_retention |-> "daily_latest",
                  analysis_retention |-> "daily_latest"]
  /\ pc_logs = {} /\ last_report_at = 0 /\ created_logs = << >>
  /\ upload = [w \in Uploaders |-> NoUpload]
  /\ selected_log = 0
  /\ analysis_task = [t \in AnalysisIds |-> NoAnalysisTask]
  /\ analysis_thread = [t \in AnalysisIds |-> [a \in 1 .. MaxPcAttempts |-> NoAnalysisThread]]
  /\ analyses = {}
  /\ today = 0 /\ pc_edits = 0 /\ pc_uploads = 0

is_active(t) == analysis_task[t].status \in {"queued", "running"}

-----------------------------------------------------------------------------
(* Logs.                                                                   *)

Newer(row, other) ==
  \/ StampOf[row.content] > StampOf[other.content]
  \/ StampOf[row.content] = StampOf[other.content] /\ row.pk > other.pk

\* latest_logs: the newest retained log.
latest_logs(rows) ==
  {row \in rows : row.retained /\ \A other \in rows : other.retained => ~ Newer(other, row)}

\* Mutant: a superseded log is deleted although a task still needs it.
in_use_Never(row) == FALSE

in_use(row) == \E t \in AnalysisIds : is_active(t) /\ analysis_task[t].log = row.pk

cleanup_logs_for_computer(rows) == {row \in rows : row.retained \/ in_use(row)}

\* A terminal uploads a log.  The settings are read before the Computer is locked.
LoadUploadConfig(w, content) ==
  /\ upload[w].stage = "idle" /\ pc_uploads < pc_plan.uploads
  /\ pc_uploads' = pc_uploads + 1
  /\ upload' = [upload EXCEPT ![w] = [stage |-> "loaded", content |-> content,
                                      config |-> pc_config]]
  /\ UNCHANGED <<pc_plan, pc_config, pc_logs, last_report_at, selected_log, analysis_task,
                 analysis_thread, analyses, today, pc_edits, created_logs>>

has_newer(rows, content) == \E row \in rows : StampOf[row.content] >= StampOf[content]

\* Retained logs of the same day.
daily(content) == {row \in pc_logs : row.retained /\ day_of(row.content) = day_of(content)}

\* The transaction of ingest_log.
PersistUpload(w) ==
  LET content == upload[w].content
      latest  == upload[w].config.log_retention = "daily_latest"
      new     == [pk |-> Len(created_logs) + 1, content |-> content, retained |-> TRUE]
      others  == {IF latest /\ row \in daily(content) THEN [row EXCEPT !.retained = FALSE]
                  ELSE row : row \in pc_logs}
  IN /\ upload[w].stage = "loaded"
     /\ upload' = [upload EXCEPT ![w] = NoUpload]
     /\ IF ~ upload[w].config.is_enabled THEN UNCHANGED <<pc_logs, last_report_at, created_logs>>
        ELSE /\ last_report_at' = IF StampOf[content] >= last_report_at THEN StampOf[content]
                                  ELSE last_report_at
             /\ IF \/ \E row \in pc_logs : row.content = content
                   \/ latest /\ has_newer(daily(content), content)
                THEN UNCHANGED <<pc_logs, created_logs>>
                ELSE /\ created_logs' = Append(created_logs, content)
                     /\ pc_logs' = IF latest
                                   THEN cleanup_logs_for_computer(others \cup {new})
                                   ELSE others \cup {new}
     /\ UNCHANGED <<pc_plan, pc_config, selected_log, analysis_task, analysis_thread, analyses,
                    today, pc_edits, pc_uploads>>

\* cleanup_retained_logs, in the maintenance of any Worker.
CleanupRetainedLogs ==
  /\ \E row \in pc_logs : ~ row.retained
  /\ pc_logs' = cleanup_logs_for_computer(pc_logs)
  /\ UNCHANGED <<pc_plan, pc_config, last_report_at, upload, selected_log, analysis_task,
                 analysis_thread, analyses, today, pc_edits, pc_uploads, created_logs>>

-----------------------------------------------------------------------------
(* Analysis tasks.                                                         *)

\* A page or a schedule selects a log; the task is created later.
SelectLog ==
  /\ \E row \in pc_logs : row.retained /\ selected_log' = row.pk
  /\ UNCHANGED <<pc_plan, pc_config, pc_logs, last_report_at, upload, analysis_task,
                 analysis_thread, analyses, today, pc_edits, pc_uploads, created_logs>>

\* enqueue_task: the latest log under the lock of the Computer, whichever was
\* selected; refused when the selected log is gone or the profile already has an
\* active task for the PC.
EnqueueAnalysis(t) ==
  /\ selected_log # 0 /\ selected_log' = 0
  /\ t <= pc_plan.analyses
  /\ \A u \in AnalysisIds : analysis_task[u].status = "none" <=> u >= t
  /\ IF /\ \E row \in pc_logs : row.pk = selected_log
        /\ \A u \in AnalysisIds : ~ is_active(u)
     THEN \E row \in latest_logs(pc_logs) :
            analysis_task' = [analysis_task EXCEPT ![t] =
                                [status |-> "queued", attempt |-> 0, log |-> row.pk,
                                 retention |-> pc_config.analysis_retention,
                                 missing |-> FALSE]]
     ELSE UNCHANGED analysis_task
  /\ UNCHANGED <<pc_plan, pc_config, pc_logs, last_report_at, upload, analysis_thread,
                 analyses, today, pc_edits, pc_uploads, created_logs>>

BeginAnalysis(t) ==
  /\ analysis_task[t].status = "queued"
  /\ analysis_task' = [analysis_task EXCEPT ![t].status = "running", ![t].attempt = @ + 1]
  /\ analysis_thread' = [analysis_thread EXCEPT ![t][analysis_task[t].attempt + 1].stage =
                           "begun"]
  /\ UNCHANGED <<pc_plan, pc_config, pc_logs, last_report_at, upload, selected_log, analyses,
                 today, pc_edits, pc_uploads, created_logs>>

RecoverAnalysis(t) ==
  /\ analysis_task[t].status = "running"
  /\ analysis_task' = [analysis_task EXCEPT ![t].status =
                         IF analysis_task[t].attempt < pc_plan.attempts THEN "queued"
                         ELSE "failed"]
  /\ UNCHANGED <<pc_plan, pc_config, pc_logs, last_report_at, upload, selected_log,
                 analysis_thread, analyses, today, pc_edits, pc_uploads, created_logs>>

CancelAnalysis(t) ==
  /\ is_active(t)
  /\ analysis_task' = [analysis_task EXCEPT ![t].status = "cancelled"]
  /\ UNCHANGED <<pc_plan, pc_config, pc_logs, last_report_at, upload, selected_log,
                 analysis_thread, analyses, today, pc_edits, pc_uploads, created_logs>>

\* execute_computer_target reads the log and prepares the analysis, dated today,
\* outside any transaction; a log without a matching person is ignored, and the
\* calculation may fail.
PrepareLog(t, a) ==
  /\ analysis_thread[t][a].stage = "begun"
  /\ \E stage \in IF \E row \in pc_logs : row.pk = analysis_task[t].log
                  THEN {"prepared", "ignored", "failing"} ELSE {"missing"} :
       analysis_thread' = [analysis_thread EXCEPT ![t][a] = [stage |-> stage, day |-> today]]
  /\ UNCHANGED <<pc_plan, pc_config, pc_logs, last_report_at, upload, selected_log,
                 analysis_task, analyses, today, pc_edits, pc_uploads, created_logs>>

\* The fence of _persist_analysis and _failure.
holds_analysis_claim(t, a) ==
  analysis_task[t].status = "running" /\ analysis_task[t].attempt = a

alert_processing_complete(row) == row.alerts_processed

Keep(row, removable) == ~ (removable /\ alert_processing_complete(row))

\* persist_analysis: the result and, if only the latest of a day is kept, the
\* removal of the others whose alerts have been processed.
PublishAnalysis(t, a) ==
  LET thread == analysis_thread[t][a]
      row    == [task |-> t, day |-> thread.day, retention |-> analysis_task[t].retention,
                 alerts_processed |-> FALSE]
      kept(r) == analysis_task[t].retention = "all"
                   \/ Keep(r, r.day = thread.day)
  IN /\ thread.stage \in {"prepared", "ignored", "failing", "missing"}
     /\ analysis_thread' = [analysis_thread EXCEPT ![t][a] = NoAnalysisThread]
     /\ IF ~ holds_analysis_claim(t, a) THEN UNCHANGED <<analysis_task, analyses>>
        ELSE /\ analysis_task' = [analysis_task EXCEPT
                  ![t].status = IF thread.stage \in {"failing", "missing"} THEN "failed"
                                ELSE "success",
                  ![t].missing = thread.stage = "missing"]
             /\ analyses' = IF thread.stage = "prepared"
                            THEN {r \in analyses : kept(r)} \cup {row} ELSE analyses
     /\ UNCHANGED <<pc_plan, pc_config, pc_logs, last_report_at, upload, selected_log, today,
                    pc_edits, pc_uploads, created_logs>>

\* The findings of a target and the summary of its task are processed (AlertEvidence).
ProcessAnalysisAlerts ==
  /\ \E row \in analyses :
       /\ ~ row.alerts_processed
       /\ analyses' = (analyses \ {row}) \cup {[row EXCEPT !.alerts_processed = TRUE]}
  /\ UNCHANGED <<pc_plan, pc_config, pc_logs, last_report_at, upload, selected_log,
                 analysis_task, analysis_thread, today, pc_edits, pc_uploads, created_logs>>

\* A newer result of the day was made under daily_latest.
superseded(row) ==
  \E other \in analyses : /\ other.task > row.task /\ other.day = row.day
                          /\ other.retention = "daily_latest"

\* cleanup_analysis_results, for what could not be removed at publication.
CleanupAnalysisResults ==
  /\ \E row \in analyses : ~ Keep(row, superseded(row))
  /\ analyses' = {row \in analyses : Keep(row, superseded(row))}
  /\ UNCHANGED <<pc_plan, pc_config, pc_logs, last_report_at, upload, selected_log,
                 analysis_task, analysis_thread, today, pc_edits, pc_uploads, created_logs>>

-----------------------------------------------------------------------------
\* The two forms are saved.
EditPcConfig ==
  /\ pc_edits < pc_plan.edits /\ pc_edits' = pc_edits + 1
  /\ pc_config' \in [is_enabled : BOOLEAN, log_retention : Modes, analysis_retention : Modes]
  /\ UNCHANGED <<pc_plan, pc_logs, last_report_at, upload, selected_log, analysis_task,
                 analysis_thread, analyses, today, pc_uploads, created_logs>>

Midnight ==
  /\ today = 0 /\ today' = 1
  /\ UNCHANGED <<pc_plan, pc_config, pc_logs, last_report_at, upload, selected_log,
                 analysis_task, analysis_thread, analyses, pc_edits, pc_uploads, created_logs>>

PcNext ==
  \/ \E w \in Uploaders : PersistUpload(w) \/ \E c \in LogContents : LoadUploadConfig(w, c)
  \/ SelectLog \/ CleanupRetainedLogs \/ CleanupAnalysisResults \/ ProcessAnalysisAlerts
  \/ \E t \in AnalysisIds :
       \/ EnqueueAnalysis(t) \/ BeginAnalysis(t) \/ RecoverAnalysis(t) \/ CancelAnalysis(t)
       \/ \E a \in 1 .. MaxPcAttempts : PrepareLog(t, a) \/ PublishAnalysis(t, a)
  \/ EditPcConfig \/ Midnight

PcSpec == PcInit /\ [][PcNext]_pcVars

-----------------------------------------------------------------------------
(* Properties.                                                             *)

\* Rows keep their types; content hashes are unique.
PcTypeOK ==
  /\ \A row \in pc_logs : /\ row.pk \in DOMAIN created_logs
                          /\ row.content = created_logs[row.pk] /\ row.retained \in BOOLEAN
  /\ \A row, other \in pc_logs : row.content = other.content => row = other
  /\ last_report_at \in Nat /\ selected_log \in 0 .. Len(created_logs)
  /\ \A t \in AnalysisIds :
       /\ analysis_task[t].status \in {"none", "queued", "running", "success", "failed",
                                       "cancelled"}
       /\ analysis_task[t].attempt \in 0 .. pc_plan.attempts
       /\ analysis_task[t].log \in 0 .. Len(created_logs)
  /\ \A row \in analyses : /\ row.task \in AnalysisIds /\ row.alerts_processed \in BOOLEAN
                           /\ analysis_task[row.task].status = "success"
  /\ \A row, other \in analyses : row.task = other.task => row = other

\* The newest log a PC has delivered stays the latest one, whatever order logs
\* arrive in and however often the retention setting changes; one log a day is
\* deleted only for a later one of that day.
NewestLogIsLatest ==
  /\ \A pk \in DOMAIN created_logs :
       \E row \in pc_logs : /\ row.retained /\ day_of(row.content) = day_of(created_logs[pk])
                            /\ StampOf[row.content] >= StampOf[created_logs[pk]]
  /\ created_logs # << >> => \A row \in latest_logs(pc_logs) :
                               \A pk \in DOMAIN created_logs :
                                 StampOf[created_logs[pk]] <= StampOf[row.content]

\* The log of an active analysis is kept, though a newer one has superseded it since
\* the task was created; no analysis fails because its log was cleaned away.
AnalysedLogIsKept ==
  \A t \in AnalysisIds :
    /\ is_active(t) => \E row \in pc_logs : row.pk = analysis_task[t].log
    /\ ~ analysis_task[t].missing

\* Both hold together, for uploads, analyses and a setting that changes in between.
LogsAreKept == NewestLogIsLatest /\ AnalysedLogIsKept

\* A result goes away only when its alerts have been processed, and the last result
\* of a day never does, whoever removes: a publication or the maintenance.
LastAnalysisStays ==
  \A row \in analyses :
    (\A other \in analyses' : other.task # row.task)
      => /\ row.alerts_processed
         /\ \E other \in analyses' : other.day = row.day /\ other.task > row.task

\* Neither what still counts nor what is still in use is cleaned away, log or result.
NeededLogsStay == [][LogsAreKept' /\ LastAnalysisStays]_pcVars
=============================================================================
