--------------------------- MODULE AlertEvidence ---------------------------
(***************************************************************************)
(* From target results to alert states, station events and the task        *)
(* summary (net/alerts/service.py, net/alerts/task_summaries.py).          *)
(*                                                                         *)
(* A target that has ended is processed once: its findings move the alert  *)
(* states of its device and are recorded as at most one abnormal and one   *)
(* recovery event.  The executor does that right after it has published    *)
(* the result; every Worker's maintenance cycle replays what a crash or a  *)
(* failure left behind, oldest attempt first.  A task whose targets are    *)
(* all processed gets one summary.                                         *)
(***************************************************************************)
EXTENDS Naturals, FiniteSets, SequencesExt

CONSTANTS
  Tasks, Targets,
  Inventories,  \* what the task rows may look like, see inventory
  Items,        \* items that may be graded, identity_match by an analysis only
  Workers,      \* processes running the maintenance cycle
  Reliable,     \* the ones that do not die
  Poison,       \* targets whose processing raises every time
  Limit,        \* rows one reconciliation pass lists
  NoResult, NoSummary

ASSUME AlertEvidenceAssumption == IsFiniteSet(Targets)

COLLECTION == "inspection_collection"
FAILURE    == "execution.failure"
IDENTITY   == "identity_match"
Keys       == Items \cup {COLLECTION, FAILURE}

\* A persisted result.  issues are graded ("info" or anything worse), normal
\* are the items found normal (normal_issue_items, or the analysed items).
Issue  == (Items \cup {COLLECTION}) \X {"info", "alarm"}
Result == [type : {"inspection", "plain_inspection", "computer_analysis", "none"},
           status : {"success", "partial", "failed", "cancelled"},
           issues : SUBSET Issue, normal : SUBSET (Items \cup {COLLECTION})]

TERMINAL(r) == r # NoResult

VARIABLES
  \* The immutable columns of the rows: the task of each target, the type of each
  \* task ("inspection", "computer_analysis" or "sync") and, as device, the profile
  \* or configuration with the asset or with the computer a log came from.
  inventory,
  result, finished_at,      \* TaskTargetRun: outcome and the order of finishing
  closed,                   \* the tasks with a terminal status, as they ended
  alert_processed,          \* targets with alert_processed_at set
  retried,                  \* unprocessed targets by alert_attempted_at
  observed,                 \* what the processed findings said of each key
  state, last_seen_at,      \* AlertState rows by scope and key
  events,                   \* station events of targets
  summary,                  \* the summary event of each task
  summary_retried,          \* tasks without summary, by alert_summary_attempted_at
  phase, todo               \* each Worker's place in the cycle and its list

targetVars  == <<inventory, result, finished_at, closed>>
alertVars   == <<alert_processed, observed, state, last_seen_at, events>>
summaryVars == <<summary, summary_retried>>
vars == <<targetVars, alertVars, retried, summaryVars, phase, todo>>

TaskOf       == inventory.task
KindOf       == inventory.type
TargetsOf(t) == {x \in Targets : TaskOf[x] = t}
Items_of(r)  == {i[1] : i \in r.issues}

\* _target_scope: whose alert states a result moves.  An analysis speaks of the
\* computer its log came from, anything else of the target itself.
LogTarget(x)     == KindOf[TaskOf[x]] = "computer_analysis"
TargetScope(x)   == IF LogTarget(x) THEN <<"log", x>>
                                    ELSE <<"device", inventory.device[x]>>
ComputerScope(x) == <<"computer", inventory.device[x]>>
Scopes           == {TargetScope(x) : x \in Targets}
                    \cup {ComputerScope(x) : x \in {y \in Targets : LogTarget(y)}}

ScopeOf == [x \in Targets |->
              IF result[x] # NoResult /\ result[x].type = "computer_analysis"
              THEN ComputerScope(x) ELSE TargetScope(x)]

-----------------------------------------------------------------------------
(* findings_for_target and _normalised_findings: what a result says of a   *)
(* key, "none" when it says nothing.                                       *)

\* A collection that did not fully succeed is abnormal unless it was graded itself.
collection_failed(r) ==
  /\ r.type \in {"inspection", "plain_inspection"} /\ r.status # "success"
  /\ COLLECTION \notin Items_of(r)

says_abnormal(r, k) ==
  \/ <<k, "alarm">> \in r.issues
  \/ k = COLLECTION /\ collection_failed(r)
  \/ k = FAILURE /\ r.type = "none" /\ r.status \in {"failed", "partial"}

says_normal(r, k) ==
  k \in r.normal \/ (k = COLLECTION /\ r.type = "plain_inspection" /\ r.status = "success")

\* Mutant: an item is normal although it was graded, or its run was incomplete.
finding_state_Reachable(r, k) ==
  IF says_normal(r, k) THEN "normal"
  ELSE IF says_abnormal(r, k) THEN "abnormal"
  ELSE IF k \in Items_of(r) THEN "unknown" ELSE "none"

finding_state(r, k) ==
  IF says_abnormal(r, k) THEN "abnormal"
  ELSE IF k \in Items_of(r) THEN "unknown"
  ELSE IF says_normal(r, k) THEN "normal" ELSE "none"

-----------------------------------------------------------------------------
(* The results the executors publish.                                      *)

\* evaluate_device_issues: an unreachable device has the one collection issue;
\* otherwise an item is graded, normal or unjudged, and an incomplete run
\* without any issue is graded as a collection issue.
InspectionResults ==
  {[type |-> "inspection", status |-> "failed", issues |-> {<<COLLECTION, s>>},
    normal |-> {}] : s \in {"info", "alarm"}}
  \cup
  {r \in Result :
     /\ r.type = "inspection"
     /\ r.status \in {"success", "partial"}
     /\ IDENTITY \notin r.normal \cup Items_of(r)
     /\ r.normal \cap Items_of(r) = {}
     /\ COLLECTION \in r.normal \cup Items_of(r)
     /\ COLLECTION \in Items_of(r) <=>
          r.status # "success" /\ Items_of(r) \cap Items = {}
     /\ Cardinality({i \in r.issues : i[1] = COLLECTION}) <= 1}

\* The record of a task whose profile names no issue project: only an incomplete
\* run is graded, as a collection issue.
PlainResults ==
  {r \in Result : /\ r.type = "plain_inspection"
                  /\ r.status # "cancelled"
                  /\ r.normal = {}
                  /\ r.issues \subseteq {COLLECTION} \X {"info", "alarm"}
                  /\ Cardinality(r.issues) = IF r.status = "success" THEN 0 ELSE 1}

\* The analysed items are recorded whether or not they have an exception; that a
\* log matches nobody on the roster is an exception but not an analysed item.
AnalysisResults ==
  {r \in Result : /\ r.type = "computer_analysis"
                  /\ r.status = "success"
                  /\ Items_of(r) \subseteq Items
                  /\ r.normal = Items \ {IDENTITY}}

\* Without a record: directory synchronisation, a target that cancellation or
\* lease recovery has closed, an analysis that failed, and the log of nobody on
\* the roster, which succeeds and is ignored.
BareResults(kind) ==
  {[type |-> "none", status |-> s, issues |-> {}, normal |-> {}] :
     s \in {"failed", "cancelled"} \cup
           (IF kind = "inspection" THEN {} ELSE {"success"})}

TaskTypes == {"inspection", "computer_analysis", "sync"}

ResultsOf(kind) ==
  BareResults(kind) \cup
  CASE kind = "inspection" -> InspectionResults \cup PlainResults
    [] kind = "computer_analysis" -> AnalysisResults
    [] OTHER -> {}

-----------------------------------------------------------------------------
Init ==
  /\ inventory \in Inventories
  /\ result = [x \in Targets |-> NoResult]
  /\ finished_at = [x \in Targets |-> 0]
  /\ closed = <<>>
  /\ alert_processed = {}
  /\ retried = <<>>
  /\ observed = [x \in Targets |-> [k \in Keys |-> "none"]]
  /\ state = [s \in Scopes |-> [k \in Keys |-> "absent"]]
  /\ last_seen_at = [s \in Scopes |-> [k \in Keys |-> 0]]
  /\ events = {}
  /\ summary = [t \in Tasks |-> NoSummary]
  /\ summary_retried = <<>>
  /\ phase = [w \in Workers |-> "targets"]
  /\ todo = [w \in Workers |-> <<>>]

\* The target's result is published with its finishing time.
Publish(x, kind, r) ==
  /\ kind = KindOf[TaskOf[x]]
  /\ result[x] = NoResult
  /\ result' = [result EXCEPT ![x] = r]
  /\ finished_at' = [finished_at EXCEPT ![x] =
                       1 + Cardinality({y \in Targets : finished_at[y] > 0})]
  /\ UNCHANGED <<inventory, closed, alertVars, retried, summaryVars, phase, todo>>

\* The task gets its terminal status once its targets have theirs.
Close(t) ==
  /\ TargetsOf(t) # {} /\ ~Contains(closed, t)
  /\ \A x \in TargetsOf(t) : TERMINAL(result[x])
  /\ closed' = Append(closed, t)
  /\ UNCHANGED <<inventory, result, finished_at, alertVars, retried, summaryVars, phase, todo>>

-----------------------------------------------------------------------------
(* process_persisted_target and process_target_findings.                   *)

\* Mutant: the result processed last wins, whenever it was observed.
is_newer_Always(x, k) == finding_state(result[x], k) \in {"abnormal", "normal"}

\* The observation moves the alert state of key k.
is_newer(x, k) ==
  /\ finding_state(result[x], k) \in {"abnormal", "normal"}
  /\ state[ScopeOf[x]][k] = "absent" \/ finished_at[x] > last_seen_at[ScopeOf[x]][k]

abnormal(x) == {k \in Keys : is_newer(x, k) /\ finding_state(result[x], k) = "abnormal"}

\* Mutant: every normal observation is announced as a recovery.
recovered_Normal(x) ==
  {k \in Keys : is_newer(x, k) /\ finding_state(result[x], k) = "normal"}

recovered(x) == {k \in Keys : /\ is_newer(x, k)
                              /\ finding_state(result[x], k) = "normal"
                              /\ state[ScopeOf[x]][k] = "abnormal"}

Process(x) ==
  /\ state' = [state EXCEPT ![ScopeOf[x]] =
                 [k \in Keys |-> IF is_newer(x, k) THEN finding_state(result[x], k)
                                                   ELSE @[k]]]
  /\ last_seen_at' = [last_seen_at EXCEPT ![ScopeOf[x]] =
                 [k \in Keys |-> IF is_newer(x, k) THEN finished_at[x] ELSE @[k]]]
  /\ events' = events
       \cup (IF abnormal(x) = {} THEN {}
             ELSE {[target |-> x, type |-> "abnormal", keys |-> abnormal(x)]})
       \cup (IF recovered(x) = {} THEN {}
             ELSE {[target |-> x, type |-> "recovery", keys |-> recovered(x)]})
  /\ observed' = [observed EXCEPT ![x] = [k \in Keys |-> finding_state(result[x], k)]]
  /\ alert_processed' = alert_processed \cup {x}
  /\ retried' = Remove(retried, x)

\* Mutant: the attempt is not noted.
moved_behind_Not(x) == IF Contains(retried, x) THEN retried ELSE <<x>> \o retried

\* The failed attempt moves the target behind every other one.
moved_behind(x) == Append(Remove(retried, x), x)

\* The transaction fails and is rolled back: a poison target always, any other
\* one on its first attempt at most (a busy database).
ProcessFails(x) ==
  /\ x \in Poison \/ ~Contains(retried, x)
  /\ retried' = moved_behind(x)
  /\ UNCHANGED alertVars

\* One call of process_persisted_target; for a row that is not there, nothing happens.
ProcessTarget(x) ==
  IF x \in Targets /\ TERMINAL(result[x]) /\ x \notin alert_processed
  THEN (x \notin Poison /\ Process(x)) \/ ProcessFails(x)
  ELSE UNCHANGED <<alertVars, retried>>

\* The executor's own call, right after the result was published.
ProcessNow(x) ==
  /\ TERMINAL(result[x]) /\ x \notin alert_processed
  /\ ProcessTarget(x)
  /\ UNCHANGED <<targetVars, summaryVars, phase, todo>>

-----------------------------------------------------------------------------
(* process_task_summary.                                                   *)

ignored(x) == result[x].type = "none" /\ result[x].status = "success"

is_abnormal(x) == \/ result[x].status \in {"failed", "partial"}
                  \/ \E k \in Keys : observed[x][k] = "abnormal"

\* The targets each number of the summary counts.  The people of a roster without
\* any log, which an analysis adds to the abnormal ones, are left out.
summary_data(t) ==
  [normal    |-> {x \in TargetsOf(t) : /\ result[x].status = "success"
                                      /\ ~ignored(x) /\ ~is_abnormal(x)},
   skipped   |-> {x \in TargetsOf(t) : ignored(x)},
   abnormal  |-> {x \in TargetsOf(t) : is_abnormal(x)},
   failed    |-> {x \in TargetsOf(t) : result[x].status \in {"failed", "partial"}},
   cancelled |-> {x \in TargetsOf(t) : result[x].status = "cancelled"},
   info      |-> {x \in TargetsOf(t) : \E k \in Keys : observed[x][k] = "unknown"},
   recovered |-> {x \in TargetsOf(t) : \E e \in events : e.target = x /\ e.type = "recovery"}]

\* Mutant: the evidence is not waited for.
evidence_settled_Closed(t) == TRUE

evidence_settled(t) ==
  \A x \in TargetsOf(t) : TERMINAL(result[x]) /\ x \in alert_processed

\* Mutant: waiting for evidence does not count as an attempt.
summary_moved_behind_Not(t) ==
  IF Contains(summary_retried, t) THEN summary_retried ELSE <<t>> \o summary_retried

summary_moved_behind(t) == Append(Remove(summary_retried, t), t)

\* The summary is made, waits for its evidence, or raises and is rolled back: at
\* most on its first attempt, as for targets.
ProcessSummary(t) ==
  IF t \in Tasks /\ Contains(closed, t) /\ KindOf[t] # "sync" /\ summary[t] = NoSummary
  THEN \/ /\ evidence_settled(t)
          /\ summary' = [summary EXCEPT ![t] = summary_data(t)]
          /\ summary_retried' = Remove(summary_retried, t)
       \/ /\ ~evidence_settled(t) \/ ~Contains(summary_retried, t)
          /\ summary_retried' = summary_moved_behind(t)
          /\ UNCHANGED summary
  ELSE UNCHANGED summaryVars

-----------------------------------------------------------------------------
(* The maintenance cycle of a Worker: reconcile_terminal_targets, then     *)
(* reconcile_terminal_tasks, each over a list read beforehand.             *)

\* Never attempted before attempted, then by age.
Unprocessed ==
  LET fresh == {x \in Targets : /\ TERMINAL(result[x]) /\ x \notin alert_processed
                                /\ ~Contains(retried, x)}
  IN SetToSortSeq(fresh, LAMBDA x, y : finished_at[x] < finished_at[y]) \o retried

Unsummarised ==
  LET waiting(t) == /\ KindOf[t] # "sync" /\ summary[t] = NoSummary
                    /\ ~Contains(summary_retried, t)
  IN SelectSeq(closed, waiting) \o summary_retried

FirstOf(s) == SubSeq(s, 1, IF Len(s) < Limit THEN Len(s) ELSE Limit)

ListTargets(w) ==
  /\ phase[w] = "targets"
  /\ todo' = [todo EXCEPT ![w] = FirstOf(Unprocessed)]
  /\ phase' = [phase EXCEPT ![w] = "replay"]
  /\ UNCHANGED <<targetVars, alertVars, retried, summaryVars>>

ReplayTarget(w) ==
  /\ phase[w] = "replay" /\ todo[w] # <<>>
  /\ ProcessTarget(Head(todo[w]))
  /\ todo' = [todo EXCEPT ![w] = Tail(@)]
  /\ UNCHANGED <<targetVars, summaryVars, phase>>

ListTasks(w) ==
  /\ phase[w] = "replay" /\ todo[w] = <<>>
  /\ todo' = [todo EXCEPT ![w] = FirstOf(Unsummarised)]
  /\ phase' = [phase EXCEPT ![w] = "summaries"]
  /\ UNCHANGED <<targetVars, alertVars, retried, summaryVars>>

SummariseTask(w) ==
  /\ phase[w] = "summaries" /\ todo[w] # <<>>
  /\ ProcessSummary(Head(todo[w]))
  /\ todo' = [todo EXCEPT ![w] = Tail(@)]
  /\ UNCHANGED <<targetVars, alertVars, retried, phase>>

EndCycle(w) ==
  /\ phase[w] = "summaries" /\ todo[w] = <<>>
  /\ phase' = [phase EXCEPT ![w] = "targets"]
  /\ UNCHANGED <<targetVars, alertVars, retried, summaryVars, todo>>

Crash(w) ==
  /\ w \notin Reliable /\ todo[w] # <<>>
  /\ todo' = [todo EXCEPT ![w] = <<>>]
  /\ phase' = [phase EXCEPT ![w] = "targets"]
  /\ UNCHANGED <<targetVars, alertVars, retried, summaryVars>>

-----------------------------------------------------------------------------
CycleStep(w) ==
  \/ ListTargets(w) \/ ReplayTarget(w)
  \/ ListTasks(w) \/ SummariseTask(w)
  \/ EndCycle(w)

Next ==
  \/ \E x \in Targets : \/ \E kind \in TaskTypes : \E r \in ResultsOf(kind) : Publish(x, kind, r)
                        \/ ProcessNow(x)
  \/ \E t \in Tasks : Close(t)
  \/ \E w \in Workers : CycleStep(w) \/ Crash(w)

Spec == Init /\ [][Next]_vars

\* A Worker runs its maintenance cycle again and again (run_once, _maintenance_loop);
\* none of its steps does transport I/O.  Tasks are closed by the queue.
FairSpec ==
  /\ Spec
  /\ \A w \in Workers : WF_vars(CycleStep(w))
  /\ \A t \in Tasks : WF_vars(Close(t))

-----------------------------------------------------------------------------
(* Properties.                                                             *)

\* The observations of key k in scope s that are processed and say something.
Telling(s, k) == {x \in alert_processed : /\ ScopeOf[x] = s
                                          /\ observed[x][k] \in {"normal", "abnormal"}}

\* The alert state of a device and a finding is what the newest processed result
\* says, in whatever order results were processed, replayed and retried; and an
\* abnormal state is backed by the event of the result that says so.
StateFollowsNewest ==
  \A s \in Scopes, k \in Keys :
    IF Telling(s, k) = {} THEN state[s][k] = "absent"
    ELSE \E x \in Telling(s, k) :
           /\ \A y \in Telling(s, k) : finished_at[y] <= finished_at[x]
           /\ state[s][k] = observed[x][k]
           /\ state[s][k] = "abnormal" =>
                \E e \in events : e.target = x /\ e.type = "abnormal" /\ k \in e.keys

\* A recovery is announced only for a finding that an earlier result of the same
\* device had announced as abnormal.
RecoveryFollowsAlarm ==
  \A e \in events : e.type = "recovery" =>
    \A k \in e.keys :
      \E f \in events : /\ f.type = "abnormal" /\ k \in f.keys
                       /\ ScopeOf[f.target] = ScopeOf[e.target]
                       /\ finished_at[f.target] < finished_at[e.target]

\* Ambiguous data creates no false recovery: a result never recovers an item it
\* has itself graded, nor the collection when it is not a complete success.
NoFalseRecovery ==
  \A e \in events : e.type = "recovery" =>
    /\ e.keys \cap Items_of(result[e.target]) = {}
    /\ COLLECTION \in e.keys => result[e.target].status = "success"

\* The summary that is sent for a task says what the task's rows say ever after:
\* it is made when its evidence is settled and no replay changes that evidence.
SummaryIsSettled ==
  \A t \in Tasks : summary[t] # NoSummary => summary[t] = summary_data(t)

\* Every result is processed in the end, also behind results whose processing
\* fails every time and more often than one pass can list.
EvidenceSettles ==
  \A x \in Targets \ Poison : TERMINAL(result[x]) ~> x \in alert_processed

\* Every inspection or analysis task whose results can be processed gets its
\* summary, also behind tasks that wait for their evidence for ever.
SummaryIsMade ==
  \A t \in Tasks :
    KindOf[t] # "sync" /\ TargetsOf(t) \cap Poison = {} =>
      (Contains(closed, t) ~> summary[t] # NoSummary)

\* What alert_task_scope says of the stable scope of a synchronisation: it lets
\* one failure alert recover when a later synchronisation succeeds.
LaterSuccessRecovers ==
  \A x \in alert_processed :
    /\ KindOf[TaskOf[x]] = "sync"
    /\ result[x].status = "success"
    /\ \A y \in alert_processed : ScopeOf[y] = ScopeOf[x] => finished_at[y] <= finished_at[x]
    => state[ScopeOf[x]][FAILURE] # "abnormal"
=============================================================================
