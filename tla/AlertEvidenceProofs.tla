------------------------- MODULE AlertEvidenceProofs -------------------------
(***************************************************************************)
(* The newest result decides, recoveries are true and follow their alarm,   *)
(* and the summary that was sent stays true, for every set of tasks,        *)
(* targets, items and Workers, and every result the executors can publish.  *)
(***************************************************************************)
EXTENDS AlertEvidence, FiniteSetTheorems, TLAPS

Findings == {"none", "abnormal", "unknown", "normal"}

EvidenceTyped ==
  /\ DOMAIN result = Targets /\ finished_at \in [Targets -> Nat]
  /\ alert_processed \subseteq Targets
  /\ observed \in [Targets -> [Keys -> Findings]]
  /\ state \in [Scopes -> [Keys -> {"absent", "normal", "abnormal"}]]
  /\ last_seen_at \in [Scopes -> [Keys -> Nat]]
  /\ DOMAIN summary = Tasks

\* A result is one that the executor of its task publishes.
ResultsFit ==
  \A x \in Targets : result[x] # NoResult =>
    KindOf[TaskOf[x]] \in TaskTypes /\ result[x] \in ResultsOf(KindOf[TaskOf[x]])

\* What was processed is published, and was processed as it is.
ProcessedStands ==
  \A x \in alert_processed :
    /\ result[x] # NoResult
    /\ \A k \in Keys : observed[x][k] = finding_state(result[x], k)

\* Events are those of processed targets, and recoveries speak of normal findings.
EventsStand ==
  \A e \in events :
    /\ e.target \in alert_processed
    /\ e.type = "recovery" =>
         \A k \in e.keys : k \in Keys /\ finding_state(result[e.target], k) = "normal"

Announced(x, k) == \E e \in events : e.target = x /\ e.type = "abnormal" /\ k \in e.keys

\* The state of a key was taken from the newest processed result that tells of it.
Decides(x, s, k) ==
  /\ finished_at[x] = last_seen_at[s][k] /\ state[s][k] = observed[x][k]
  /\ \A y \in Telling(s, k) : finished_at[y] <= finished_at[x]
  /\ state[s][k] = "abnormal" => Announced(x, k)

NewestDecides ==
  \A s \in Scopes, k \in Keys :
    IF Telling(s, k) = {} THEN state[s][k] = "absent"
    ELSE \E x \in Telling(s, k) : Decides(x, s, k)

\* A summary was made of settled evidence.
SummariesStand ==
  \A t \in Tasks : summary[t] # NoSummary => evidence_settled(t) /\ summary[t] = summary_data(t)

EvidenceInv ==
  /\ EvidenceTyped /\ ResultsFit /\ ProcessedStands /\ EventsStand /\ NewestDecides
  /\ RecoveryFollowsAlarm /\ SummariesStand

-----------------------------------------------------------------------------
(* Findings and scopes.                                                    *)

LEMMA FindingTyped ==
  ASSUME NEW r, NEW k
  PROVE  finding_state(r, k) \in Findings
BY DEF finding_state, Findings

\* What an executor publishes: analyses come from analysis tasks only, and nothing is
\* normal that was graded or, of a collection, did not fully succeed.
LEMMA PublishedResults ==
  ASSUME NEW kind \in TaskTypes, NEW r \in ResultsOf(kind)
  PROVE  /\ r.type = "computer_analysis" => kind = "computer_analysis"
         /\ \A k \in Keys : finding_state(r, k) = "normal" =>
              k \notin Items_of(r) /\ (k = COLLECTION => r.status = "success")
<1>1. CASE r \in BareResults(kind)
  BY <1>1 DEF BareResults, finding_state, says_normal, Items_of
<1>2. CASE r \in InspectionResults /\ kind = "inspection"
  BY <1>2 DEF InspectionResults, Result, finding_state, says_normal, says_abnormal,
              collection_failed
<1>3. CASE r \in PlainResults /\ kind = "inspection"
  BY <1>3 DEF PlainResults, Result, finding_state, says_normal
<1>4. CASE r \in AnalysisResults /\ kind = "computer_analysis"
  BY <1>4 DEF AnalysisResults, Result, finding_state, says_normal
<1> QED
  BY <1>1, <1>2, <1>3, <1>4 DEF ResultsOf, TaskTypes

LEMMA ScopeIsKnown ==
  ASSUME ResultsFit, NEW x \in Targets, result[x] # NoResult
  PROVE  ScopeOf[x] \in Scopes
<1>1. CASE result[x].type = "computer_analysis"
  <2>1. KindOf[TaskOf[x]] = "computer_analysis"
    BY <1>1, PublishedResults DEF ResultsFit
  <2>2. LogTarget(x) /\ ScopeOf[x] = ComputerScope(x)
    BY <1>1, <2>1 DEF LogTarget, ScopeOf
  <2> QED
    BY <2>2 DEF Scopes
<1>2. CASE result[x].type # "computer_analysis"
  BY <1>2 DEF ScopeOf, Scopes
<1> QED
  BY <1>1, <1>2

LEMMA EvidenceInitHolds == ASSUME Init PROVE EvidenceInv
<1>1. alert_processed = {} /\ events = {}
  BY DEF Init
<1>2. \A t \in Tasks : summary[t] = NoSummary
  BY DEF Init
<1>3. \A s \in Scopes, k \in Keys : state[s][k] = "absent" /\ Telling(s, k) = {}
  BY <1>1 DEF Init, Telling
<1>4. EvidenceTyped /\ ResultsFit
  <2>1. \A x \in Targets : result[x] = NoResult
    BY DEF Init
  <2>2. EvidenceTyped
    BY DEF Init, EvidenceTyped, Findings
  <2> QED
    BY <2>1, <2>2 DEF ResultsFit
<1> QED
  BY <1>1, <1>2, <1>3, <1>4
  DEF EvidenceInv, ProcessedStands, EventsStand, NewestDecides, RecoveryFollowsAlarm,
      SummariesStand

\* Steps of the queue, of the lists and of attempts that fail.
LEMMA EvidenceUntouched ==
  ASSUME EvidenceInv, UNCHANGED <<inventory, result, finished_at, alertVars, summary>>
  PROVE  EvidenceInv'
<1>1. ScopeOf' = ScopeOf /\ Scopes' = Scopes
  BY DEF ScopeOf, Scopes, LogTarget, KindOf, TaskOf, TargetScope, ComputerScope
<1>2. \A s, k : Telling(s, k)' = Telling(s, k)
  BY <1>1 DEF Telling, alertVars
<1>3. EvidenceTyped'
  BY <1>1 DEF EvidenceInv, EvidenceTyped, alertVars
<1>4. ResultsFit' /\ ProcessedStands' /\ EventsStand'
  BY DEF EvidenceInv, ResultsFit, KindOf, TaskOf, ProcessedStands, EventsStand, alertVars
<1>5. NewestDecides'
  BY <1>1, <1>2 DEF EvidenceInv, NewestDecides, Decides, Announced, alertVars
<1>6. RecoveryFollowsAlarm'
  BY <1>1 DEF EvidenceInv, RecoveryFollowsAlarm, alertVars
<1>7. SummariesStand'
  <2>1. \A t : /\ TargetsOf(t)' = TargetsOf(t)
               /\ evidence_settled(t)' = evidence_settled(t)
               /\ summary_data(t)' = summary_data(t)
    BY DEF TargetsOf, TaskOf, evidence_settled, summary_data, ignored, is_abnormal, alertVars
  <2> QED
    BY <2>1 DEF EvidenceInv, SummariesStand
<1> QED
  BY <1>3, <1>4, <1>5, <1>6, <1>7 DEF EvidenceInv

-----------------------------------------------------------------------------
(* The steps.                                                              *)

\* A new result is not processed, and nothing that was processed changes.
LEMMA PublishKeeps ==
  ASSUME EvidenceInv, NEW x \in Targets, NEW kind \in TaskTypes, NEW r \in ResultsOf(kind),
         Publish(x, kind, r)
  PROVE  EvidenceInv'
<1>1. /\ kind = KindOf[TaskOf[x]] /\ result[x] = NoResult /\ x \notin alert_processed
      /\ \A y \in Targets : y # x => result'[y] = result[y] /\ finished_at'[y] = finished_at[y]
      /\ result'[x] = r /\ DOMAIN result' = Targets
      /\ UNCHANGED <<inventory, alertVars, summary>>
  BY DEF Publish, EvidenceInv, EvidenceTyped, ProcessedStands, summaryVars
<1>2. /\ KindOf' = KindOf /\ TaskOf' = TaskOf /\ Scopes' = Scopes
      /\ \A y \in Targets : y # x => ScopeOf'[y] = ScopeOf[y]
  BY <1>1 DEF ScopeOf, Scopes, LogTarget, KindOf, TaskOf, TargetScope, ComputerScope
<1>3. alert_processed \subseteq Targets /\ alert_processed' = alert_processed
  BY <1>1 DEF EvidenceInv, EvidenceTyped, alertVars
<1>4. finished_at' \in [Targets -> Nat]
  <2>1. IsFiniteSet({y \in Targets : finished_at[y] > 0})
    BY AlertEvidenceAssumption, FS_Subset DEF AlertEvidenceAssumption
  <2>2. Cardinality({y \in Targets : finished_at[y] > 0}) \in Nat
    BY <2>1, FS_CardinalityType
  <2>3. 1 + Cardinality({y \in Targets : finished_at[y] > 0}) \in Nat
    BY <2>2
  <2> QED
    BY <2>3 DEF Publish, EvidenceInv, EvidenceTyped
<1>5. EvidenceTyped'
  BY <1>1, <1>2, <1>4 DEF EvidenceInv, EvidenceTyped, alertVars
<1>6. ResultsFit'
  BY <1>1, <1>2 DEF EvidenceInv, ResultsFit
<1>7. \A s, k : Telling(s, k)' = Telling(s, k)
  BY <1>1, <1>2, <1>3 DEF Telling, alertVars
<1>8. ProcessedStands' /\ EventsStand' /\ RecoveryFollowsAlarm'
  <2>1. \A e \in events : e.target \in alert_processed
    BY DEF EvidenceInv, EventsStand
  <2>2. ProcessedStands' /\ EventsStand'
    BY <1>1, <1>3, <2>1 DEF EvidenceInv, ProcessedStands, EventsStand, alertVars
  <2>3. \A e \in events : /\ ScopeOf'[e.target] = ScopeOf[e.target]
                          /\ finished_at'[e.target] = finished_at[e.target]
    BY <1>1, <1>2, <1>3, <2>1
  <2>4. RecoveryFollowsAlarm'
    BY <1>1, <2>3 DEF EvidenceInv, RecoveryFollowsAlarm, alertVars
  <2> QED
    BY <2>2, <2>4
<1>9. NewestDecides'
  <2>1. \A s, k : Telling(s, k) \subseteq alert_processed
    BY DEF Telling
  <2>2. \A y \in alert_processed : finished_at'[y] = finished_at[y]
    BY <1>1, <1>3
  <2>3. ASSUME NEW s \in Scopes, NEW k \in Keys, NEW y \in Telling(s, k), Decides(y, s, k)
        PROVE  Decides(y, s, k)'
    BY <1>1, <1>7, <2>1, <2>2, <2>3 DEF Decides, Announced, alertVars
  <2> QED
    BY <1>1, <1>2, <1>7, <2>3 DEF EvidenceInv, NewestDecides, alertVars
<1>10. SummariesStand'
  <2>1. ASSUME NEW t \in Tasks, evidence_settled(t)
        PROVE  evidence_settled(t)' /\ summary_data(t)' = summary_data(t)
    <3>1. /\ TargetsOf(t)' = TargetsOf(t)
          /\ \A y \in TargetsOf(t) : /\ y \in Targets /\ y # x /\ y \in alert_processed
                                     /\ result'[y] = result[y] /\ TERMINAL(result[y])
                                     /\ observed'[y] = observed[y]
      BY <1>1, <1>2, <2>1 DEF TargetsOf, evidence_settled, alertVars
    <3>2. evidence_settled(t)'
      BY <1>3, <3>1 DEF evidence_settled
    <3>3. \A y \in TargetsOf(t) : /\ ignored(y)' <=> ignored(y)
                                  /\ is_abnormal(y)' <=> is_abnormal(y)
      BY <3>1 DEF ignored, is_abnormal
    <3>4. summary_data(t)' = summary_data(t)
      BY <1>1, <3>1, <3>3 DEF summary_data, alertVars
    <3> QED
      BY <3>2, <3>4
  <2> QED
    BY <1>1, <2>1 DEF EvidenceInv, SummariesStand
<1> QED
  BY <1>5, <1>6, <1>8, <1>9, <1>10 DEF EvidenceInv

\* A result is processed: it decides the keys of which it tells, if it is newer.
LEMMA ProcessKeeps ==
  ASSUME EvidenceInv, NEW x \in Targets, TERMINAL(result[x]), x \notin alert_processed,
         Process(x), UNCHANGED <<inventory, result, finished_at, summary>>
  PROVE  EvidenceInv'
<1> DEFINE told(k) == finding_state(result[x], k)
<1>1. /\ ScopeOf' = ScopeOf /\ Scopes' = Scopes /\ ScopeOf[x] \in Scopes
      /\ result[x] # NoResult
  BY ScopeIsKnown
  DEF ScopeOf, Scopes, LogTarget, KindOf, TaskOf, TargetScope, ComputerScope, TERMINAL,
      EvidenceInv
<1> PICK here \in Scopes : here = ScopeOf[x]
  BY <1>1
<1>2. /\ alert_processed' = alert_processed \cup {x} /\ alert_processed \subseteq Targets
      /\ \A y \in Targets : y # x => observed'[y] = observed[y]
      /\ \A k \in Keys : observed'[x][k] = told(k)
      /\ observed' \in [Targets -> [Keys -> Findings]]
  <2>1. [k \in Keys |-> told(k)] \in [Keys -> Findings]
    BY FindingTyped
  <2> QED
    BY <2>1 DEF Process, EvidenceInv, EvidenceTyped
<1>3. /\ \A s \in Scopes : s # here => state'[s] = state[s] /\ last_seen_at'[s] = last_seen_at[s]
      /\ \A k \in Keys : ~ is_newer(x, k) => /\ state'[here][k] = state[here][k]
                                             /\ last_seen_at'[here][k] = last_seen_at[here][k]
      /\ \A k \in Keys : is_newer(x, k) => /\ state'[here][k] = told(k)
                                           /\ last_seen_at'[here][k] = finished_at[x]
  BY <1>1 DEF Process, EvidenceInv, EvidenceTyped
<1>4. EvidenceTyped'
  <2>1. state' \in [Scopes -> [Keys -> {"absent", "normal", "abnormal"}]]
    <3>1. [k \in Keys |-> IF is_newer(x, k) THEN told(k) ELSE state[here][k]]
            \in [Keys -> {"absent", "normal", "abnormal"}]
      BY <1>1 DEF is_newer, EvidenceInv, EvidenceTyped
    <3> QED
      BY <3>1 DEF Process, EvidenceInv, EvidenceTyped
  <2>2. last_seen_at' \in [Scopes -> [Keys -> Nat]]
    <3>1. [k \in Keys |-> IF is_newer(x, k) THEN finished_at[x] ELSE last_seen_at[here][k]]
            \in [Keys -> Nat]
      BY <1>1 DEF EvidenceInv, EvidenceTyped
    <3> QED
      BY <3>1 DEF Process, EvidenceInv, EvidenceTyped
  <2> QED
    BY <1>1, <1>2, <2>1, <2>2 DEF EvidenceInv, EvidenceTyped
<1>5. ResultsFit' /\ ProcessedStands'
  BY <1>1, <1>2 DEF EvidenceInv, ResultsFit, ProcessedStands, KindOf, TaskOf
<1>6. /\ events \subseteq events'
      /\ \A e \in events' \ events : e.target = x /\ (e.type = "recovery" => e.keys = recovered(x))
      /\ \A k \in abnormal(x) : Announced(x, k)'
  <2> DEFINE alarms     == {[target |-> x, type |-> "abnormal", keys |-> abnormal(x)]}
             recoveries == {[target |-> x, type |-> "recovery", keys |-> recovered(x)]}
  <2>1. /\ events \subseteq events' /\ events' \subseteq events \cup alarms \cup recoveries
        /\ abnormal(x) # {} => alarms \subseteq events'
    BY DEF Process
  <2>2. \A e \in alarms : e.target = x /\ e.type = "abnormal" /\ e.keys = abnormal(x)
    OBVIOUS
  <2>3. \A e \in recoveries : e.target = x /\ e.keys = recovered(x)
    OBVIOUS
  <2>4. \E e \in alarms : TRUE
    OBVIOUS
  <2> HIDE DEF alarms, recoveries
  <2>5. \A e \in events' \ events : e.target = x /\ (e.type = "recovery" => e.keys = recovered(x))
    BY <2>1, <2>2, <2>3
  <2>6. \A k \in abnormal(x) : Announced(x, k)'
    BY <2>1, <2>2, <2>4 DEF Announced
  <2> QED
    BY <2>1, <2>5, <2>6
<1>7. EventsStand'
  BY <1>2, <1>6 DEF EvidenceInv, EventsStand, recovered
<1>8. NewestDecides'
  <2>1. ASSUME NEW y, NEW k, Announced(y, k) PROVE Announced(y, k)'
    BY <1>6, <2>1 DEF Announced
  <2>2. ASSUME NEW s \in Scopes, NEW k \in Keys, s # here \/ told(k) \notin {"normal", "abnormal"}
        PROVE  /\ Telling(s, k)' = Telling(s, k)
               /\ state'[s][k] = state[s][k] /\ last_seen_at'[s][k] = last_seen_at[s][k]
    BY <1>1, <1>2, <1>3, <2>2 DEF Telling, is_newer
  <2>3. ASSUME NEW k \in Keys, told(k) \in {"normal", "abnormal"}
        PROVE  Telling(here, k)' = Telling(here, k) \cup {x}
    BY <1>1, <1>2, <2>3 DEF Telling
  <2>4. ASSUME NEW s \in Scopes, NEW k \in Keys, NEW y \in Telling(s, k), Decides(y, s, k),
               state'[s][k] = state[s][k], last_seen_at'[s][k] = last_seen_at[s][k],
               \A z \in Telling(s, k)' : finished_at[z] <= finished_at[y]
        PROVE  Decides(y, s, k)'
    <3>1. observed'[y] = observed[y]
      BY <1>2 DEF Telling
    <3> QED
      BY <2>1, <2>4, <3>1 DEF Decides
  <2>5. ASSUME NEW s \in Scopes, NEW k \in Keys
        PROVE  IF Telling(s, k)' = {} THEN state'[s][k] = "absent"
               ELSE \E y \in Telling(s, k)' : Decides(y, s, k)'
    <3>1. CASE s # here \/ told(k) \notin {"normal", "abnormal"}
      BY <2>2, <2>4, <3>1 DEF EvidenceInv, NewestDecides, Decides
    <3>2. CASE s = here /\ is_newer(x, k)
      <4>1. Telling(here, k)' = Telling(here, k) \cup {x}
        BY <2>3, <3>2 DEF is_newer
      <4>2. \A y \in Telling(here, k) : finished_at[y] <= finished_at[x]
        <5>1. CASE Telling(here, k) = {}
          BY <5>1
        <5>2. CASE Telling(here, k) # {}
          <6>1. PICK z \in Telling(here, k) : Decides(z, here, k)
            BY <3>2, <5>2 DEF EvidenceInv, NewestDecides
          <6>2. state[here][k] # "absent"
            BY <6>1 DEF Decides, Telling
          <6>3. finished_at[x] > finished_at[z]
            BY <3>2, <6>1, <6>2 DEF is_newer, Decides
          <6>4. /\ Telling(here, k) \subseteq Targets
                /\ \A y \in Telling(here, k) : finished_at[y] <= finished_at[z]
            BY <1>2, <6>1 DEF Decides, Telling
          <6> QED
            BY <6>3, <6>4 DEF EvidenceInv, EvidenceTyped
        <5> QED
          BY <5>1, <5>2
      <4>3. Decides(x, here, k)'
        <5>1. \A y \in Telling(here, k)' : finished_at'[y] <= finished_at'[x]
          BY <4>1, <4>2 DEF EvidenceInv, EvidenceTyped
        <5>2. state'[here][k] = "abnormal" => Announced(x, k)'
          BY <1>3, <1>6, <3>2 DEF abnormal
        <5>3. finished_at'[x] = last_seen_at'[here][k] /\ state'[here][k] = observed'[x][k]
          BY <1>2, <1>3, <3>2
        <5> QED
          BY <1>1, <5>1, <5>2, <5>3 DEF Decides
      <4> QED
        BY <3>2, <4>1, <4>3
    <3>3. CASE s = here /\ told(k) \in {"normal", "abnormal"} /\ ~ is_newer(x, k)
      <4>1. state[here][k] # "absent" /\ ~ (finished_at[x] > last_seen_at[here][k])
        BY <3>3 DEF is_newer
      <4>2. PICK z \in Telling(here, k) : Decides(z, here, k)
        BY <1>1, <3>3, <4>1 DEF EvidenceInv, NewestDecides
      <4>3. Telling(here, k)' = Telling(here, k) \cup {x}
        BY <2>3, <3>3
      <4>4. finished_at[x] <= finished_at[z]
        BY <1>1, <1>2, <4>1, <4>2 DEF Decides, Telling, EvidenceInv, EvidenceTyped
      <4>5. \A y \in Telling(here, k)' : finished_at[y] <= finished_at[z]
        BY <4>2, <4>3, <4>4 DEF Decides
      <4>6. Decides(z, here, k)'
        BY <1>1, <1>3, <2>4, <3>3, <4>2, <4>5
      <4> QED
        BY <3>3, <4>3, <4>6
    <3> QED
      BY <3>1, <3>2, <3>3
  <2> QED
    BY <1>1, <2>5 DEF NewestDecides
<1>9. RecoveryFollowsAlarm'
  <2>1. ASSUME NEW e \in events', e.type = "recovery", NEW k \in e.keys
        PROVE  \E f \in events' : /\ f.type = "abnormal" /\ k \in f.keys
                                  /\ ScopeOf[f.target] = ScopeOf[e.target]
                                  /\ finished_at[f.target] < finished_at[e.target]
    <3>1. CASE e \in events
      BY <1>6, <2>1, <3>1 DEF EvidenceInv, RecoveryFollowsAlarm
    <3>2. CASE e \notin events
      <4>1. /\ e.target = x /\ k \in Keys /\ is_newer(x, k)
            /\ state[here][k] = "abnormal"
        BY <1>6, <2>1, <3>2 DEF recovered
      <4>2. PICK z \in Telling(here, k) : Decides(z, here, k)
        BY <1>1, <4>1 DEF EvidenceInv, NewestDecides
      <4>3. ScopeOf[z] = here /\ finished_at[z] < finished_at[x]
        <5>1. finished_at[x] > last_seen_at[here][k] /\ last_seen_at[here][k] = finished_at[z]
          BY <4>1, <4>2 DEF is_newer, Decides
        <5>2. z \in Targets /\ ScopeOf[z] = here
          BY <1>2 DEF Telling
        <5> QED
          BY <5>1, <5>2 DEF EvidenceInv, EvidenceTyped
      <4>4. PICK f \in events : f.target = z /\ f.type = "abnormal" /\ k \in f.keys
        BY <4>1, <4>2 DEF Decides, Announced
      <4> QED
        BY <1>6, <4>1, <4>3, <4>4
    <3> QED
      BY <3>1, <3>2
  <2> QED
    BY <1>1, <2>1 DEF RecoveryFollowsAlarm
<1>10. SummariesStand'
  <2>1. ASSUME NEW t \in Tasks, evidence_settled(t)
        PROVE  evidence_settled(t)' /\ summary_data(t)' = summary_data(t)
    <3>1. /\ TargetsOf(t)' = TargetsOf(t)
          /\ \A y \in TargetsOf(t) : /\ y \in Targets /\ y # x /\ y \in alert_processed
                                     /\ TERMINAL(result[y]) /\ observed'[y] = observed[y]
      BY <1>2, <2>1 DEF TargetsOf, TaskOf, evidence_settled
    <3>2. evidence_settled(t)'
      BY <1>2, <3>1 DEF evidence_settled
    <3>3. \A y \in TargetsOf(t) : /\ ignored(y)' <=> ignored(y)
                                  /\ is_abnormal(y)' <=> is_abnormal(y)
      BY <3>1 DEF ignored, is_abnormal
    <3>4. \A y \in TargetsOf(t) : (\E e \in events' : e.target = y /\ e.type = "recovery")
                                   <=> (\E e \in events : e.target = y /\ e.type = "recovery")
      BY <1>6, <3>1
    <3>5. {y \in TargetsOf(t)' : \E e \in events' : e.target = y /\ e.type = "recovery"}
            = {y \in TargetsOf(t) : \E e \in events : e.target = y /\ e.type = "recovery"}
      BY <3>1, <3>4
    <3>6. /\ {y \in TargetsOf(t)' : result'[y].status = "success" /\ ~ ignored(y)'
                                    /\ ~ is_abnormal(y)'}
               = {y \in TargetsOf(t) : result[y].status = "success" /\ ~ ignored(y)
                                       /\ ~ is_abnormal(y)}
          /\ {y \in TargetsOf(t)' : ignored(y)'} = {y \in TargetsOf(t) : ignored(y)}
          /\ {y \in TargetsOf(t)' : is_abnormal(y)'} = {y \in TargetsOf(t) : is_abnormal(y)}
          /\ {y \in TargetsOf(t)' : \E k \in Keys : observed'[y][k] = "unknown"}
               = {y \in TargetsOf(t) : \E k \in Keys : observed[y][k] = "unknown"}
          /\ {y \in TargetsOf(t)' : result'[y].status \in {"failed", "partial"}}
               = {y \in TargetsOf(t) : result[y].status \in {"failed", "partial"}}
          /\ {y \in TargetsOf(t)' : result'[y].status = "cancelled"}
               = {y \in TargetsOf(t) : result[y].status = "cancelled"}
      BY <3>1, <3>3
    <3>7. summary_data(t)' = summary_data(t)
      BY ONLY <3>5, <3>6 DEF summary_data
    <3> QED
      BY <3>2, <3>7
  <2> QED
    BY <2>1 DEF EvidenceInv, SummariesStand
<1> QED
  BY <1>4, <1>5, <1>7, <1>8, <1>9, <1>10 DEF EvidenceInv

\* One call of process_persisted_target, by the executor or by a cycle.
LEMMA ProcessTargetKeeps ==
  ASSUME EvidenceInv, NEW x, ProcessTarget(x), UNCHANGED <<targetVars, summary>>
  PROVE  EvidenceInv'
<1>1. UNCHANGED <<inventory, result, finished_at, summary>>
  BY DEF targetVars
<1>2. CASE x \in Targets /\ TERMINAL(result[x]) /\ x \notin alert_processed /\ Process(x)
  BY <1>1, <1>2, ProcessKeeps
<1>3. CASE UNCHANGED alertVars
  BY <1>1, <1>3, EvidenceUntouched
<1> QED
  BY <1>2, <1>3 DEF ProcessTarget, ProcessFails

\* A summary is made of settled evidence only.
LEMMA ProcessSummaryKeeps ==
  ASSUME EvidenceInv, NEW t, ProcessSummary(t), UNCHANGED <<targetVars, alertVars>>
  PROVE  EvidenceInv'
<1>1. UNCHANGED <<inventory, result, finished_at>>
  BY DEF targetVars
<1>2. CASE UNCHANGED summary
  BY <1>1, <1>2, EvidenceUntouched
<1>3. CASE t \in Tasks /\ evidence_settled(t)
           /\ summary' = [summary EXCEPT ![t] = summary_data(t)]
  <2>1. \A u : /\ TargetsOf(u)' = TargetsOf(u)
               /\ evidence_settled(u)' = evidence_settled(u)
               /\ summary_data(u)' = summary_data(u)
    BY <1>1 DEF TargetsOf, TaskOf, evidence_settled, summary_data, ignored, is_abnormal, alertVars
  <2>2. DOMAIN summary = Tasks /\ DOMAIN summary' = Tasks
    BY <1>3 DEF EvidenceInv, EvidenceTyped
  <2>3. SummariesStand'
    <3>1. \A u \in Tasks : summary'[u] = IF u = t THEN summary_data(t) ELSE summary[u]
      BY <1>3, <2>2
    <3> QED
      BY <1>3, <2>1, <3>1 DEF EvidenceInv, SummariesStand
  <2>4. ScopeOf' = ScopeOf /\ Scopes' = Scopes
    BY <1>1 DEF ScopeOf, Scopes, LogTarget, KindOf, TaskOf, TargetScope, ComputerScope
  <2>5. \A s, k : Telling(s, k)' = Telling(s, k)
    BY <2>4 DEF Telling, alertVars
  <2>6. EvidenceTyped' /\ ResultsFit' /\ ProcessedStands' /\ EventsStand'
    BY <1>1, <2>2, <2>4
    DEF EvidenceInv, EvidenceTyped, ResultsFit, KindOf, TaskOf, ProcessedStands, EventsStand,
        alertVars
  <2>7. NewestDecides' /\ RecoveryFollowsAlarm'
    BY <1>1, <2>4, <2>5
    DEF EvidenceInv, NewestDecides, Decides, Announced, RecoveryFollowsAlarm, alertVars
  <2> QED
    BY <2>3, <2>6, <2>7 DEF EvidenceInv
<1> QED
  BY <1>2, <1>3 DEF ProcessSummary, summaryVars

LEMMA EvidenceNextKeeps == ASSUME EvidenceInv, [Next]_vars PROVE EvidenceInv'
<1>1. ASSUME NEW x \in Targets, NEW kind \in TaskTypes, NEW r \in ResultsOf(kind),
             Publish(x, kind, r)
      PROVE  EvidenceInv'
  BY <1>1, PublishKeeps
<1>2. ASSUME NEW x \in Targets, ProcessNow(x) PROVE EvidenceInv'
  BY <1>2, ProcessTargetKeeps DEF ProcessNow, summaryVars
<1>3. ASSUME NEW t \in Tasks, Close(t) PROVE EvidenceInv'
  BY <1>3, EvidenceUntouched DEF Close, summaryVars
<1>4. ASSUME NEW w \in Workers, CycleStep(w) PROVE EvidenceInv'
  <2>1. CASE ListTargets(w) \/ ListTasks(w) \/ EndCycle(w)
    BY <2>1, EvidenceUntouched DEF ListTargets, ListTasks, EndCycle, targetVars, summaryVars
  <2>2. CASE ReplayTarget(w)
    BY <2>2, ProcessTargetKeeps DEF ReplayTarget, summaryVars
  <2>3. CASE SummariseTask(w)
    BY <2>3, ProcessSummaryKeeps DEF SummariseTask
  <2> QED
    BY <1>4, <2>1, <2>2, <2>3 DEF CycleStep
<1>5. ASSUME NEW w \in Workers, Crash(w) PROVE EvidenceInv'
  BY <1>5, EvidenceUntouched DEF Crash, targetVars, summaryVars
<1>6. ASSUME UNCHANGED vars PROVE EvidenceInv'
  BY <1>6, EvidenceUntouched DEF vars, targetVars, summaryVars
<1> QED
  BY <1>1, <1>2, <1>3, <1>4, <1>5, <1>6 DEF Next

LEMMA EvidenceInvariant == Spec => []EvidenceInv
<1>1. Init => EvidenceInv
  BY EvidenceInitHolds
<1>2. EvidenceInv /\ [Next]_vars => EvidenceInv'
  BY EvidenceNextKeeps
<1> QED
  BY <1>1, <1>2, PTL DEF Spec

-----------------------------------------------------------------------------
\* The alert state of a device and a finding is what the newest processed result says of
\* it, in whatever order results are processed, replayed and retried, and an abnormal
\* state has its event (net/alerts/service.py: process_target_findings).
THEOREM NewestResultDecides == Spec => []StateFollowsNewest
<1>1. EvidenceInv => StateFollowsNewest
  BY DEF EvidenceInv, NewestDecides, Decides, Announced, StateFollowsNewest
<1> QED
  BY <1>1, EvidenceInvariant, PTL

\* Every recovery follows an alarm of the same device and finding
\* (net/alerts/service.py: process_target_findings, the transition to normal).
THEOREM RecoveriesFollowAlarms == Spec => []RecoveryFollowsAlarm
<1>1. EvidenceInv => RecoveryFollowsAlarm
  BY DEF EvidenceInv
<1> QED
  BY <1>1, EvidenceInvariant, PTL

\* No result recovers an item that it graded, nor a collection that did not fully
\* succeed, whatever results the executors publish (net/alerts/service.py:
\* findings_for_target).
THEOREM RecoveriesAreTrue == Spec => []NoFalseRecovery
<1>1. EvidenceInv => NoFalseRecovery
  <2> SUFFICES ASSUME EvidenceInv, NEW e \in events, e.type = "recovery", NEW k \in e.keys
               PROVE  k \notin Items_of(result[e.target])
                      /\ (k = COLLECTION => result[e.target].status = "success")
    BY DEF NoFalseRecovery
  <2>1. /\ e.target \in Targets /\ result[e.target] # NoResult
        /\ k \in Keys /\ finding_state(result[e.target], k) = "normal"
    BY DEF EvidenceInv, EventsStand, EvidenceTyped, ProcessedStands
  <2> QED
    BY <2>1, PublishedResults DEF EvidenceInv, ResultsFit
<1> QED
  BY <1>1, EvidenceInvariant, PTL

\* The summary of a task says ever after what the task's rows say
\* (net/alerts/task_summaries.py: process_task_summary waits for all of its evidence).
THEOREM SummariesStayTrue == Spec => []SummaryIsSettled
<1>1. EvidenceInv => SummaryIsSettled
  BY DEF EvidenceInv, SummariesStand, SummaryIsSettled
<1> QED
  BY <1>1, EvidenceInvariant, PTL
=============================================================================
