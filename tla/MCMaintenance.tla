--------------------------- MODULE MCMaintenance ---------------------------
(***************************************************************************)
(* What is maintained beside the queue: the delivery of alerts, the        *)
(* schedules, the retention of history and its archive, in one small       *)
(* instance.  They share no rows: "part" names the one that moves, and the *)
(* others keep one initial state, so what holds of each here holds of them *)
(* together.                                                               *)
(***************************************************************************)
EXTENDS AlertDelivery, Schedules, Retention, TaskArchive, TLC

CONSTANTS b1, d1, d2, e1, m1, n0, p1, p2, s1, s2, u1, z1, z2

VARIABLE part

Parts == {"delivery", "schedules", "history", "archive"}

-----------------------------------------------------------------------------
(* Alert delivery: one summary for two channels.                           *)
MCEventOf == d1 :> e1 @@ d2 :> e1

(* Schedules: a device schedule and a bound one, together, each with two    *)
(* Workers, and the first with a person editing it.                        *)
MCSelectorOf == s1 :> [mode |-> "selected", ids |-> {m1}]
MCTimingOf == s1 :> [kind |-> "daily", value |-> 1] @@ s2 :> [kind |-> "interval", value |-> 2]
NoSchedules == [schedules |-> {}, workers |-> {}, editors |-> {}]
MCDeployments ==
  {[schedules |-> {s1, s2}, workers |-> {p1}, editors |-> {}],
   [schedules |-> {s1}, workers |-> {p1, p2}, editors |-> {}],
   [schedules |-> {s1}, workers |-> {p1}, editors |-> {u1}],
   [schedules |-> {s2}, workers |-> {p1, p2}, editors |-> {}], NoSchedules}

(* Retention: three tasks and one Worker, or two tasks, two Workers and a   *)
(* person who removes a record.                                            *)
MCRetentionDays == [s \in RetentionSettings |-> 0]
MCHistoryPlans ==
  {[finished |-> 3, settings |-> {n0}, sweepers |-> {z1}, removals |-> 0],
   [finished |-> 2, settings |-> {n0}, sweepers |-> {z1, z2}, removals |-> 1]}

-----------------------------------------------------------------------------
Resting(name, variable, values) == part # name => variable = CHOOSE v \in values : TRUE

MaintenanceInit ==
  /\ part \in Parts /\ Init /\ SchedulesInit /\ RetentionInit /\ ArchiveInit
  /\ Resting("schedules", deployment, {NoSchedules})
  /\ Resting("history", history_plan, HistoryPlans)
  /\ Resting("archive", evidence, SUBSET Results)

MaintenanceNext ==
  /\ UNCHANGED part
  /\ \/ part = "delivery" /\ Next /\ UNCHANGED <<schedulesVars, retentionVars, archiveVars>>
     \/ part = "schedules" /\ SchedulesNext /\ UNCHANGED <<vars, retentionVars, archiveVars>>
     \/ part = "history" /\ RetentionNext /\ UNCHANGED <<vars, schedulesVars, archiveVars>>
     \/ part = "archive" /\ ArchiveNext /\ UNCHANGED <<vars, schedulesVars, retentionVars>>

maintenanceVars == <<part, vars, schedulesVars, retentionVars, archiveVars>>

\* The fairness of each component, of the part that moves.
MaintenanceFairness ==
  /\ \A w \in Workers :
       /\ WF_vars(part = "delivery" /\ Claim(w))
       /\ WF_vars(part = "delivery" /\ SendAny(w))
       /\ WF_vars(part = "delivery" /\ Finish(w))
  /\ \A d \in Deliveries :
       /\ WF_vars(part = "delivery" /\ LeaseExpires(d))
       /\ WF_vars(part = "delivery" /\ RetryFallsDue(d))
  /\ \A p \in SteadyPollers : WF_schedulesVars(part = "schedules" /\ PollerStep(p))
  /\ \A s \in AllSchedules :
       WF_schedulesVars(part = "schedules" /\ \E t \in active : t.scope[1] = s /\ TaskEnds(t))
  /\ \A w \in SteadySweepers : WF_retentionVars(part = "history" /\ SweepStep(w))

MaintenanceSpec     == MaintenanceInit /\ [][MaintenanceNext]_maintenanceVars
FairMaintenanceSpec == MaintenanceSpec /\ MaintenanceFairness

-----------------------------------------------------------------------------
\* The rows and memories of delivery, schedules, retention and archive keep their types; no
\* delivery is claimed more often than max_attempts allows.
MaintenanceTypeOK == TypeOK /\ SchedulesTypeOK /\ RetentionTypeOK /\ ArchiveTypeOK
=============================================================================
