---------------------------- MODULE ConfigBackups ----------------------------
(***************************************************************************)
(* The daily configuration backups of one network device                   *)
(* (net/devices/configuration_backups.py) and how an inspection takes, or  *)
(* reuses, one (_collect and _persist_configuration_backup of              *)
(* net/inspections/executor.py).  A version is named by its day and the    *)
(* inspection that captured it.                                            *)
(***************************************************************************)
EXTENDS Naturals, FiniteSets

CONSTANTS
  Inspections,   \* inspections of the device
  KeptVersions,  \* 10
  MaxBackupDay

ASSUME BackupsAssumption ==
  KeptVersions \in Nat \ {0} /\ MaxBackupDay \in Nat \ {0}

VARIABLES
  backup_day,        \* the day in Beijing
  versions,     \* DeviceConfigurationBackup rows
  inspection,   \* what the executor of each inspection does
  ever_stored   \* versions stored so far (history)

backupVars == <<backup_day, versions, inspection, ever_stored>>

NoVersion  == [day |-> 0, by |-> 0]
Untouched  == [stage |-> "waiting", day |-> 0, config |-> "none", reported |-> NoVersion]

BackupsInit ==
  /\ backup_day = 1 /\ versions = {} /\ ever_stored = {}
  /\ inspection = [i \in Inspections |-> Untouched]

-----------------------------------------------------------------------------
IsNewest(v) == v \in versions /\ \A u \in versions : u.day <= v.day

backup_due == \A v \in versions : v.day # backup_day

\* _collect: a backup of today is reused, otherwise the configuration is read, which
\* may fail.
Collect(i) ==
  /\ inspection[i].stage = "waiting"
  /\ \/ /\ ~ backup_due
        /\ \E v \in versions :
             /\ IsNewest(v)
             /\ inspection' = [inspection EXCEPT ![i].stage = "collected", ![i].config = "reused",
                                                 ![i].reported = v]
     \/ /\ backup_due
        /\ \E answer \in {"content", "failed"} :
             inspection' = [inspection EXCEPT ![i].stage = "collected", ![i].config = answer]
  /\ UNCHANGED <<backup_day, versions, ever_stored>>

\* The publication takes its time, and then waits for the asset.
BeginPublication(i) ==
  /\ inspection[i].stage = "collected"
  /\ inspection' = [inspection EXCEPT ![i].stage = "publishing", ![i].day = backup_day]
  /\ UNCHANGED <<backup_day, versions, ever_stored>>

\* Mutant: the versions stored last are kept.
kept_LastStored(all, new) ==
  IF Cardinality(all) <= KeptVersions THEN all
  ELSE all \ {v \in all \ {new} : \A u \in all \ {new} : v.day <= u.day}

\* Mutant: one version too many is kept.
kept_OneMore(all, new) == {v \in all : Cardinality({u \in all : u.day > v.day}) <= KeptVersions}

\* order_by('-backup_date', ...)[10:] goes.
kept(all, new) == {v \in all : Cardinality({u \in all : u.day > v.day}) < KeptVersions}

of_day(day) == {v \in versions : v.day = day}

\* store_configuration_backup: the version of the day that is there wins.
Store(i) ==
  LET new == [day |-> inspection[i].day, by |-> i]
  IN IF of_day(new.day) # {}
     THEN /\ inspection' = [inspection EXCEPT ![i].stage = "done",
                                              ![i].reported = CHOOSE v \in of_day(new.day) : TRUE]
          /\ UNCHANGED <<versions, ever_stored>>
     ELSE /\ inspection' = [inspection EXCEPT ![i].stage = "done", ![i].reported = new]
          /\ versions' = kept(versions \cup {new}, new)
          /\ ever_stored' = ever_stored \cup {new}

\* The transaction of the record.  The backup key or the database may fail, which is
\* reported and rolls back the backup only.
Publish(i) ==
  /\ inspection[i].stage = "publishing" /\ UNCHANGED backup_day
  /\ \/ inspection[i].config = "content" /\ Store(i)
     \/ /\ inspection' = [inspection EXCEPT ![i].stage = "done"]
        /\ UNCHANGED <<versions, ever_stored>>

\* The lease was lost: record and backup are rolled back, and a retry begins anew.
LoseInspection(i) ==
  /\ inspection[i].stage \in {"collected", "publishing"}
  /\ inspection' = [inspection EXCEPT ![i] = Untouched]
  /\ UNCHANGED <<backup_day, versions, ever_stored>>

NextBackupDay ==
  /\ backup_day < MaxBackupDay /\ backup_day' = backup_day + 1
  /\ UNCHANGED <<versions, inspection, ever_stored>>

BackupsNext ==
  \/ \E i \in Inspections : Collect(i) \/ BeginPublication(i) \/ Publish(i) \/ LoseInspection(i)
  \/ NextBackupDay

BackupsSpec == BackupsInit /\ [][BackupsNext]_backupVars

-----------------------------------------------------------------------------
(* Properties.                                                             *)

AllVersions == [day : 1 .. MaxBackupDay, by : Inspections]

\* The rows keep their types, and there are never more than ten versions (the class
\* comment of the tests: "retains latest ten dates per asset").
BackupsTypeOK ==
  /\ backup_day \in 1 .. MaxBackupDay
  /\ versions \subseteq ever_stored /\ ever_stored \subseteq AllVersions
  /\ Cardinality(versions) <= KeptVersions
  /\ inspection \in [Inspections -> [stage : {"waiting", "collected", "publishing", "done"},
                                     day : 0 .. MaxBackupDay,
                                     config : {"none", "reused", "content", "failed"},
                                     reported : AllVersions \cup {NoVersion}]]

\* Whatever the order in which inspections take their time and store, no day has two
\* versions, and one that was dropped has as many kept ones of later days as are kept
\* at all.
NewestDaysAreKept ==
  /\ \A u, v \in versions : u.day = v.day => u = v
  /\ \A v \in ever_stored \ versions :
       Cardinality({u \in versions : u.day > v.day}) = KeptVersions
=============================================================================
