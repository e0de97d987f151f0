---------------------------- MODULE StationProofs ----------------------------
(***************************************************************************)
(* The components that collect or show data, for every number of           *)
(* inspections, devices, ports, requests, uploads and analyses: the newest *)
(* days keep their backups, a link is stale after two batches, pages do    *)
(* not show what has been replaced, and the logs and results that are      *)
(* needed stay.  And the components together keep their types.             *)
(***************************************************************************)
EXTENDS MCStation, SyncProofs, FiniteSetTheorems, WellFoundedInduction, TLAPS

-----------------------------------------------------------------------------
(* Configuration backups.                                                  *)

OneVersionADay(all) == \A u, v \in all : u.day = v.day => u = v

BackupsInv ==
  /\ BackupsTypeOK /\ NewestDaysAreKept /\ IsFiniteSet(versions)
  /\ \A i \in Inspections : inspection[i].stage = "publishing" => inspection[i].day # 0

\* Of versions of different days, one is the oldest.
LEMMA OldestExists ==
  ASSUME NEW all \in SUBSET AllVersions, all # {}, OneVersionADay(all)
  PROVE  \E m \in all : \A u \in all \ {m} : m.day < u.day
<1> DEFINE days == {v.day : v \in all}
<1>1. \A v \in all : v.day \in Nat
  BY BackupsAssumption DEF AllVersions, BackupsAssumption
<1>2. days \subseteq Nat /\ days # {}
  BY <1>1
<1>3. PICK first \in days : \A d \in days : ~ (<<d, first>> \in OpToRel(<, Nat))
  BY <1>2, NatLessThanWellFounded, WFMin
<1>4. \A d \in days : ~ (d < first)
  BY <1>2, <1>3 DEF OpToRel
<1>5. PICK m \in all : m.day = first
  OBVIOUS
<1>6. \A u \in all \ {m} : u.day # m.day /\ ~ (u.day < m.day)
  BY <1>4, <1>5 DEF OneVersionADay
<1> QED
  BY <1>1, <1>6

\* With a version of another day, either all are kept or the oldest goes.
LEMMA OldestGoes ==
  ASSUME NEW V \in SUBSET AllVersions, NEW new \in AllVersions, IsFiniteSet(V),
         Cardinality(V) <= KeptVersions, OneVersionADay(V), \A v \in V : v.day # new.day
  PROVE  LET all == V \cup {new}
         IN /\ Cardinality(V) < KeptVersions => kept(all, new) = all
            /\ Cardinality(V) = KeptVersions =>
                 \E m \in all : /\ \A u \in all \ {m} : m.day < u.day
                                /\ kept(all, new) = all \ {m}
            /\ IsFiniteSet(kept(all, new)) /\ Cardinality(kept(all, new)) <= KeptVersions
            /\ OneVersionADay(all)
<1> DEFINE all == V \cup {new}
           later(v) == {u \in all : u.day > v.day}
<1>1. /\ IsFiniteSet(all) /\ Cardinality(all) = Cardinality(V) + 1
      /\ Cardinality(V) \in Nat /\ KeptVersions \in Nat
  <2>1. new \notin V
    OBVIOUS
  <2> QED
    BY <2>1, FS_AddElement, FS_CardinalityType, BackupsAssumption DEF BackupsAssumption
<1>2. OneVersionADay(all) /\ all \in SUBSET AllVersions /\ all # {}
  BY DEF OneVersionADay
<1>3. \A v \in all : v.day \in Nat
  BY <1>2, BackupsAssumption DEF AllVersions, BackupsAssumption
<1>4. kept(all, new) = {v \in all : Cardinality(later(v)) < KeptVersions}
  BY DEF kept
<1> HIDE DEF all
<1>5. ASSUME NEW v \in all PROVE Cardinality(later(v)) <= Cardinality(V)
  <2>1. later(v) \in SUBSET (all \ {v})
    BY <1>3
  <2>2. IsFiniteSet(all \ {v}) /\ Cardinality(all \ {v}) = Cardinality(all) - 1
    BY <1>1, FS_RemoveElement
  <2>3. Cardinality(later(v)) <= Cardinality(all \ {v})
    BY <2>1, <2>2, FS_Subset
  <2> QED
    BY <1>1, <2>2, <2>3
<1>6. ASSUME NEW v \in all PROVE Cardinality(later(v)) \in Nat
  BY <1>1, FS_Subset, FS_CardinalityType
<1>7. ASSUME Cardinality(V) < KeptVersions
      PROVE  kept(all, new) = all /\ Cardinality(all) <= KeptVersions
  <2>1. \A v \in all : Cardinality(later(v)) < KeptVersions
    BY <1>1, <1>5, <1>6, <1>7
  <2> QED
    BY <1>1, <1>4, <1>7, <2>1
<1>8. ASSUME Cardinality(V) = KeptVersions
      PROVE  \E m \in all : /\ \A u \in all \ {m} : m.day < u.day
                            /\ kept(all, new) = all \ {m}
                            /\ Cardinality(all \ {m}) = KeptVersions
  <2>1. PICK m \in all : \A u \in all \ {m} : m.day < u.day
    BY <1>2, OldestExists
  <2>2. IsFiniteSet(all \ {m}) /\ Cardinality(all \ {m}) = KeptVersions
    <3>1. IsFiniteSet(all \ {m}) /\ Cardinality(all \ {m}) = Cardinality(all) - 1
      BY <1>1, FS_RemoveElement
    <3> QED
      BY <1>1, <1>8, <3>1
  <2>3. later(m) = all \ {m}
    BY <1>3, <2>1
  <2>4. ASSUME NEW v \in all \ {m} PROVE Cardinality(later(v)) < KeptVersions
    <3>1. later(v) \in SUBSET ((all \ {m}) \ {v})
      BY <1>3, <2>1
    <3>2. /\ IsFiniteSet((all \ {m}) \ {v})
          /\ Cardinality((all \ {m}) \ {v}) = KeptVersions - 1
      BY <2>2, FS_RemoveElement
    <3>3. Cardinality(later(v)) <= KeptVersions - 1 /\ Cardinality(later(v)) \in Nat
      BY <3>1, <3>2, <1>6, FS_Subset
    <3> QED
      BY <1>1, <3>3
  <2>5. kept(all, new) = all \ {m}
    BY <1>1, <1>4, <2>2, <2>3, <2>4
  <2> QED
    BY <2>1, <2>2, <2>5
<1>9. IsFiniteSet(kept(all, new))
  <2>1. kept(all, new) \in SUBSET all
    BY <1>4
  <2> QED
    BY <1>1, <2>1, FS_Subset
<1>10. Cardinality(kept(all, new)) <= KeptVersions
  <2>1. CASE Cardinality(V) < KeptVersions
    BY <1>7, <2>1
  <2>2. CASE Cardinality(V) = KeptVersions
    <3>1. PICK m \in all : /\ kept(all, new) = all \ {m}
                           /\ Cardinality(all \ {m}) = KeptVersions
      BY <1>8, <2>2
    <3> QED
      BY <1>1, <3>1
  <2> QED
    BY <1>1, <2>1, <2>2
<1> QED
  BY <1>2, <1>7, <1>8, <1>9, <1>10 DEF all

\* The case of Store that adds a version.
LEMMA StoreKeepsNewest ==
  ASSUME BackupsInv, NEW new \in AllVersions, of_day(new.day) = {},
         versions' = kept(versions \cup {new}, new), ever_stored' = ever_stored \cup {new}
  PROVE  /\ NewestDaysAreKept' /\ IsFiniteSet(versions')
         /\ versions' \subseteq ever_stored' /\ ever_stored' \subseteq AllVersions
         /\ Cardinality(versions') <= KeptVersions
<1> DEFINE all == versions \cup {new}
<1>1. /\ versions \in SUBSET AllVersions /\ versions \subseteq ever_stored
      /\ ever_stored \subseteq AllVersions /\ IsFiniteSet(versions)
      /\ Cardinality(versions) <= KeptVersions /\ Cardinality(versions) \in Nat
      /\ KeptVersions \in Nat
  BY FS_CardinalityType, BackupsAssumption DEF BackupsInv, BackupsTypeOK, BackupsAssumption
<1>2. OneVersionADay(versions) /\ \A v \in versions : v.day # new.day
  BY DEF BackupsInv, NewestDaysAreKept, OneVersionADay, of_day
<1>3. /\ Cardinality(versions) < KeptVersions => versions' = all
      /\ Cardinality(versions) = KeptVersions =>
           \E m \in all : (\A u \in all \ {m} : m.day < u.day) /\ versions' = all \ {m}
      /\ IsFiniteSet(versions') /\ Cardinality(versions') <= KeptVersions
      /\ OneVersionADay(all)
  BY <1>1, <1>2, OldestGoes
<1>4. \A v \in all \cup ever_stored : v.day \in Nat
  BY <1>1, BackupsAssumption DEF AllVersions, BackupsAssumption
<1>5. \A v \in ever_stored \ versions :
        Cardinality({u \in versions : u.day > v.day}) = KeptVersions
  BY DEF BackupsInv, NewestDaysAreKept
<1>6. versions' \subseteq all
  BY DEF kept
<1>7. ASSUME NEW v \in ever_stored' \ versions'
      PROVE  Cardinality({u \in versions' : u.day > v.day}) = KeptVersions
  <2>1. CASE Cardinality(versions) < KeptVersions
    <3>1. v \in ever_stored \ versions
      BY <1>3, <1>7, <2>1
    <3>2. {u \in versions : u.day > v.day} \in SUBSET versions
      OBVIOUS
    <3>3. Cardinality({u \in versions : u.day > v.day}) <= Cardinality(versions)
      BY <1>1, <3>2, FS_Subset
    <3>4. Cardinality({u \in versions : u.day > v.day}) = KeptVersions
      BY <1>5, <3>1
    <3> QED
      BY <1>1, <2>1, <3>3, <3>4
  <2>2. CASE Cardinality(versions) = KeptVersions
    <3>1. PICK m \in all : (\A u \in all \ {m} : m.day < u.day) /\ versions' = all \ {m}
      BY <1>3, <2>2
    <3>2. Cardinality(versions') = KeptVersions
      <4>1. new \notin versions
        BY <1>2
      <4>2. IsFiniteSet(all) /\ Cardinality(all) = KeptVersions + 1
        BY ONLY <1>1, <2>2, <4>1, FS_AddElement
      <4>3. Cardinality(all \ {m}) = Cardinality(all) - 1
        BY <4>2, FS_RemoveElement
      <4>4. versions' = all \ {m} /\ KeptVersions \in Nat
        BY <1>1, <3>1
      <4> QED
        BY ONLY <4>2, <4>3, <4>4
    <3>3. \A u \in versions' : u.day > v.day
      <4>1. CASE v = m
        BY <1>4, <3>1, <4>1
      <4>2. CASE v # m
        <5>1. v \in ever_stored \ versions /\ v # new
          BY <1>7, <3>1, <4>2
        <5>2. {u \in versions : u.day > v.day} = versions
          <6>1. {u \in versions : u.day > v.day} \in SUBSET versions
            OBVIOUS
          <6> QED
            BY <1>1, <1>5, <2>2, <5>1, <6>1, FS_Subset
        <5>3. \A u \in versions : u.day > v.day
          BY <5>2
        <5>4. v.day \in Nat /\ \A u \in all : u.day \in Nat
          BY <1>4, <5>1
        <5>5. CASE m = new
          BY <3>1, <5>3, <5>5
        <5>6. CASE m # new
          <6>1. m \in versions /\ new \in all \ {m}
            BY <5>6
          <6>2. m.day > v.day /\ new.day > m.day
            BY <3>1, <5>3, <5>4, <6>1
          <6>3. new.day > v.day
            BY <5>4, <6>1, <6>2
          <6> QED
            BY <3>1, <5>3, <6>3
        <5> QED
          BY <5>5, <5>6
      <4> QED
        BY <4>1, <4>2
    <3>4. {u \in versions' : u.day > v.day} = versions'
      BY <3>3
    <3> QED
      BY <3>2, <3>4
  <2> QED
    BY <1>1, <2>1, <2>2
<1>8. \A u, v \in versions' : u.day = v.day => u = v
  BY <1>3, <1>6 DEF OneVersionADay
<1> QED
  BY <1>1, <1>3, <1>6, <1>7, <1>8 DEF NewestDaysAreKept

InspectionRows ==
  [stage : {"waiting", "collected", "publishing", "done"}, day : 0 .. MaxBackupDay,
   config : {"none", "reused", "content", "failed"}, reported : AllVersions \cup {NoVersion}]

\* The other steps leave the versions as they are.
LEMMA VersionsUntouched ==
  ASSUME BackupsInv, UNCHANGED <<versions, ever_stored>>,
         backup_day' \in 1 .. MaxBackupDay,
         inspection' \in [Inspections -> InspectionRows],
         \A i \in Inspections :
           inspection'[i].stage = "publishing" => inspection'[i].day # 0
  PROVE  BackupsInv'
<1>1. BackupsTypeOK'
  BY DEF BackupsInv, BackupsTypeOK, InspectionRows, AllVersions
<1>2. NewestDaysAreKept'
  BY DEF BackupsInv, NewestDaysAreKept
<1> QED
  BY <1>1, <1>2 DEF BackupsInv

LEMMA InspectionsTyped ==
  ASSUME BackupsInv
  PROVE  /\ inspection \in [Inspections -> InspectionRows] /\ backup_day \in 1 .. MaxBackupDay
         /\ versions \subseteq AllVersions
         /\ \A i \in Inspections : inspection[i].stage = "publishing" => inspection[i].day # 0
BY DEF BackupsInv, BackupsTypeOK, InspectionRows

LEMMA CollectKeeps ==
  ASSUME BackupsInv, NEW i \in Inspections, Collect(i)
  PROVE  BackupsInv'
<1>1. UNCHANGED <<backup_day, versions, ever_stored>>
  BY DEF Collect
<1>2. PICK config \in {"reused", "content", "failed"}, v \in AllVersions \cup {NoVersion} :
        \/ inspection' = [inspection EXCEPT ![i].stage = "collected", ![i].config = config,
                                            ![i].reported = v]
        \/ inspection' = [inspection EXCEPT ![i].stage = "collected", ![i].config = config]
  BY InspectionsTyped DEF Collect, IsNewest
<1>3. /\ inspection' \in [Inspections -> InspectionRows] /\ inspection'[i].stage = "collected"
      /\ \A j \in Inspections \ {i} : inspection'[j] = inspection[j]
  BY <1>2, InspectionsTyped DEF InspectionRows
<1> QED
  BY <1>1, <1>3, InspectionsTyped, VersionsUntouched

LEMMA BeginPublicationKeeps ==
  ASSUME BackupsInv, NEW i \in Inspections, BeginPublication(i)
  PROVE  BackupsInv'
<1>1. /\ UNCHANGED <<backup_day, versions, ever_stored>>
      /\ inspection' = [inspection EXCEPT ![i].stage = "publishing", ![i].day = backup_day]
  BY DEF BeginPublication
<1>2. backup_day \in 0 .. MaxBackupDay /\ backup_day # 0
  BY InspectionsTyped
<1>3. /\ inspection' \in [Inspections -> InspectionRows] /\ inspection'[i].day = backup_day
      /\ \A j \in Inspections \ {i} : inspection'[j] = inspection[j]
  BY <1>1, <1>2, InspectionsTyped DEF InspectionRows
<1> QED
  BY <1>1, <1>2, <1>3, InspectionsTyped, VersionsUntouched

LEMMA PublishKeeps ==
  ASSUME BackupsInv, NEW i \in Inspections, Publish(i)
  PROVE  BackupsInv'
<1> DEFINE new == [day |-> inspection[i].day, by |-> i]
<1>1. /\ inspection \in [Inspections -> InspectionRows] /\ backup_day \in 1 .. MaxBackupDay
      /\ versions \subseteq AllVersions
      /\ \A j \in Inspections : inspection[j].stage = "publishing" => inspection[j].day # 0
  BY InspectionsTyped
<1>2. inspection[i].stage = "publishing" /\ backup_day' = backup_day
  BY DEF Publish
<1>3. new \in AllVersions
  BY <1>1, <1>2 DEF AllVersions, InspectionRows
<1>4. PICK v \in AllVersions :
        \/ inspection' = [inspection EXCEPT ![i].stage = "done", ![i].reported = v]
        \/ inspection' = [inspection EXCEPT ![i].stage = "done"]
  <2>1. of_day(new.day) \subseteq AllVersions
    BY <1>1 DEF of_day
  <2>2. of_day(new.day) # {} => (CHOOSE v \in of_day(new.day) : TRUE) \in AllVersions
    BY <2>1
  <2> QED
    BY <1>3, <2>2 DEF Publish, Store
<1>5. /\ inspection' \in [Inspections -> InspectionRows] /\ inspection'[i].stage = "done"
      /\ \A j \in Inspections \ {i} : inspection'[j] = inspection[j]
  BY <1>1, <1>4 DEF InspectionRows
<1>6. \A j \in Inspections : inspection'[j].stage = "publishing" => inspection'[j].day # 0
  BY <1>1, <1>5
<1>7. CASE UNCHANGED <<versions, ever_stored>>
  BY <1>1, <1>2, <1>5, <1>6, <1>7, VersionsUntouched
<1>8. CASE ~ UNCHANGED <<versions, ever_stored>>
  <2>1. /\ of_day(new.day) = {} /\ versions' = kept(versions \cup {new}, new)
        /\ ever_stored' = ever_stored \cup {new}
    BY <1>8 DEF Publish, Store
  <2> HIDE DEF new
  <2>2. /\ NewestDaysAreKept' /\ IsFiniteSet(versions')
        /\ versions' \subseteq ever_stored' /\ ever_stored' \subseteq AllVersions
        /\ Cardinality(versions') <= KeptVersions
    BY <1>3, <2>1, StoreKeepsNewest
  <2>3. BackupsTypeOK'
    BY <1>1, <1>2, <1>5, <2>2 DEF BackupsTypeOK, InspectionRows, AllVersions
  <2> QED
    BY <1>6, <2>2, <2>3 DEF BackupsInv
<1> QED
  BY <1>7, <1>8

LEMMA BackupsNextKeeps ==
  ASSUME BackupsInv, [BackupsNext]_backupVars
  PROVE  BackupsInv'
<1>1. ASSUME NEW i \in Inspections, Collect(i) \/ BeginPublication(i) \/ Publish(i)
      PROVE  BackupsInv'
  BY <1>1, CollectKeeps, BeginPublicationKeeps, PublishKeeps
<1>2. ASSUME NEW i \in Inspections, LoseInspection(i) PROVE BackupsInv'
  <2>1. /\ UNCHANGED <<backup_day, versions, ever_stored>>
        /\ inspection' = [inspection EXCEPT ![i] = Untouched]
    BY <1>2 DEF LoseInspection
  <2>2. Untouched \in InspectionRows /\ Untouched.stage = "waiting"
    BY BackupsAssumption DEF Untouched, InspectionRows, BackupsAssumption
  <2> QED
    BY <2>1, <2>2, InspectionsTyped, VersionsUntouched
<1>3. ASSUME NextBackupDay PROVE BackupsInv'
  <2>1. UNCHANGED <<versions, inspection, ever_stored>> /\ backup_day' \in 1 .. MaxBackupDay
    BY <1>3, InspectionsTyped, BackupsAssumption DEF NextBackupDay, BackupsAssumption
  <2> QED
    BY <2>1, InspectionsTyped, VersionsUntouched
<1>4. ASSUME UNCHANGED backupVars PROVE BackupsInv'
  BY <1>4, InspectionsTyped, VersionsUntouched DEF backupVars
<1> QED
  BY <1>1, <1>2, <1>3, <1>4 DEF BackupsNext

LEMMA BackupsInitHolds == BackupsInit => BackupsInv
<1> SUFFICES ASSUME BackupsInit PROVE BackupsInv
  OBVIOUS
<1>1. Untouched \in InspectionRows /\ Untouched.stage = "waiting"
  BY BackupsAssumption DEF Untouched, InspectionRows, BackupsAssumption
<1>2. inspection \in [Inspections -> InspectionRows]
  BY <1>1 DEF BackupsInit
<1>3. IsFiniteSet(versions) /\ Cardinality(versions) = 0
  BY FS_EmptySet DEF BackupsInit
<1>4. BackupsTypeOK
  BY <1>2, <1>3, BackupsAssumption DEF BackupsInit, BackupsTypeOK, InspectionRows,
     BackupsAssumption
<1> QED
  BY <1>1, <1>3, <1>4 DEF BackupsInit, BackupsInv, NewestDaysAreKept

-----------------------------------------------------------------------------
\* In whatever order inspections collect, take their time and store, and however often one
\* loses its lease, no day of a device has two backups, and every version that was dropped
\* has KeptVersions kept ones of later days
\* (net/devices/configuration_backups.py: store_configuration_backup); there are never more
\* than KeptVersions.
THEOREM NewestBackupsStay == BackupsSpec => []BackupsTypeOK /\ []NewestDaysAreKept
<1>1. BackupsInit => BackupsInv
  BY BackupsInitHolds
<1>2. BackupsInv /\ [BackupsNext]_backupVars => BackupsInv'
  BY BackupsNextKeeps
<1>3. BackupsInv => BackupsTypeOK /\ NewestDaysAreKept
  BY DEF BackupsInv
<1> QED
  BY <1>1, <1>2, <1>3, PTL DEF BackupsSpec

-----------------------------------------------------------------------------
(* Topology.                                                               *)

LinkRows == [status : {"none", "current", "stale"}, missing_complete_batches : Nat,
             local : Ports \cup {NoPort}, bidirectional : BOOLEAN]
Batches  == [device : Devices \cup {NoPort},
             status : {"none", "running", "success", "partial", "failed"}]
Threads  == [stage : {"idle", "collecting", "collected", "resolved", "ended"},
             seen : SUBSET (Ports \X Ports), complete : BOOLEAN, known : SUBSET Ports,
             old : BOOLEAN]

TopologyTyped ==
  /\ wiring \in Wirings /\ known \in SUBSET Ports
  /\ links \in [LinkKeys -> LinkRows]
  /\ topology_batch \in [TopologyTargets -> Batches]
  /\ discovery \in [TopologyTargets -> [1 .. 2 -> Threads]]
  /\ missed_by \in [LinkKeys -> SUBSET TopologyTargets]
  /\ quiet \in [Devices -> Nat]

\* A thread that runs has a batch, and a batch has a device.
ThreadsHaveBatches ==
  \A t \in TopologyTargets :
    /\ topology_batch[t].status # "none" => topology_batch[t].device \in Devices
    /\ \A a \in 1 .. 2 : discovery[t][a].stage # "idle" => topology_batch[t].status # "none"

\* What has been collected are ends of cables of the device, of the present cables if
\* none has moved since, and all of them if the collection was complete.
NeighboursBy(cables, d) == {pq \in PortsOf(d) \X Ports : {pq[1], pq[2]} \in cables}

HasSeen(thread, d, cables) ==
  /\ \A pq \in thread.seen : DeviceOf[pq[1]] = d /\ DeviceOf[pq[2]] # d
  /\ ~ thread.old => thread.seen \subseteq NeighboursBy(cables, d)
  /\ ~ thread.old /\ thread.complete => thread.seen = NeighboursBy(cables, d)

SightingsFit ==
  \A t \in TopologyTargets, a \in 1 .. 2 :
    discovery[t][a].stage \in {"collected", "resolved"}
      => HasSeen(discovery[t][a], topology_batch[t].device, wiring)

\* Only batches that are complete have missed a link.
MissesAreComplete ==
  \A k \in LinkKeys :
    /\ \A t \in missed_by[k] : topology_batch[t].status \in {"success", "partial"}
    /\ links[k].status = "none" => missed_by[k] = {}

LinkInv ==
  TopologyTyped /\ ThreadsHaveBatches /\ SightingsFit /\ MissesAreComplete /\ StaleNeedsTwoBatches

\* The key of a link is one of the two its ends allow on each side.
LEMMA KeyOfLink ==
  ASSUME NEW p \in Ports, NEW q \in Ports, DeviceOf[p] # DeviceOf[q], NEW interfaces
  PROVE  /\ stable_link_key(p, q, interfaces) \in LinkKeys
         /\ [ends |-> {p, q}, named_by |-> NoPort] \in LinkKeys
         /\ stable_link_key(p, q, interfaces).ends = {p, q}
         /\ stable_link_key(p, q, interfaces).named_by
              = IF q \in interfaces THEN NoPort ELSE p
<1>1. {p, q} \in SUBSET Ports /\ Cardinality({p, q}) = 2
  <2>1. p # q
    OBVIOUS
  <2>2. IsFiniteSet({p}) /\ Cardinality({p}) = 1
    BY FS_Singleton
  <2>3. Cardinality({p} \cup {q}) = 2
    BY ONLY <2>1, <2>2, FS_AddElement
  <2>4. {p} \cup {q} = {p, q}
    OBVIOUS
  <2> QED
    BY <2>3, <2>4
<1> QED
  BY <1>1 DEF stable_link_key, LinkKeys

LEMMA TopologyInitHolds == TopologyInit => LinkInv
<1> SUFFICES ASSUME TopologyInit PROVE LinkInv
  OBVIOUS
<1>1. TopologyTyped
  <2>1. NoLink \in LinkRows /\ NoDiscovery \in Threads
    BY DEF NoLink, LinkRows, NoDiscovery, Threads
  <2>2. [device |-> NoPort, status |-> "none"] \in Batches
    BY DEF Batches
  <2> QED
    BY <2>1, <2>2 DEF TopologyInit, TopologyTyped
<1>2. \A k \in LinkKeys : links[k] = NoLink /\ missed_by[k] = {}
  BY DEF TopologyInit
<1>3. MissesAreComplete /\ StaleNeedsTwoBatches
  <2>1. \A k \in LinkKeys : links[k].status = "none" /\ links[k].missing_complete_batches = 0
    BY <1>2 DEF NoLink
  <2>2. \A k \in LinkKeys : Cardinality(missed_by[k]) = 0
    BY <1>2, FS_EmptySet
  <2> QED
    BY <1>2, <2>1, <2>2 DEF MissesAreComplete, StaleNeedsTwoBatches
<1>4. \A t \in TopologyTargets :
        /\ topology_batch[t].status = "none"
        /\ \A a \in 1 .. 2 : discovery[t][a].stage = "idle"
  BY DEF TopologyInit, NoDiscovery
<1> QED
  BY <1>1, <1>3, <1>4 DEF LinkInv, ThreadsHaveBatches, SightingsFit

\* Steps of one thread that leave links and cables as they are.
LEMMA LinksUntouched ==
  ASSUME LinkInv, UNCHANGED <<wiring, known, links, missed_by, quiet>>,
         topology_batch' \in [TopologyTargets -> Batches],
         discovery' \in [TopologyTargets -> [1 .. 2 -> Threads]],
         \A t \in TopologyTargets :
           topology_batch[t].status \in {"success", "partial"}
             => topology_batch'[t] = topology_batch[t],
         ThreadsHaveBatches', SightingsFit'
  PROVE  LinkInv'
<1>1. TopologyTyped'
  BY DEF LinkInv, TopologyTyped
<1>2. MissesAreComplete'
  BY DEF LinkInv, TopologyTyped, MissesAreComplete
<1>3. StaleNeedsTwoBatches'
  BY DEF LinkInv, StaleNeedsTwoBatches
<1> QED
  BY <1>1, <1>2, <1>3 DEF LinkInv

\* One thread changes its stage, and the rest of it only as allowed.
LEMMA ThreadMoves ==
  ASSUME LinkInv, NEW t \in TopologyTargets, NEW a \in 1 .. 2, NEW thread \in Threads,
         discovery' = [discovery EXCEPT ![t][a] = thread],
         UNCHANGED <<topology_plan, wiring, known, links, missed_by, quiet, topology_batch>>,
         topology_batch[t].status # "none",
         thread.stage \in {"collected", "resolved"}
           => HasSeen(thread, topology_batch[t].device, wiring)
  PROVE  LinkInv'
<1>1. /\ discovery' \in [TopologyTargets -> [1 .. 2 -> Threads]]
      /\ discovery'[t][a] = thread
      /\ \A u \in TopologyTargets, b \in 1 .. 2 :
           u # t \/ b # a => discovery'[u][b] = discovery[u][b]
  BY DEF LinkInv, TopologyTyped
<1>2. topology_batch' \in [TopologyTargets -> Batches]
  BY DEF LinkInv, TopologyTyped
<1>3. ThreadsHaveBatches'
  <2>1. \A u \in TopologyTargets :
          topology_batch[u].status # "none" => topology_batch[u].device \in Devices
    BY DEF LinkInv, ThreadsHaveBatches
  <2>2. ASSUME NEW u \in TopologyTargets, NEW b \in 1 .. 2, discovery'[u][b].stage # "idle"
        PROVE  topology_batch[u].status # "none"
    BY <1>1, <2>2 DEF LinkInv, ThreadsHaveBatches
  <2> QED
    BY <2>1, <2>2 DEF ThreadsHaveBatches
<1>4. SightingsFit'
  <2>1. ASSUME NEW u \in TopologyTargets, NEW b \in 1 .. 2,
               discovery'[u][b].stage \in {"collected", "resolved"}
        PROVE  HasSeen(discovery'[u][b], topology_batch[u].device, wiring)
    BY <1>1, <2>1 DEF LinkInv, SightingsFit
  <2> QED
    BY <2>1 DEF SightingsFit
<1> QED
  BY <1>1, <1>2, <1>3, <1>4, LinksUntouched

LEMMA RetryTargetKeeps ==
  ASSUME LinkInv, NEW t \in TopologyTargets, RetryTarget(t)
  PROVE  LinkInv'
<1> DEFINE thread == [discovery[t][2] EXCEPT !.stage = "collecting"]
<1>1. discovery \in [TopologyTargets -> [1 .. 2 -> Threads]] /\ 2 \in 1 .. 2
  BY DEF LinkInv, TopologyTyped
<1>2. thread \in Threads /\ thread.stage = "collecting"
  BY <1>1 DEF Threads
<1>3. /\ discovery' = [discovery EXCEPT ![t][2] = thread]
      /\ UNCHANGED <<topology_plan, wiring, known, links, missed_by, quiet, topology_batch>>
      /\ topology_batch[t].status # "none"
  BY DEF RetryTarget
<1> HIDE DEF thread
<1> QED
  BY <1>1, <1>2, <1>3, ThreadMoves

LEMMA CollectNeighboursKeeps ==
  ASSUME LinkInv, NEW t \in TopologyTargets, NEW a \in 1 .. 2, CollectNeighbours(t, a)
  PROVE  LinkInv'
<1> DEFINE d == topology_batch[t].device
<1>1. /\ topology_batch[t].status # "none" /\ d \in Devices /\ wiring \in Wirings
  BY DEF CollectNeighbours, LinkInv, ThreadsHaveBatches, TopologyTyped
<1>2. PICK seen \in SUBSET neighbours(d), complete \in BOOLEAN :
        /\ complete => seen = neighbours(d)
        /\ discovery' = [discovery EXCEPT ![t][a] =
                           [stage |-> "collected", seen |-> seen, complete |-> complete,
                            known |-> {}, old |-> FALSE]]
  BY DEF CollectNeighbours
<1> DEFINE thread == [stage |-> "collected", seen |-> seen, complete |-> complete,
                      known |-> {}, old |-> FALSE]
<1>3. neighbours(d) = NeighboursBy(wiring, d)
  BY DEF neighbours, NeighboursBy
<1>4. \A pq \in neighbours(d) : pq \in Ports \X Ports /\ DeviceOf[pq[1]] = d /\ DeviceOf[pq[2]] # d
  <2> SUFFICES ASSUME NEW pq \in neighbours(d)
               PROVE  pq \in Ports \X Ports /\ DeviceOf[pq[1]] = d /\ DeviceOf[pq[2]] # d
    OBVIOUS
  <2>1. pq \in PortsOf(d) \X Ports /\ {pq[1], pq[2]} \in wiring
    BY DEF neighbours
  <2>2. PICK p \in Ports, q \in Ports : {pq[1], pq[2]} = {p, q} /\ DeviceOf[p] # DeviceOf[q]
    BY <1>1, <2>1, TopologyAssumption DEF TopologyAssumption
  <2> QED
    BY <2>1, <2>2 DEF PortsOf
<1>5. thread \in Threads /\ HasSeen(thread, d, wiring)
  <2>1. seen \in SUBSET (Ports \X Ports)
    BY <1>4
  <2>2. thread \in Threads
    BY <2>1 DEF Threads
  <2>3. \A pq \in seen : DeviceOf[pq[1]] = d /\ DeviceOf[pq[2]] # d
    BY <1>4
  <2> QED
    BY <1>2, <1>3, <2>2, <2>3 DEF HasSeen
<1>6. /\ discovery' = [discovery EXCEPT ![t][a] = thread]
      /\ UNCHANGED <<topology_plan, wiring, known, links, missed_by, quiet, topology_batch>>
  BY <1>2 DEF CollectNeighbours
<1> HIDE DEF thread
<1> QED
  BY <1>1, <1>5, <1>6, ThreadMoves

LEMMA ResolvePayloadKeeps ==
  ASSUME LinkInv, NEW t \in TopologyTargets, NEW a \in 1 .. 2, ResolvePayload(t, a)
  PROVE  LinkInv'
<1> DEFINE thread == [discovery[t][a] EXCEPT !.stage = "resolved", !.known = known]
<1>1. /\ discovery \in [TopologyTargets -> [1 .. 2 -> Threads]] /\ known \in SUBSET Ports
      /\ topology_batch[t].status # "none" /\ discovery[t][a].stage = "collected"
      /\ HasSeen(discovery[t][a], topology_batch[t].device, wiring)
  BY DEF LinkInv, TopologyTyped, ResolvePayload, ThreadsHaveBatches, SightingsFit
<1>2. /\ thread \in Threads /\ thread.seen = discovery[t][a].seen
      /\ thread.complete = discovery[t][a].complete /\ thread.old = discovery[t][a].old
      /\ thread.stage = "resolved"
  <2> DEFINE first == [discovery[t][a] EXCEPT !.stage = "resolved"]
  <2>1. /\ first \in Threads /\ first.seen = discovery[t][a].seen
        /\ first.complete = discovery[t][a].complete /\ first.old = discovery[t][a].old
        /\ first.stage = "resolved"
    BY <1>1 DEF Threads
  <2>2. thread = [first EXCEPT !.known = known]
    OBVIOUS
  <2> HIDE DEF first, thread
  <2> QED
    BY <1>1, <2>1, <2>2 DEF Threads
<1>3. discovery' = [discovery EXCEPT ![t][a] = thread]
  <2>1. discovery' = [discovery EXCEPT ![t][a].stage = "resolved", ![t][a].known = known]
    BY DEF ResolvePayload
  <2> QED
    BY ONLY <1>1, <2>1, t \in TopologyTargets, a \in 1 .. 2 DEF Threads
<1>4. UNCHANGED <<topology_plan, wiring, known, links, missed_by, quiet, topology_batch>>
  BY DEF ResolvePayload
<1>5. HasSeen(thread, topology_batch[t].device, wiring)
  BY <1>1, <1>2 DEF HasSeen
<1> HIDE DEF thread
<1> QED
  BY <1>1, <1>2, <1>3, <1>4, <1>5, ThreadMoves

LEMMA BeginBatchKeeps ==
  ASSUME LinkInv, NEW t \in TopologyTargets, NEW d \in Devices, BeginBatch(t, d)
  PROVE  LinkInv'
<1>1. /\ topology_batch \in [TopologyTargets -> Batches]
      /\ discovery \in [TopologyTargets -> [1 .. 2 -> Threads]]
      /\ topology_batch[t].status = "none"
  BY DEF LinkInv, TopologyTyped, BeginBatch, TopologyTargets
<1>2. /\ topology_batch' = [topology_batch EXCEPT ![t] = [device |-> d, status |-> "running"]]
      /\ discovery' = [discovery EXCEPT ![t][1].stage = "collecting"]
      /\ UNCHANGED <<wiring, known, links, missed_by, quiet>>
  BY DEF BeginBatch
<1>3. /\ topology_batch' \in [TopologyTargets -> Batches]
      /\ topology_batch'[t] = [device |-> d, status |-> "running"]
      /\ \A u \in TopologyTargets \ {t} : topology_batch'[u] = topology_batch[u]
  <2>1. [device |-> d, status |-> "running"] \in Batches
    BY DEF Batches
  <2> QED
    BY <1>1, <1>2, <2>1
<1>4. /\ discovery' \in [TopologyTargets -> [1 .. 2 -> Threads]]
      /\ \A u \in TopologyTargets \ {t} : discovery'[u] = discovery[u]
      /\ discovery'[t][1].stage = "collecting" /\ discovery'[t][2] = discovery[t][2]
  <2> DEFINE thread == [discovery[t][1] EXCEPT !.stage = "collecting"]
  <2>1. thread \in Threads /\ thread.stage = "collecting"
    BY <1>1 DEF Threads
  <2>2. discovery' = [discovery EXCEPT ![t][1] = thread]
    BY <1>2
  <2> HIDE DEF thread
  <2> QED
    BY <1>1, <2>1, <2>2
<1>5. discovery[t][2].stage = "idle"
  BY <1>1 DEF LinkInv, ThreadsHaveBatches
<1>6. \A b \in 1 .. 2 : b = 1 \/ b = 2
  OBVIOUS
<1>7. ThreadsHaveBatches'
  BY <1>3, <1>4 DEF LinkInv, ThreadsHaveBatches
<1>8. SightingsFit'
  <2>1. ASSUME NEW u \in TopologyTargets, NEW b \in 1 .. 2,
               discovery'[u][b].stage \in {"collected", "resolved"}
        PROVE  HasSeen(discovery'[u][b], topology_batch'[u].device, wiring)
    <3>1. u # t
      BY <1>4, <1>5, <1>6, <2>1
    <3> QED
      BY <1>3, <1>4, <2>1, <3>1 DEF LinkInv, SightingsFit
  <2> QED
    BY <1>2, <2>1 DEF SightingsFit
<1>9. \A u \in TopologyTargets :
        topology_batch[u].status \in {"success", "partial"}
          => topology_batch'[u] = topology_batch[u]
  BY <1>1, <1>3
<1> QED
  BY <1>2, <1>3, <1>4, <1>7, <1>8, <1>9, LinksUntouched

LEMMA FailBatchKeeps ==
  ASSUME LinkInv, NEW t \in TopologyTargets, NEW a \in 1 .. 2, FailBatch(t, a)
  PROVE  LinkInv'
<1>1. /\ topology_batch \in [TopologyTargets -> Batches]
      /\ discovery \in [TopologyTargets -> [1 .. 2 -> Threads]]
      /\ topology_batch[t].status # "none"
  BY DEF LinkInv, TopologyTyped, FailBatch, ThreadsHaveBatches
<1>2. /\ topology_batch' = [topology_batch EXCEPT ![t].status =
                              IF @ = "running" THEN "failed" ELSE @]
      /\ discovery' = [discovery EXCEPT ![t][a] = Ended]
      /\ UNCHANGED <<wiring, known, links, missed_by, quiet>>
  BY DEF FailBatch
<1>3. Ended \in Threads /\ Ended.stage = "ended"
  BY DEF Ended, NoDiscovery, Threads
<1>4. /\ topology_batch' \in [TopologyTargets -> Batches]
      /\ \A u \in TopologyTargets :
           /\ topology_batch'[u].device = topology_batch[u].device
           /\ topology_batch'[u].status = "none" <=> topology_batch[u].status = "none"
           /\ topology_batch[u].status \in {"success", "partial"}
                => topology_batch'[u] = topology_batch[u]
  BY <1>1, <1>2 DEF Batches
<1>5. /\ discovery' \in [TopologyTargets -> [1 .. 2 -> Threads]]
      /\ discovery'[t][a] = Ended
      /\ \A u \in TopologyTargets, b \in 1 .. 2 :
           u # t \/ b # a => discovery'[u][b] = discovery[u][b]
  BY <1>1, <1>2, <1>3
<1>6. ThreadsHaveBatches'
  BY <1>1, <1>4, <1>5 DEF LinkInv, ThreadsHaveBatches
<1>7. SightingsFit'
  <2>1. ASSUME NEW u \in TopologyTargets, NEW b \in 1 .. 2,
               discovery'[u][b].stage \in {"collected", "resolved"}
        PROVE  HasSeen(discovery'[u][b], topology_batch'[u].device, wiring)
    <3>1. discovery'[u][b] = discovery[u][b]
      BY <1>3, <1>5, <2>1
    <3> QED
      BY <1>4, <2>1, <3>1 DEF LinkInv, SightingsFit
  <2> QED
    BY <1>2, <2>1 DEF SightingsFit
<1> QED
  BY <1>2, <1>4, <1>5, <1>6, <1>7, LinksUntouched

\* A cable is moved: what was collected before is old.
LEMMA RewireKeeps == ASSUME LinkInv, Rewire PROVE LinkInv'
<1>1. /\ discovery \in [TopologyTargets -> [1 .. 2 -> Threads]] /\ wiring' \in Wirings
      /\ UNCHANGED <<known, links, topology_batch, missed_by>>
      /\ quiet' = [d \in Devices |-> 0]
  BY DEF LinkInv, TopologyTyped, Rewire
<1> DEFINE collected(t, a) == discovery[t][a].stage \in {"collected", "resolved"}
<1>2. /\ discovery' \in [TopologyTargets -> [1 .. 2 -> Threads]]
      /\ \A t \in TopologyTargets, a \in 1 .. 2 :
           /\ discovery'[t][a].stage = discovery[t][a].stage
           /\ discovery'[t][a].seen = discovery[t][a].seen
           /\ collected(t, a) => discovery'[t][a].old
  <2>1. discovery' = [t \in TopologyTargets |-> [a \in 1 .. 2 |->
                        [discovery[t][a] EXCEPT !.old = @ \/ collected(t, a)]]]
    BY DEF Rewire
  <2>2. \A t \in TopologyTargets, a \in 1 .. 2 :
          (discovery[t][a].old \/ collected(t, a)) \in BOOLEAN
    OBVIOUS
  <2>3. ASSUME NEW t \in TopologyTargets, NEW a \in 1 .. 2
        PROVE  /\ discovery'[t][a] \in Threads
               /\ discovery'[t][a].stage = discovery[t][a].stage
               /\ discovery'[t][a].seen = discovery[t][a].seen
               /\ collected(t, a) => discovery'[t][a].old
    <3>1. discovery[t][a] \in Threads
      BY <1>1
    <3>2. discovery'[t][a] = [discovery[t][a] EXCEPT !.old = discovery[t][a].old \/ collected(t, a)]
      BY <2>1
    <3>3. CASE collected(t, a)
      <4>1. discovery'[t][a] = [discovery[t][a] EXCEPT !.old = TRUE]
        BY <3>2, <3>3
      <4> QED
        BY <3>1, <4>1 DEF Threads
    <3>4. CASE ~ collected(t, a)
      <4>1. discovery'[t][a] = [discovery[t][a] EXCEPT !.old = discovery[t][a].old \/ FALSE]
        BY <3>2, <3>4
      <4>2. PICK old \in BOOLEAN : discovery'[t][a] = [discovery[t][a] EXCEPT !.old = old]
        BY <4>1
      <4> QED
        BY <3>1, <3>4, <4>2 DEF Threads
    <3> QED
      BY <3>3, <3>4
  <2> QED
    BY <2>1, <2>3
<1>3. TopologyTyped'
  BY <1>1, <1>2 DEF LinkInv, TopologyTyped
<1>4. ThreadsHaveBatches'
  BY <1>1, <1>2 DEF LinkInv, ThreadsHaveBatches
<1>5. SightingsFit'
  BY <1>1, <1>2 DEF LinkInv, SightingsFit, HasSeen
<1>6. MissesAreComplete' /\ StaleNeedsTwoBatches'
  BY <1>1 DEF LinkInv, MissesAreComplete, StaleNeedsTwoBatches
<1> QED
  BY <1>3, <1>4, <1>5, <1>6 DEF LinkInv

-----------------------------------------------------------------------------
(* Completing a batch.                                                     *)

SeenKeys(t, a) ==
  {stable_link_key(pq[1], pq[2], discovery[t][a].known) : pq \in discovery[t][a].seen}
MissedKeys(t, a) ==
  {k \in LinkKeys \ SeenKeys(t, a) : /\ discovery[t][a].complete /\ links[k].status = "current"
                                     /\ \E p \in k.ends : DeviceOf[p] = topology_batch[t].device}

LEMMA EndedThread == Ended \in Threads /\ Ended.stage = "ended"
BY DEF Ended, NoDiscovery, Threads

\* The link of a sighting joins a port of the device to one of another device.
LEMMA SeenKey ==
  ASSUME LinkInv, NEW t \in TopologyTargets, NEW a \in 1 .. 2, discovery[t][a].stage = "resolved",
         NEW pq \in discovery[t][a].seen
  PROVE  LET k == stable_link_key(pq[1], pq[2], discovery[t][a].known)
         IN /\ pq[1] \in Ports /\ pq[2] \in Ports /\ k \in LinkKeys /\ k.ends = {pq[1], pq[2]}
            /\ k.named_by = IF pq[2] \in discovery[t][a].known THEN NoPort ELSE pq[1]
            /\ DeviceOf[pq[1]] = topology_batch[t].device
            /\ DeviceOf[pq[2]] # topology_batch[t].device
<1>1. discovery[t][a].seen \subseteq Ports \X Ports
  BY DEF LinkInv, TopologyTyped, Threads
<1>2. HasSeen(discovery[t][a], topology_batch[t].device, wiring)
  BY DEF LinkInv, SightingsFit
<1>3. /\ DeviceOf[pq[1]] = topology_batch[t].device
      /\ DeviceOf[pq[2]] # topology_batch[t].device
  BY <1>2 DEF HasSeen
<1>4. PICK p \in Ports, q \in Ports : p = pq[1] /\ q = pq[2]
  BY <1>1
<1>5. DeviceOf[p] # DeviceOf[q]
  BY <1>3, <1>4
<1>6. \A interfaces :
        /\ stable_link_key(p, q, interfaces) \in LinkKeys
        /\ stable_link_key(p, q, interfaces).ends = {p, q}
        /\ stable_link_key(p, q, interfaces).named_by = IF q \in interfaces THEN NoPort ELSE p
  BY <1>5, KeyOfLink
<1> QED
  BY <1>3, <1>4, <1>6

\* What completing a batch writes, link by link.
LEMMA CompletedLinks ==
  ASSUME LinkInv, NEW t \in TopologyTargets, NEW a \in 1 .. 2, CompleteBatch(t, a), is_open(t)
  PROVE  /\ links' \in [LinkKeys -> LinkRows] /\ missed_by' \in [LinkKeys -> SUBSET TopologyTargets]
         /\ SeenKeys(t, a) \subseteq LinkKeys
         /\ \A k \in SeenKeys(t, a) :
              /\ links'[k].status = "current" /\ links'[k].missing_complete_batches = 0
              /\ missed_by'[k] = {}
         /\ \A k \in MissedKeys(t, a) :
              /\ links'[k].missing_complete_batches = links[k].missing_complete_batches + 1
              /\ links'[k].status = IF links[k].missing_complete_batches + 1 >= 2
                                    THEN "stale" ELSE "current"
              /\ missed_by'[k] = missed_by[k] \cup {t}
         /\ \A k \in LinkKeys \ (SeenKeys(t, a) \cup MissedKeys(t, a)) :
              links'[k] = links[k] /\ missed_by'[k] = missed_by[k]
<1> DEFINE d == topology_batch[t].device
           near(k) == CHOOSE p \in k.ends : DeviceOf[p] = d
<1>1. links \in [LinkKeys -> LinkRows] /\ missed_by \in [LinkKeys -> SUBSET TopologyTargets]
  BY DEF LinkInv, TopologyTyped
<1>2. discovery[t][a].stage = "resolved"
  BY DEF CompleteBatch
<1>3. ASSUME NEW k \in SeenKeys(t, a) PROVE k \in LinkKeys /\ near(k) \in Ports
  <2>1. PICK pq \in discovery[t][a].seen :
          k = stable_link_key(pq[1], pq[2], discovery[t][a].known)
    BY DEF SeenKeys
  <2>2. /\ k \in LinkKeys /\ k.ends = {pq[1], pq[2]} /\ pq[1] \in Ports /\ pq[2] \in Ports
        /\ DeviceOf[pq[1]] = d
    BY <1>2, <2>1, SeenKey
  <2>3. near(k) \in k.ends
    BY <2>2
  <2> QED
    BY <2>2, <2>3
<1>4. /\ links' = [k \in LinkKeys |->
                     IF k \in SeenKeys(t, a) THEN seen_link(links[k], near(k))
                     ELSE IF k \in MissedKeys(t, a) THEN missed_link(links[k])
                     ELSE links[k]]
      /\ missed_by' = [k \in LinkKeys |->
                         IF k \in SeenKeys(t, a) THEN {}
                         ELSE IF k \in MissedKeys(t, a) THEN missed_by[k] \cup {t}
                         ELSE missed_by[k]]
  BY DEF CompleteBatch, SeenKeys, MissedKeys
<1> HIDE DEF near
<1>5. ASSUME NEW k \in SeenKeys(t, a)
      PROVE  /\ seen_link(links[k], near(k)) \in LinkRows
             /\ seen_link(links[k], near(k)).status = "current"
             /\ seen_link(links[k], near(k)).missing_complete_batches = 0
  <2>1. near(k) \in Ports /\ links[k] \in LinkRows
    BY <1>1, <1>3
  <2>2. PICK both \in BOOLEAN, local \in Ports \cup {NoPort} :
          seen_link(links[k], near(k)) =
            [status |-> "current", missing_complete_batches |-> 0, local |-> local,
             bidirectional |-> both]
    <3>1. (IF links[k].status = "none" THEN FALSE
           ELSE links[k].bidirectional \/ DeviceOf[links[k].local] # DeviceOf[near(k)]) \in BOOLEAN
      OBVIOUS
    <3>2. (IF links[k].status = "none" THEN near(k) ELSE links[k].local) \in Ports \cup {NoPort}
      BY <2>1 DEF LinkRows
    <3> QED
      BY ONLY <3>1, <3>2 DEF seen_link
  <2> QED
    BY <2>2 DEF LinkRows
<1>6. ASSUME NEW k \in MissedKeys(t, a)
      PROVE  /\ missed_link(links[k]) \in LinkRows
             /\ missed_link(links[k]).missing_complete_batches
                  = links[k].missing_complete_batches + 1
             /\ missed_link(links[k]).status = IF links[k].missing_complete_batches + 1 >= 2
                                               THEN "stale" ELSE "current"
  <2>1. k \in LinkKeys /\ links[k] \in LinkRows /\ links[k].status = "current"
    BY <1>1 DEF MissedKeys
  <2> DEFINE first == [links[k] EXCEPT !.missing_complete_batches = @ + 1]
             after == IF links[k].missing_complete_batches + 1 >= 2 THEN "stale" ELSE "current"
  <2>2. /\ first \in LinkRows
        /\ first.missing_complete_batches = links[k].missing_complete_batches + 1
    BY <2>1 DEF LinkRows
  <2>3. missed_link(links[k]) = [first EXCEPT !.status = after]
    BY <2>1 DEF missed_link, LinkRows
  <2>4. after \in {"none", "current", "stale"}
    OBVIOUS
  <2> HIDE DEF first
  <2> QED
    BY <2>2, <2>3, <2>4 DEF LinkRows
<1>7. MissedKeys(t, a) \subseteq LinkKeys /\ MissedKeys(t, a) \cap SeenKeys(t, a) = {}
  BY DEF MissedKeys
<1>8. links' \in [LinkKeys -> LinkRows]
  BY <1>1, <1>4, <1>5, <1>6
<1>9. missed_by' \in [LinkKeys -> SUBSET TopologyTargets]
  BY <1>1, <1>4
<1>10. SeenKeys(t, a) \subseteq LinkKeys
  BY <1>3
<1> QED
  BY <1>4, <1>5, <1>6, <1>7, <1>8, <1>9, <1>10

LEMMA CompleteBatchKeeps ==
  ASSUME LinkInv, NEW t \in TopologyTargets, NEW a \in 1 .. 2, CompleteBatch(t, a)
  PROVE  LinkInv'
<1> DEFINE d == topology_batch[t].device
<1>1. /\ topology_batch \in [TopologyTargets -> Batches]
      /\ discovery \in [TopologyTargets -> [1 .. 2 -> Threads]]
      /\ topology_batch[t].status # "none" /\ d \in Devices
      /\ discovery[t][a].stage = "resolved"
  BY DEF LinkInv, TopologyTyped, CompleteBatch, ThreadsHaveBatches
<1>2. discovery' = [discovery EXCEPT ![t][a] = Ended]
  BY DEF CompleteBatch
<1>3. ASSUME ~ is_open(t) PROVE LinkInv'
  <2>1. UNCHANGED <<topology_plan, wiring, known, links, missed_by, quiet, topology_batch>>
    BY <1>3 DEF CompleteBatch
  <2> QED
    BY <1>1, <1>2, <2>1, EndedThread, ThreadMoves
<1>4. ASSUME is_open(t) PROVE LinkInv'
  <2>1. /\ links' \in [LinkKeys -> LinkRows]
        /\ missed_by' \in [LinkKeys -> SUBSET TopologyTargets]
        /\ SeenKeys(t, a) \subseteq LinkKeys
        /\ \A k \in SeenKeys(t, a) :
             /\ links'[k].status = "current" /\ links'[k].missing_complete_batches = 0
             /\ missed_by'[k] = {}
        /\ \A k \in MissedKeys(t, a) :
             /\ links'[k].missing_complete_batches = links[k].missing_complete_batches + 1
             /\ links'[k].status = IF links[k].missing_complete_batches + 1 >= 2
                                   THEN "stale" ELSE "current"
             /\ missed_by'[k] = missed_by[k] \cup {t}
        /\ \A k \in LinkKeys \ (SeenKeys(t, a) \cup MissedKeys(t, a)) :
             links'[k] = links[k] /\ missed_by'[k] = missed_by[k]
    BY <1>4, CompletedLinks
  <2>2. PICK status \in {"success", "partial"} :
          topology_batch' = [topology_batch EXCEPT ![t].status = status]
    BY <1>4 DEF CompleteBatch
  <2>3. /\ topology_batch' \in [TopologyTargets -> Batches]
        /\ topology_batch'[t].status \in {"success", "partial"}
        /\ topology_batch'[t].device = d
        /\ \A u \in TopologyTargets \ {t} : topology_batch'[u] = topology_batch[u]
    BY <1>1, <2>2 DEF Batches
  <2>4. /\ discovery' \in [TopologyTargets -> [1 .. 2 -> Threads]]
        /\ discovery'[t][a].stage = "ended"
        /\ \A u \in TopologyTargets, b \in 1 .. 2 :
             u # t \/ b # a => discovery'[u][b] = discovery[u][b]
    BY <1>1, <1>2, EndedThread
  <2>5. /\ wiring' = wiring /\ wiring' \in Wirings /\ known' \in SUBSET Ports
        /\ quiet' \in [Devices -> Nat]
    <3>0. PICK reported \in SUBSET PortsOf(d) : known' = known \cup reported
      BY <1>4 DEF CompleteBatch
    <3>1. /\ wiring' = wiring
          /\ quiet' \in {[e \in Devices |-> 0], [quiet EXCEPT ![d] = @ + 1], quiet}
      BY <1>4 DEF CompleteBatch
    <3>2. wiring \in Wirings /\ known \in SUBSET Ports /\ quiet \in [Devices -> Nat]
      BY DEF LinkInv, TopologyTyped
    <3> QED
      BY ONLY <3>0, <3>1, <3>2 DEF PortsOf
  <2>6. TopologyTyped'
    BY <2>1, <2>3, <2>4, <2>5 DEF TopologyTyped
  <2>7. ThreadsHaveBatches'
    <3>1. \A u \in TopologyTargets :
            /\ topology_batch'[u].device = topology_batch[u].device
            /\ topology_batch'[u].status # "none" <=> topology_batch[u].status # "none"
      BY <1>1, <2>3
    <3>2. \A u \in TopologyTargets, b \in 1 .. 2 :
            discovery'[u][b].stage # "idle" => topology_batch[u].status # "none"
      BY <1>1, <2>4 DEF LinkInv, ThreadsHaveBatches
    <3> QED
      BY <3>1, <3>2 DEF LinkInv, ThreadsHaveBatches
  <2>8. SightingsFit'
    <3>1. ASSUME NEW u \in TopologyTargets, NEW b \in 1 .. 2,
                 discovery'[u][b].stage \in {"collected", "resolved"}
          PROVE  HasSeen(discovery'[u][b], topology_batch'[u].device, wiring)
      <4>1. discovery'[u][b] = discovery[u][b]
        BY <2>4, <3>1
      <4>2. topology_batch'[u].device = topology_batch[u].device
        BY <2>3
      <4> QED
        BY <3>1, <4>1, <4>2 DEF LinkInv, SightingsFit
    <3> QED
      BY <2>5, <3>1 DEF SightingsFit
  <2>9. ASSUME NEW k \in LinkKeys
        PROVE  /\ \A u \in missed_by'[k] : topology_batch'[u].status \in {"success", "partial"}
               /\ links'[k].status = "none" => missed_by'[k] = {}
               /\ links'[k].missing_complete_batches = Cardinality(missed_by'[k])
               /\ links'[k].status = "stale" <=> Cardinality(missed_by'[k]) >= 2
    <3>1. /\ \A u \in missed_by[k] : /\ u \in TopologyTargets
                                     /\ topology_batch[u].status \in {"success", "partial"}
          /\ links[k].status = "none" => missed_by[k] = {}
          /\ links[k].missing_complete_batches = Cardinality(missed_by[k])
          /\ links[k].status = "stale" <=> Cardinality(missed_by[k]) >= 2
          /\ IsFiniteSet(missed_by[k])
      <4>1. missed_by[k] \in SUBSET TopologyTargets
        BY DEF LinkInv, TopologyTyped
      <4>2. IsFiniteSet(TopologyTargets)
        BY FS_Interval, TopologyAssumption DEF TopologyTargets, TopologyAssumption
      <4>3. IsFiniteSet(missed_by[k])
        BY <4>1, <4>2, FS_Subset
      <4> QED
        BY <4>1, <4>3 DEF LinkInv, MissesAreComplete, StaleNeedsTwoBatches
    <3>2. \A u \in missed_by[k] : topology_batch'[u].status \in {"success", "partial"}
      BY <2>3, <3>1
    <3>3. CASE k \in SeenKeys(t, a)
      <4>1. missed_by'[k] = {} /\ Cardinality({}) = 0
        BY <2>1, <3>3, FS_EmptySet
      <4>2. Cardinality(missed_by'[k]) = 0
        BY <4>1
      <4> QED
        BY <2>1, <3>3, <4>1, <4>2
    <3>4. CASE k \in MissedKeys(t, a)
      <4>1. t \notin missed_by[k]
        BY <1>4, <3>1 DEF is_open
      <4>2. /\ Cardinality(missed_by[k] \cup {t}) = Cardinality(missed_by[k]) + 1
            /\ Cardinality(missed_by[k]) \in Nat
        BY <3>1, <4>1, FS_AddElement, FS_CardinalityType
      <4>3. /\ links'[k].missing_complete_batches = Cardinality(missed_by[k]) + 1
            /\ links'[k].status = IF Cardinality(missed_by[k]) + 1 >= 2
                                  THEN "stale" ELSE "current"
            /\ missed_by'[k] = missed_by[k] \cup {t}
        BY <2>1, <3>1, <3>4
      <4> QED
        BY <2>3, <3>2, <4>2, <4>3
    <3>5. CASE k \notin SeenKeys(t, a) \cup MissedKeys(t, a)
      BY <2>1, <3>1, <3>2, <3>5
    <3> QED
      BY <3>3, <3>4, <3>5
  <2>10. MissesAreComplete' /\ StaleNeedsTwoBatches'
    BY <2>9 DEF MissesAreComplete, StaleNeedsTwoBatches
  <2> QED
    BY <2>6, <2>7, <2>8, <2>10 DEF LinkInv
<1> QED
  BY <1>3, <1>4

LEMMA TopologyNextKeeps ==
  ASSUME LinkInv, [TopologyNext]_topologyVars
  PROVE  LinkInv'
<1>1. ASSUME NEW t \in TopologyTargets, NEW d \in Devices, BeginBatch(t, d) PROVE LinkInv'
  BY <1>1, BeginBatchKeeps
<1>2. ASSUME NEW t \in TopologyTargets, RetryTarget(t) PROVE LinkInv'
  BY <1>2, RetryTargetKeeps
<1>3. ASSUME NEW t \in TopologyTargets, NEW a \in 1 .. 2, DiscoveryStep(t, a) PROVE LinkInv'
  BY <1>3, CollectNeighboursKeeps, ResolvePayloadKeeps, CompleteBatchKeeps, FailBatchKeeps
     DEF DiscoveryStep
<1>4. ASSUME UNCHANGED topologyVars PROVE LinkInv'
  BY <1>4 DEF topologyVars, LinkInv, TopologyTyped, ThreadsHaveBatches, SightingsFit,
              MissesAreComplete, StaleNeedsTwoBatches
<1> QED
  BY <1>1, <1>2, <1>3, <1>4, RewireKeeps DEF TopologyNext

\* A link keeps the side from which it was seen first, and is not missed once it is stale.
LinkBounds ==
  /\ rewirings \in Nat
  /\ \A k \in LinkKeys : /\ links[k].missing_complete_batches <= 2
                         /\ links[k].status # "none" => links[k].local \in k.ends

LEMMA CompleteBatchBounds ==
  ASSUME LinkInv, LinkBounds, NEW t \in TopologyTargets, NEW a \in 1 .. 2, CompleteBatch(t, a)
  PROVE  LinkBounds'
<1>1. rewirings' = rewirings
  BY DEF CompleteBatch
<1>2. CASE ~ is_open(t)
  <2>1. links' = links
    BY <1>2 DEF CompleteBatch
  <2> QED
    BY <1>1, <2>1 DEF LinkBounds
<1>3. CASE is_open(t)
  <2> DEFINE d == topology_batch[t].device
             near(k) == CHOOSE p \in k.ends : DeviceOf[p] = d
  <2>1. links' = [k \in LinkKeys |->
                    IF k \in SeenKeys(t, a) THEN seen_link(links[k], near(k))
                    ELSE IF k \in MissedKeys(t, a) THEN missed_link(links[k])
                    ELSE links[k]]
    BY <1>3 DEF CompleteBatch, SeenKeys, MissedKeys
  <2>2. ASSUME NEW k \in LinkKeys, k \in SeenKeys(t, a)
        PROVE  links'[k].local \in k.ends /\ links'[k].missing_complete_batches = 0
    <3>1. near(k) \in k.ends
      <4>1. PICK pq \in discovery[t][a].seen :
              k = stable_link_key(pq[1], pq[2], discovery[t][a].known)
        BY <2>2 DEF SeenKeys
      <4>2. k.ends = {pq[1], pq[2]} /\ DeviceOf[pq[1]] = d
        <5>1. discovery[t][a].stage = "resolved"
          BY DEF CompleteBatch
        <5> QED
          BY <4>1, <5>1, SeenKey
      <4>3. \E p \in k.ends : DeviceOf[p] = d
        BY <4>2
      <4> QED
        BY ONLY <4>3 DEF near
    <3>2. links'[k] = seen_link(links[k], near(k))
      BY <2>1, <2>2
    <3> HIDE DEF near
    <3> QED
      BY <3>1, <3>2 DEF seen_link, LinkBounds
  <2>3. ASSUME NEW k \in LinkKeys, k \in MissedKeys(t, a)
        PROVE  /\ links'[k].local = links[k].local /\ links[k].status # "none"
               /\ links'[k].missing_complete_batches <= 2
    <3>1. k \notin SeenKeys(t, a) /\ links[k].status = "current" /\ links[k] \in LinkRows
      BY <2>3 DEF MissedKeys, LinkInv, TopologyTyped
    <3>2. links'[k] = missed_link(links[k])
      BY <2>1, <2>3, <3>1
    <3>3. links[k].missing_complete_batches \in Nat /\ links[k].missing_complete_batches < 2
      BY <3>1 DEF LinkInv, StaleNeedsTwoBatches, LinkRows
    <3>4. /\ missed_link(links[k]).local = links[k].local
          /\ missed_link(links[k]).missing_complete_batches
               = links[k].missing_complete_batches + 1
      BY <3>1 DEF missed_link, LinkRows
    <3> QED
      BY <3>1, <3>2, <3>3, <3>4
  <2>4. ASSUME NEW k \in LinkKeys, k \notin SeenKeys(t, a), k \notin MissedKeys(t, a)
        PROVE  links'[k] = links[k]
    BY <2>1, <2>4
  <2> QED
    BY <1>1, <2>2, <2>3, <2>4 DEF LinkBounds
<1> QED
  BY <1>2, <1>3

LEMMA LinkBoundsKeep ==
  ASSUME LinkInv, LinkBounds, [TopologyNext]_topologyVars
  PROVE  LinkBounds'
<1>1. ASSUME UNCHANGED links, rewirings' \in {rewirings, rewirings + 1} PROVE LinkBounds'
  BY <1>1 DEF LinkBounds
<1>2. ASSUME NEW t \in TopologyTargets, (\E d \in Devices : BeginBatch(t, d)) \/ RetryTarget(t)
      PROVE  LinkBounds'
  BY <1>1, <1>2 DEF BeginBatch, RetryTarget
<1>3. ASSUME NEW t \in TopologyTargets, NEW a \in 1 .. 2,
             CollectNeighbours(t, a) \/ ResolvePayload(t, a) \/ FailBatch(t, a)
      PROVE  LinkBounds'
  BY <1>1, <1>3 DEF CollectNeighbours, ResolvePayload, FailBatch
<1>4. ASSUME Rewire PROVE LinkBounds'
  BY <1>1, <1>4 DEF Rewire
<1>5. ASSUME NEW t \in TopologyTargets, NEW a \in 1 .. 2, DiscoveryStep(t, a)
      PROVE  LinkBounds'
  BY <1>3, <1>5, CompleteBatchBounds DEF DiscoveryStep
<1>6. ASSUME UNCHANGED topologyVars PROVE LinkBounds'
  BY <1>1, <1>6 DEF topologyVars
<1> QED
  BY <1>2, <1>4, <1>5, <1>6 DEF TopologyNext

LEMMA LinkInitBounds == TopologyInit => LinkBounds
<1> SUFFICES ASSUME TopologyInit PROVE LinkBounds
  OBVIOUS
<1>1. rewirings = 0 /\ links = [k \in LinkKeys |-> NoLink]
  BY DEF TopologyInit
<1> QED
  BY ONLY <1>1 DEF LinkBounds, NoLink

LEMMA LinkInvTypes == LinkInv /\ LinkBounds => TopologyTypeOK
<1> SUFFICES ASSUME LinkInv, LinkBounds PROVE TopologyTypeOK
  OBVIOUS
<1>1. /\ wiring \in Wirings /\ known \in SUBSET Ports /\ links \in [LinkKeys -> LinkRows]
      /\ topology_batch \in [TopologyTargets -> Batches]
  BY DEF LinkInv, TopologyTyped
<1>2. ASSUME NEW k \in LinkKeys
      PROVE  links[k] \in [status : {"none", "current", "stale"},
                           missing_complete_batches : 0 .. 2,
                           local : Ports \cup {NoPort}, bidirectional : BOOLEAN]
  <2>1. links[k] \in LinkRows /\ links[k].missing_complete_batches \in 0 .. 2
    BY <1>1 DEF LinkRows, LinkBounds
  <2> QED
    BY <2>1 DEF LinkRows
<1> QED
  BY <1>1, <1>2 DEF LinkBounds, TopologyTypeOK, Batches

-----------------------------------------------------------------------------
\* A link is stale exactly when two different complete batches have missed it since it was
\* last seen, however the threads of a retried target interleave
\* (net/topology/service.py: complete_topology_batch does nothing for a batch that is not
\* running any more, which alone keeps one batch from counting twice).
THEOREM StaleAfterTwoBatches == TopologySpec => []TopologyTypeOK /\ []StaleNeedsTwoBatches
<1>1. TopologyInit => LinkInv /\ LinkBounds
  BY TopologyInitHolds, LinkInitBounds
<1>2. LinkInv /\ LinkBounds /\ [TopologyNext]_topologyVars => LinkInv' /\ LinkBounds'
  BY TopologyNextKeeps, LinkBoundsKeep
<1>3. LinkInv /\ LinkBounds => TopologyTypeOK /\ StaleNeedsTwoBatches
  BY LinkInvTypes DEF LinkInv
<1> QED
  BY <1>1, <1>2, <1>3, PTL DEF TopologySpec

-----------------------------------------------------------------------------
(* Convergence.                                                            *)

\* The cabled interfaces of a device that was completed since the last change are known.
CompletedAreKnown ==
  \A p, q \in Ports : {p, q} \in wiring /\ quiet[DeviceOf[p]] >= 1 => p \in known

\* A current link joins two devices, under one of the two keys of a side.
CurrentAreProper ==
  \A k \in LinkKeys : links[k].status = "current" =>
    \E p, q \in Ports : /\ k.ends = {p, q} /\ DeviceOf[p] # DeviceOf[q]
                        /\ k.named_by \in {p, NoPort}

\* A link whose cable is gone has been missed by every completion of either device since.
MovedAreMissed ==
  \A k \in LinkKeys : links[k].status = "current" /\ k.ends \notin wiring =>
    \A p \in k.ends : links[k].missing_complete_batches >= quiet[DeviceOf[p]]

\* A provisional link has been missed by every completion of the other device.
ProvisionalAreMissed ==
  \A k \in LinkKeys : links[k].status = "current" /\ k.named_by # NoPort =>
    \A q \in k.ends \ {k.named_by} :
      links[k].missing_complete_batches >= quiet[DeviceOf[q]]

\* A cable whose devices were both completed is current under its final key.
CablesAreCurrent ==
  \A p, q \in Ports :
    {p, q} \in wiring /\ quiet[DeviceOf[p]] >= 1 /\ quiet[DeviceOf[q]] >= 1
      => links[[ends |-> {p, q}, named_by |-> NoPort]].status = "current"

QuietInv ==
  /\ CompletedAreKnown /\ CurrentAreProper /\ MovedAreMissed /\ ProvisionalAreMissed
  /\ CablesAreCurrent

LEMMA PortHasDevice == \A p \in Ports : DeviceOf[p] \in Devices
BY DEF Devices

LEMMA CableJoinsDevices ==
  ASSUME LinkInv, NEW p \in Ports, NEW q \in Ports, {p, q} \in wiring
  PROVE  DeviceOf[p] # DeviceOf[q]
<1>1. wiring \in Wirings
  BY DEF LinkInv, TopologyTyped
<1>2. \A c \in wiring : \E r \in Ports, s \in Ports : c = {r, s} /\ DeviceOf[r] # DeviceOf[s]
  BY ONLY <1>1, TopologyAssumption DEF TopologyAssumption
<1>3. PICK r \in Ports, s \in Ports : {p, q} = {r, s} /\ DeviceOf[r] # DeviceOf[s]
  BY ONLY <1>2, {p, q} \in wiring
<1> QED
  BY <1>3

\* Without a completion since, nothing is claimed of a device.
LEMMA NothingQuiet ==
  ASSUME LinkInv', \A d \in Devices : quiet'[d] = 0, CurrentAreProper'
  PROVE  QuietInv'
<1>1. \A k \in LinkKeys : links'[k].missing_complete_batches \in Nat /\ k.ends \subseteq Ports
  BY DEF LinkInv, TopologyTyped, LinkRows, LinkKeys
<1>2. CompletedAreKnown'
  BY PortHasDevice DEF CompletedAreKnown
<1>3. MovedAreMissed'
  BY <1>1, PortHasDevice DEF MovedAreMissed
<1>4. ProvisionalAreMissed'
  BY <1>1, PortHasDevice DEF ProvisionalAreMissed
<1>5. CablesAreCurrent'
  BY PortHasDevice DEF CablesAreCurrent
<1> QED
  BY <1>2, <1>3, <1>4, <1>5 DEF QuietInv

LEMMA QuietInitHolds == TopologyInit => QuietInv
<1> SUFFICES ASSUME TopologyInit PROVE QuietInv
  OBVIOUS
<1>1. \A d \in Devices : quiet[d] = 0
  BY DEF TopologyInit
<1>2. \A k \in LinkKeys : links[k].status = "none"
  <2>1. \A k \in LinkKeys : links[k] = NoLink
    BY DEF TopologyInit
  <2> QED
    BY <2>1 DEF NoLink
<1>3. CompletedAreKnown /\ CablesAreCurrent
  BY <1>1, PortHasDevice DEF CompletedAreKnown, CablesAreCurrent
<1> QED
  BY <1>2, <1>3 DEF QuietInv, CurrentAreProper, MovedAreMissed, ProvisionalAreMissed

LEMMA QuietUntouched ==
  ASSUME QuietInv, UNCHANGED <<wiring, known, links, quiet>>
  PROVE  QuietInv'
BY DEF QuietInv, CompletedAreKnown, CurrentAreProper, MovedAreMissed, ProvisionalAreMissed,
   CablesAreCurrent

\* Completing a batch that knows the present cables and interfaces.
LEMMA CompleteBatchQuiets ==
  ASSUME LinkInv, QuietInv, NEW t \in TopologyTargets, NEW a \in 1 .. 2,
         CompleteBatch(t, a), LinkInv'
  PROVE  QuietInv'
<1> DEFINE d == topology_batch[t].device
           thread == discovery[t][a]
           Missing(k) == links[k].missing_complete_batches
<1>1. /\ thread \in Threads /\ d \in Devices /\ thread.stage = "resolved"
      /\ HasSeen(thread, d, wiring) /\ quiet \in [Devices -> Nat] /\ wiring' = wiring
      /\ links \in [LinkKeys -> LinkRows]
  BY DEF LinkInv, TopologyTyped, CompleteBatch, ThreadsHaveBatches, SightingsFit
<1>2. CASE ~ is_open(t)
  BY <1>2, QuietUntouched DEF CompleteBatch
<1>3. ASSUME is_open(t) PROVE QuietInv'
  <2>1. /\ links' \in [LinkKeys -> LinkRows] /\ SeenKeys(t, a) \subseteq LinkKeys
        /\ \A k \in SeenKeys(t, a) : links'[k].status = "current"
                                     /\ links'[k].missing_complete_batches = 0
        /\ \A k \in MissedKeys(t, a) :
             links'[k].missing_complete_batches = Missing(k) + 1
        /\ \A k \in LinkKeys \ (SeenKeys(t, a) \cup MissedKeys(t, a)) : links'[k] = links[k]
    BY <1>3, CompletedLinks
  <2>2. known \subseteq known' /\ \A pq \in thread.seen : pq[1] \in known'
    BY <1>3 DEF CompleteBatch
  <2>3. ASSUME NEW k \in SeenKeys(t, a)
        PROVE  \E pq \in thread.seen :
                 /\ pq[1] \in Ports /\ pq[2] \in Ports /\ k.ends = {pq[1], pq[2]}
                 /\ k.named_by = IF pq[2] \in thread.known THEN NoPort ELSE pq[1]
                 /\ DeviceOf[pq[1]] = d /\ DeviceOf[pq[2]] # d
    <3>1. PICK pq \in thread.seen : k = stable_link_key(pq[1], pq[2], thread.known)
      BY DEF SeenKeys
    <3>2. LinkInv /\ discovery[t][a].stage = "resolved"
      BY <1>1 DEF Threads
    <3>3. /\ pq[1] \in Ports /\ pq[2] \in Ports /\ k.ends = {pq[1], pq[2]}
          /\ k.named_by = IF pq[2] \in thread.known THEN NoPort ELSE pq[1]
          /\ DeviceOf[pq[1]] = d /\ DeviceOf[pq[2]] # d
      BY ONLY <3>1, <3>2, SeenKey, t \in TopologyTargets, a \in 1 .. 2
    <3> QED
      BY ONLY <3>1, <3>3
  <2>4. ASSUME NEW k \in LinkKeys \ SeenKeys(t, a), links'[k].status = "current"
        PROVE  /\ links[k].status = "current"
               /\ links'[k].missing_complete_batches \in {Missing(k), Missing(k) + 1}
               /\ thread.complete /\ (\E p \in k.ends : DeviceOf[p] = d)
                    => links'[k].missing_complete_batches = Missing(k) + 1
    <3>1. CASE k \in MissedKeys(t, a)
      BY <2>1, <3>1 DEF MissedKeys
    <3>2. CASE k \notin MissedKeys(t, a)
      <4>1. links'[k] = links[k]
        BY <2>1, <2>4, <3>2
      <4> QED
        BY <2>4, <3>2, <4>1 DEF MissedKeys
    <3> QED
      BY <3>1, <3>2
  <2>5. CurrentAreProper'
    <3>1. ASSUME NEW k \in LinkKeys, links'[k].status = "current"
          PROVE  \E p, q \in Ports : /\ k.ends = {p, q} /\ DeviceOf[p] # DeviceOf[q]
                                     /\ k.named_by \in {p, NoPort}
      <4>1. CASE k \in SeenKeys(t, a)
        BY <2>3, <4>1
      <4>2. CASE k \notin SeenKeys(t, a)
        BY <2>4, <3>1, <4>2 DEF QuietInv, CurrentAreProper
      <4> QED
        BY <4>1, <4>2
    <3> QED
      BY <3>1 DEF CurrentAreProper
  <2>6. CASE thread.old \/ thread.known # known
    <3>1. quiet' = [e \in Devices |-> 0]
      BY <1>3, <2>6 DEF CompleteBatch
    <3>2. \A e \in Devices : quiet'[e] = 0
      BY <3>1
    <3> QED
      BY <2>5, <3>2, NothingQuiet
  <2>7. ASSUME ~ thread.old, thread.known = known PROVE QuietInv'
    <3>1. quiet' = IF thread.complete /\ quiet[d] < 2 THEN [quiet EXCEPT ![d] = @ + 1] ELSE quiet
      BY <1>3, <2>7 DEF CompleteBatch
    <3>2. /\ \A e \in Devices : e # d \/ ~ thread.complete => quiet'[e] = quiet[e]
          /\ quiet'[d] \in {quiet[d], quiet[d] + 1}
          /\ \A e \in Devices : quiet[e] \in Nat /\ quiet'[e] \in Nat
      BY <1>1, <3>1
    <3>3. /\ \A pq \in thread.seen : {pq[1], pq[2]} \in wiring
          /\ thread.complete => thread.seen = NeighboursBy(wiring, d)
      BY <1>1, <2>7 DEF HasSeen, NeighboursBy
    <3>4. \A k \in LinkKeys : Missing(k) \in Nat /\ k.ends \subseteq Ports
      BY <1>1 DEF LinkRows, LinkKeys
    <3>5. CompletedAreKnown'
      <4>1. ASSUME NEW p \in Ports, NEW q \in Ports, {p, q} \in wiring, quiet'[DeviceOf[p]] >= 1
            PROVE  p \in known'
        <5>1. DeviceOf[p] \in Devices
          BY PortHasDevice
        <5>2. CASE DeviceOf[p] = d /\ thread.complete
          <6>1. <<p, q>> \in thread.seen
            BY <3>3, <4>1, <5>2 DEF NeighboursBy, PortsOf
          <6>2. <<p, q>>[1] = p
            OBVIOUS
          <6> QED
            BY <2>2, <6>1, <6>2
        <5>3. CASE DeviceOf[p] # d \/ ~ thread.complete
          <6>1. quiet[DeviceOf[p]] >= 1
            BY <3>2, <4>1, <5>1, <5>3
          <6> QED
            BY <2>2, <4>1, <6>1 DEF QuietInv, CompletedAreKnown
        <5> QED
          BY <5>2, <5>3
      <4> QED
        BY <1>1, <4>1 DEF CompletedAreKnown
    <3>6. MovedAreMissed'
      <4>1. ASSUME NEW k \in LinkKeys, links'[k].status = "current", k.ends \notin wiring,
                   NEW p \in k.ends
            PROVE  links'[k].missing_complete_batches >= quiet'[DeviceOf[p]]
        <5>1. k \notin SeenKeys(t, a)
          BY <2>3, <3>3, <4>1
        <5>2. links[k].status = "current" /\ DeviceOf[p] \in Devices
          BY <2>4, <3>4, <4>1, <5>1, PortHasDevice
        <5>3. Missing(k) >= quiet[DeviceOf[p]]
          BY <4>1, <5>2 DEF QuietInv, MovedAreMissed
        <5>4. CASE DeviceOf[p] = d /\ thread.complete
          <6>1. links'[k].missing_complete_batches = Missing(k) + 1
            BY <2>4, <4>1, <5>1, <5>4
          <6> QED
            BY <3>2, <3>4, <5>2, <5>3, <5>4, <6>1
        <5>5. CASE DeviceOf[p] # d \/ ~ thread.complete
          <6>1. quiet'[DeviceOf[p]] = quiet[DeviceOf[p]]
            BY <3>2, <5>2, <5>5
          <6>2. links'[k].missing_complete_batches \in {Missing(k), Missing(k) + 1}
            BY <2>4, <4>1, <5>1
          <6> QED
            BY <3>2, <3>4, <5>2, <5>3, <6>1, <6>2
        <5> QED
          BY <5>4, <5>5
      <4> QED
        BY <1>1, <4>1 DEF MovedAreMissed
    <3>7. ProvisionalAreMissed'
      <4>1. ASSUME NEW k \in LinkKeys, links'[k].status = "current", k.named_by # NoPort,
                   NEW q \in k.ends \ {k.named_by}
            PROVE  links'[k].missing_complete_batches >= quiet'[DeviceOf[q]]
        <5>1. q \in Ports /\ DeviceOf[q] \in Devices
          BY <3>4, PortHasDevice
        <5>2. CASE k \in SeenKeys(t, a)
          <6>1. PICK pq \in thread.seen :
                  /\ pq[1] \in Ports /\ pq[2] \in Ports /\ k.ends = {pq[1], pq[2]}
                  /\ k.named_by = IF pq[2] \in thread.known THEN NoPort ELSE pq[1]
                  /\ DeviceOf[pq[1]] = d /\ DeviceOf[pq[2]] # d
            BY <2>3, <5>2
          <6>2. q = pq[2] /\ q \notin known /\ DeviceOf[q] # d /\ {q, pq[1]} \in wiring
            <7>1. {pq[1], pq[2]} \in wiring
              BY <3>3, <6>1
            <7>2. q = pq[2] /\ q \notin known /\ DeviceOf[q] # d
              BY <2>7, <4>1, <6>1
            <7>3. {q, pq[1]} = {pq[1], pq[2]}
              BY <7>2
            <7> QED
              BY <7>1, <7>2, <7>3
          <6>3. ~ (quiet[DeviceOf[q]] >= 1)
            BY <5>1, <6>1, <6>2 DEF QuietInv, CompletedAreKnown
          <6>4. quiet'[DeviceOf[q]] = 0
            BY <3>2, <5>1, <6>2, <6>3
          <6>5. links'[k].missing_complete_batches = 0
            BY <2>1, <5>2
          <6> QED
            BY <6>4, <6>5
        <5>3. CASE k \notin SeenKeys(t, a)
          <6>1. links[k].status = "current"
            BY <2>4, <4>1, <5>3
          <6>2. Missing(k) >= quiet[DeviceOf[q]]
            BY <4>1, <6>1 DEF QuietInv, ProvisionalAreMissed
          <6>3. CASE DeviceOf[q] = d /\ thread.complete
            <7>1. links'[k].missing_complete_batches = Missing(k) + 1
              BY <2>4, <4>1, <5>3, <6>3
            <7> QED
              BY <3>2, <3>4, <5>1, <6>2, <6>3, <7>1
          <6>4. CASE DeviceOf[q] # d \/ ~ thread.complete
            <7>1. quiet'[DeviceOf[q]] = quiet[DeviceOf[q]]
              BY <3>2, <5>1, <6>4
            <7>2. links'[k].missing_complete_batches \in {Missing(k), Missing(k) + 1}
              BY <2>4, <4>1, <5>3
            <7> QED
              BY <3>2, <3>4, <5>1, <6>2, <7>1, <7>2
          <6> QED
            BY <6>3, <6>4
        <5> QED
          BY <5>2, <5>3
      <4> QED
        BY <4>1 DEF ProvisionalAreMissed
    <3>8. CablesAreCurrent'
      <4>1. ASSUME NEW p \in Ports, NEW q \in Ports, {p, q} \in wiring,
                   quiet'[DeviceOf[p]] >= 1, quiet'[DeviceOf[q]] >= 1,
                   DeviceOf[p] = d, thread.complete
            PROVE  links'[[ends |-> {p, q}, named_by |-> NoPort]].status = "current"
        <5>1. DeviceOf[q] # d /\ DeviceOf[q] \in Devices
          BY <4>1, CableJoinsDevices, PortHasDevice
        <5>2. q \in thread.known
          <6>1. quiet[DeviceOf[q]] >= 1
            BY <3>2, <4>1, <5>1
          <6>2. {q, p} = {p, q}
            OBVIOUS
          <6> QED
            BY <2>7, <4>1, <6>1, <6>2 DEF QuietInv, CompletedAreKnown
        <5>3. <<p, q>> \in thread.seen
          BY <3>3, <4>1 DEF NeighboursBy, PortsOf
        <5>4. stable_link_key(p, q, thread.known) \in SeenKeys(t, a)
          <6>1. <<p, q>>[1] = p /\ <<p, q>>[2] = q
            OBVIOUS
          <6> QED
            BY <5>3, <6>1 DEF SeenKeys
        <5>5. stable_link_key(p, q, thread.known) = [ends |-> {p, q}, named_by |-> NoPort]
          BY <5>2 DEF stable_link_key
        <5> QED
          BY <2>1, <5>4, <5>5
      <4>2. ASSUME NEW p \in Ports, NEW q \in Ports, {p, q} \in wiring,
                   quiet'[DeviceOf[p]] >= 1, quiet'[DeviceOf[q]] >= 1,
                   ~ thread.complete \/ (DeviceOf[p] # d /\ DeviceOf[q] # d)
            PROVE  links'[[ends |-> {p, q}, named_by |-> NoPort]].status = "current"
        <5> DEFINE k == [ends |-> {p, q}, named_by |-> NoPort]
        <5>1. DeviceOf[p] \in Devices /\ DeviceOf[q] \in Devices /\ DeviceOf[p] # DeviceOf[q]
          BY <4>2, PortHasDevice, CableJoinsDevices
        <5>2. quiet[DeviceOf[p]] >= 1 /\ quiet[DeviceOf[q]] >= 1
          BY <3>2, <4>2, <5>1
        <5>3. links[k].status = "current" /\ k \in LinkKeys
          BY <4>2, <5>1, <5>2, KeyOfLink DEF QuietInv, CablesAreCurrent
        <5>4. k.ends = {p, q}
          OBVIOUS
        <5> HIDE DEF k
        <5>5. k \notin MissedKeys(t, a)
          BY <4>2, <5>4 DEF MissedKeys
        <5>6. links'[k].status = "current"
          BY <2>1, <5>3, <5>5
        <5> QED
          BY <5>6 DEF k
      <4>3. \A p, q : {p, q} = {q, p}
        OBVIOUS
      <4>4. \A p \in Ports, q \in Ports :
              {p, q} \in wiring /\ quiet'[DeviceOf[p]] >= 1 /\ quiet'[DeviceOf[q]] >= 1
                => links'[[ends |-> {p, q}, named_by |-> NoPort]].status = "current"
        <5> SUFFICES ASSUME NEW p \in Ports, NEW q \in Ports, {p, q} \in wiring,
                            quiet'[DeviceOf[p]] >= 1, quiet'[DeviceOf[q]] >= 1
                     PROVE  links'[[ends |-> {p, q}, named_by |-> NoPort]].status = "current"
          OBVIOUS
        <5>1. CASE DeviceOf[p] = d /\ thread.complete
          BY <4>1, <5>1
        <5>2. CASE DeviceOf[q] = d /\ thread.complete
          <6>1. links'[[ends |-> {q, p}, named_by |-> NoPort]].status = "current"
            BY <4>1, <4>3, <5>2
          <6>2. {p, q} = {q, p}
            OBVIOUS
          <6> QED
            BY <6>1, <6>2
        <5>3. CASE ~ thread.complete \/ (DeviceOf[p] # d /\ DeviceOf[q] # d)
          BY <4>2, <5>3
        <5> QED
          BY <5>1, <5>2, <5>3
      <4> QED
        BY <1>1, <4>4 DEF CablesAreCurrent
    <3> QED
      BY <2>5, <3>5, <3>6, <3>7, <3>8 DEF QuietInv
  <2> QED
    BY <2>6, <2>7
<1> QED
  BY <1>2, <1>3

\* Moving a cable starts everything anew.
LEMMA RewireQuiets == ASSUME QuietInv, Rewire, LinkInv' PROVE QuietInv'
<1>1. links' = links /\ quiet' = [d \in Devices |-> 0]
  BY DEF Rewire
<1>2. \A d \in Devices : quiet'[d] = 0
  BY <1>1
<1>3. CurrentAreProper'
  BY <1>1 DEF QuietInv, CurrentAreProper
<1> QED
  BY <1>2, <1>3, NothingQuiet

LEMMA TopologyNextQuiets ==
  ASSUME LinkInv, QuietInv, [TopologyNext]_topologyVars, LinkInv'
  PROVE  QuietInv'
<1>1. ASSUME NEW t \in TopologyTargets, NEW d \in Devices, BeginBatch(t, d) PROVE QuietInv'
  BY <1>1, QuietUntouched DEF BeginBatch
<1>2. ASSUME NEW t \in TopologyTargets, RetryTarget(t) PROVE QuietInv'
  BY <1>2, QuietUntouched DEF RetryTarget
<1>3. ASSUME NEW t \in TopologyTargets, NEW a \in 1 .. 2, DiscoveryStep(t, a) PROVE QuietInv'
  <2>1. CASE CollectNeighbours(t, a)
    BY <2>1, QuietUntouched DEF CollectNeighbours
  <2>2. CASE ResolvePayload(t, a)
    BY <2>2, QuietUntouched DEF ResolvePayload
  <2>3. CASE CompleteBatch(t, a)
    BY <2>3, CompleteBatchQuiets
  <2>4. CASE FailBatch(t, a)
    BY <2>4, QuietUntouched DEF FailBatch
  <2> QED
    BY <1>3, <2>1, <2>2, <2>3, <2>4 DEF DiscoveryStep
<1>4. ASSUME UNCHANGED topologyVars PROVE QuietInv'
  BY <1>4, QuietUntouched DEF topologyVars
<1> QED
  BY <1>1, <1>2, <1>3, <1>4, RewireQuiets DEF TopologyNext

LEMMA QuietInvariant == TopologySpec => [](LinkInv /\ QuietInv)
<1>1. TopologyInit => LinkInv /\ QuietInv
  BY TopologyInitHolds, QuietInitHolds
<1>2. LinkInv /\ QuietInv /\ [TopologyNext]_topologyVars => LinkInv' /\ QuietInv'
  BY TopologyNextKeeps, TopologyNextQuiets
<1> QED
  BY <1>1, <1>2, PTL DEF TopologySpec

\* A link that two complete batches of every device left current is a cable, under its
\* final key.
LEMMA CurrentIsCable ==
  ASSUME LinkInv, QuietInv, \A d \in Devices : quiet[d] >= 2,
         NEW k \in LinkKeys, links[k].status = "current"
  PROVE  k.ends \in wiring /\ k.named_by = NoPort
<1>1. PICK p \in Ports, q \in Ports : /\ k.ends = {p, q} /\ DeviceOf[p] # DeviceOf[q]
                                      /\ k.named_by \in {p, NoPort}
  BY DEF QuietInv, CurrentAreProper
<1>2. quiet[DeviceOf[p]] >= 2 /\ quiet[DeviceOf[q]] >= 2
  BY PortHasDevice
<1>3. ~ (links[k].missing_complete_batches >= 2)
  BY DEF LinkInv, StaleNeedsTwoBatches
<1>4. /\ links[k].missing_complete_batches \in Nat
      /\ quiet[DeviceOf[p]] \in Nat /\ quiet[DeviceOf[q]] \in Nat
  BY PortHasDevice DEF LinkInv, TopologyTyped, LinkRows
<1>5. k.ends \in wiring
  <2>1. k.ends \notin wiring => links[k].missing_complete_batches >= quiet[DeviceOf[p]]
    BY <1>1 DEF QuietInv, MovedAreMissed
  <2> QED
    BY <1>2, <1>3, <1>4, <2>1
<1>6. k.named_by = NoPort
  <2>1. k.named_by # NoPort => q \in k.ends \ {k.named_by}
    BY <1>1
  <2>2. k.named_by # NoPort => links[k].missing_complete_batches >= quiet[DeviceOf[q]]
    BY <2>1 DEF QuietInv, ProvisionalAreMissed
  <2> QED
    BY <1>2, <1>3, <1>4, <2>2
<1> QED
  BY <1>5, <1>6

-----------------------------------------------------------------------------
\* Once every device has been collected completely twice since the last change, the
\* current links are the cables, each under one key (net/topology/service.py:
\* complete_topology_batch; net/topology/discovery.py: stable_link_key).
THEOREM DiscoveryConverges == TopologySpec => []TopologyConverges
<1>1. LinkInv /\ QuietInv => TopologyConverges
  <2> SUFFICES ASSUME LinkInv, QuietInv, \A d \in Devices : quiet[d] >= 2
               PROVE  /\ {k.ends : k \in {k \in LinkKeys : links[k].status = "current"}}
                            = wiring
                      /\ \A k, l \in LinkKeys :
                           links[k].status = "current" /\ links[l].status = "current"
                             /\ k.ends = l.ends => k = l
    BY DEF TopologyConverges
  <2> DEFINE current == {k \in LinkKeys : links[k].status = "current"}
  <2>1. \A k \in current : k.ends \in wiring /\ k.named_by = NoPort
    BY CurrentIsCable
  <2>2. ASSUME NEW c \in wiring PROVE \E k \in current : k.ends = c
    <3>1. wiring \in Wirings
      BY DEF LinkInv, TopologyTyped
    <3>2. PICK p \in Ports, q \in Ports : c = {p, q} /\ DeviceOf[p] # DeviceOf[q]
      BY <3>1, TopologyAssumption DEF TopologyAssumption
    <3>3. quiet[DeviceOf[p]] >= 1 /\ quiet[DeviceOf[q]] >= 1
      <4>1. /\ quiet[DeviceOf[p]] \in Nat /\ quiet[DeviceOf[q]] \in Nat
            /\ quiet[DeviceOf[p]] >= 2 /\ quiet[DeviceOf[q]] >= 2
        BY PortHasDevice DEF LinkInv, TopologyTyped
      <4> QED
        BY <4>1
    <3>4. /\ [ends |-> {p, q}, named_by |-> NoPort] \in LinkKeys
          /\ links[[ends |-> {p, q}, named_by |-> NoPort]].status = "current"
      BY <3>2, <3>3, KeyOfLink DEF QuietInv, CablesAreCurrent
    <3>5. [ends |-> {p, q}, named_by |-> NoPort].ends = c
      BY <3>2
    <3> QED
      BY <3>4, <3>5
  <2>3. ASSUME NEW k \in current, NEW l \in current, k.ends = l.ends PROVE k = l
    BY <2>1, <2>3 DEF LinkKeys
  <2>4. {k.ends : k \in current} = wiring
    BY <2>1, <2>2
  <2>5. \A k, l \in LinkKeys : links[k].status = "current" /\ links[l].status = "current"
                               /\ k.ends = l.ends => k = l
    BY <2>3
  <2> QED
    BY <2>4, <2>5
<1> QED
  BY <1>1, QuietInvariant, PTL

-----------------------------------------------------------------------------
(* The page cache.                                                         *)

Epochs      == Requests \cup {NoEpoch}
Generations == Nat \cup {NoGeneration}
PageKeys    == Epochs \X Generations
PageStages  == {"none", "lookup", "view", "rendered", "handling", "committed", "answered"}
PageRequest == [stage : PageStages, started : Nat, epoch : Epochs, key : PageKeys,
                version : Nat, own : Nat, topology : Nat, lasting : Nat, blind : BOOLEAN]

PagesTyped ==
  /\ cache_plan \in CachePlans /\ page_clock \in 0 .. MaxSeconds /\ shown \in Nat
  /\ epoch \in Epochs /\ generation \in Generations
  /\ request \in [Requests -> PageRequest]
  /\ \A k \in DOMAIN pages : k \in PageKeys /\ pages[k].version \in Nat /\ pages[k].expires \in Nat
  /\ pending \in BOOLEAN /\ restored \in BOOLEAN
  /\ changes \in [topology : Nat, elsewhere : Nat]
  /\ promised \in [own : Nat, topology : Nat, lasting : [0 .. MaxSeconds -> Nat]]

\* Nothing was promised that is not there.
PromisesPast ==
  /\ promised.own <= shown /\ promised.topology <= shown
  /\ \A s \in 0 .. MaxSeconds : promised.lasting[s] <= shown
  /\ \A r \in Requests : request[r].own <= promised.own
                         /\ request[r].topology <= promised.topology

\* What had to last when a request came that started at second s.
LastingAt(s, lasting) == IF s < Lifetime + RequestTime THEN 0
                         ELSE lasting[s - (Lifetime + RequestTime)]

\* No request is older than RequestTime, and requests are of one kind.
RequestsFit ==
  \A r \in Requests : request[r].stage # "none" =>
    /\ request[r].started <= page_clock
    /\ request[r].stage # "answered" => page_clock <= request[r].started + RequestTime
    /\ request[r].lasting = LastingAt(request[r].started, promised.lasting)
    /\ request[r].stage \in {"lookup", "view", "rendered"} => r \in cache_plan.displays
    /\ request[r].stage = "handling" => r \in cache_plan.lists \cup cache_plan.posts
    /\ request[r].stage = "committed" => r \in cache_plan.posts /\ request[r].version <= shown

\* A rendered page is as new as the request that rendered it.
RenderedFit ==
  \A r \in Requests : request[r].stage = "rendered" =>
    /\ request[r].version <= shown
    /\ \A s \in 0 .. MaxSeconds : s < request[r].started
                                    => promised.lasting[s] <= request[r].version
    /\ request[r].version >= request[r].lasting
    /\ request[r].version >= request[r].topology /\ request[r].version >= request[r].own

\* A stored page is as new as the lifetime that is left to it allows.
StoredFit ==
  \A k \in DOMAIN pages :
    /\ pages[k].version <= shown
    /\ page_clock < pages[k].expires /\ pages[k].expires <= page_clock + Lifetime
    /\ \A s \in 0 .. MaxSeconds : s + Lifetime + RequestTime < pages[k].expires
                                    => promised.lasting[s] <= pages[k].version

\* Generations only grow, and under the present one there is only what is as new as its
\* invalidation.
Used(g) == g # NoGeneration => generation # NoGeneration /\ g <= generation

GenerationsFit ==
  /\ generation = NoGeneration => promised.topology = 0
  /\ generation # NoGeneration => generation <= changes.topology
                                  /\ (pending => generation < changes.topology)
  /\ \A r \in Requests : Used(request[r].key[2])
  /\ \A k \in DOMAIN pages : Used(k[2])
                             /\ (k[2] = generation => pages[k].version >= promised.topology)
  /\ \A r \in Requests : request[r].stage = "rendered" /\ request[r].key[2] = generation
                           => request[r].version >= promised.topology

\* Epochs are those of finished changes.
Past == {NoEpoch} \cup {r \in cache_plan.posts : r \in Requests /\ request[r].stage = "answered"}

EpochsFit ==
  /\ epoch \in Past
  /\ \A r \in Requests : request[r].stage # "none" =>
       IF r \in cache_plan.posts THEN request[r].epoch = r ELSE request[r].epoch \in Past
  /\ \A r \in Requests : request[r].stage \in {"view", "rendered"}
                           => request[r].key[1] = request[r].epoch
  /\ \A k \in DOMAIN pages : k[1] \in Past

\* Under an epoch there is only what is as new as the changes of the session that every
\* request with this epoch came after.
OwnFits ==
  /\ \A k \in DOMAIN pages :
       /\ k[1] = epoch => pages[k].version >= promised.own
       /\ \A r \in cache_plan.displays : request[r].stage # "none" /\ request[r].epoch = k[1]
                                           => pages[k].version >= request[r].own
  /\ \A q \in Requests : request[q].stage = "rendered" =>
       /\ request[q].epoch = epoch => request[q].version >= promised.own
       /\ \A r \in cache_plan.displays :
            request[r].stage # "none" /\ request[r].epoch = request[q].epoch
              => request[q].version >= request[r].own

AnswersFit ==
  \A r \in cache_plan.displays : request[r].stage = "answered" =>
    /\ request[r].version >= request[r].lasting
    /\ request[r].version >= request[r].topology \/ request[r].blind
    /\ ~ restored => request[r].version >= request[r].own

PagesInv ==
  /\ PagesTyped /\ PromisesPast /\ RequestsFit /\ RenderedFit /\ StoredFit /\ GenerationsFit
  /\ EpochsFit /\ (~ restored => OwnFits) /\ AnswersFit

LEMMA PlanFits ==
  ASSUME PagesTyped
  PROVE  /\ cache_plan.displays \subseteq Requests /\ cache_plan.lists \subseteq Requests
         /\ cache_plan.posts \subseteq Requests
         /\ cache_plan.displays \cap (cache_plan.lists \cup cache_plan.posts) = {}
         /\ cache_plan.lists \cap cache_plan.posts = {}
         /\ Lifetime \in Nat \ {0} /\ RequestTime \in Nat /\ MaxSeconds \in Nat
         /\ NoEpoch \notin Requests /\ NoGeneration \notin Nat
<1>1. cache_plan \in CachePlans
  BY DEF PagesTyped
<1>2. cache_plan \in [displays : SUBSET Requests, lists : SUBSET Requests,
                      posts : SUBSET Requests, outages : BOOLEAN,
                      topology : Nat, elsewhere : Nat]
  BY <1>1, PageCacheAssumption DEF PageCacheAssumption
<1> QED
  BY <1>1, <1>2, PageCacheAssumption DEF PageCacheAssumption

LEMMA LastingTyped ==
  ASSUME PagesTyped, NEW s \in 0 .. page_clock
  PROVE  /\ LastingAt(s, promised.lasting) \in Nat
         /\ PromisesPast => LastingAt(s, promised.lasting) <= shown
<1>1. /\ Lifetime \in Nat /\ RequestTime \in Nat /\ MaxSeconds \in Nat
      /\ page_clock \in 0 .. MaxSeconds /\ promised.lasting \in [0 .. MaxSeconds -> Nat]
  BY PlanFits DEF PagesTyped
<1>2. s < Lifetime + RequestTime \/ s - (Lifetime + RequestTime) \in 0 .. MaxSeconds
  BY <1>1
<1>3. PromisesPast => \A r \in 0 .. MaxSeconds : promised.lasting[r] <= shown
  BY DEF PromisesPast
<1>4. shown \in Nat
  BY DEF PagesTyped
<1> QED
  BY ONLY <1>1, <1>2, <1>3, <1>4 DEF LastingAt

LEMMA PagesInitHold == ASSUME PageCacheInit PROVE PagesInv
<1>1. PagesTyped
  <2>1. NoKey \in PageKeys
    BY DEF NoKey, PageKeys, Epochs, Generations
  <2>2. Unsent \in PageRequest
    BY <2>1 DEF Unsent, PageRequest, PageStages, Epochs
  <2>3. MaxSeconds \in Nat
    BY PageCacheAssumption DEF PageCacheAssumption
  <2> QED
    BY <2>2, <2>3 DEF PagesTyped, PageCacheInit, NoPages, Epochs, Generations
<1>2. \A r \in Requests : /\ request[r].stage = "none" /\ request[r].own = 0
                          /\ request[r].topology = 0 /\ request[r].key[2] = NoGeneration
  <2>1. \A r \in Requests : request[r] = Unsent
    BY DEF PageCacheInit
  <2>2. NoKey[2] = NoGeneration
    BY DEF NoKey
  <2> QED
    BY <2>1, <2>2 DEF Unsent
<1>3. DOMAIN pages = {}
  BY DEF PageCacheInit, NoPages
<1>4. PromisesPast /\ RequestsFit /\ RenderedFit /\ StoredFit
  BY <1>2, <1>3 DEF PageCacheInit, PromisesPast, RequestsFit, RenderedFit, StoredFit
<1>5. GenerationsFit
  BY <1>2, <1>3 DEF PageCacheInit, GenerationsFit, Used
<1>6. EpochsFit
  BY <1>2, <1>3 DEF PageCacheInit, EpochsFit, Past
<1>7. OwnFits /\ AnswersFit
  BY <1>1, <1>2, <1>3, PlanFits DEF OwnFits, AnswersFit
<1> QED
  BY <1>1, <1>4, <1>5, <1>6, <1>7 DEF PagesInv

\* A request comes, with the epoch of the session or, if it will change something, its own.
LEMMA ComeKeeps ==
  ASSUME PagesInv, NEW r \in Requests, NEW stage \in {"lookup", "handling"}, NEW kind, NEW e,
         Come(r, kind, stage, e), UNCHANGED epoch,
         \/ kind = cache_plan.displays /\ stage = "lookup" /\ e = epoch
         \/ kind = cache_plan.lists /\ stage = "handling" /\ e = epoch
         \/ kind = cache_plan.posts /\ stage = "handling" /\ e = r
  PROVE  PagesInv'
<1>0. /\ UNCHANGED <<cache_plan, page_clock, shown, generation, pages, pending, changes,
                     promised, restored, epoch>>
      /\ r \in kind /\ request[r].stage = "none"
  BY DEF Come
<1>1. /\ request' \in [Requests -> PageRequest]
      /\ \A q \in Requests : q # r => request'[q] = request[q]
      /\ request'[r].stage = stage /\ request'[r].started = page_clock
      /\ request'[r].epoch = e /\ request'[r].key = NoKey
      /\ request'[r].own = promised.own /\ request'[r].topology = promised.topology
      /\ request'[r].lasting = LastingAt(page_clock, promised.lasting)
  <2> DEFINE new == [Unsent EXCEPT !.stage = stage, !.started = page_clock, !.epoch = e,
                       !.own = promised.own, !.topology = promised.topology,
                       !.lasting = LastingAt(page_clock, promised.lasting)]
  <2>1. NoKey \in PageKeys
    BY DEF NoKey, PageKeys, Epochs, Generations
  <2>2. LastingAt(page_clock, promised.lasting) \in Nat
    BY PlanFits, LastingTyped DEF PagesInv, PagesTyped
  <2>3. /\ new \in PageRequest
        /\ new.stage = stage /\ new.started = page_clock /\ new.epoch = e /\ new.key = NoKey
        /\ new.own = promised.own /\ new.topology = promised.topology
        /\ new.lasting = LastingAt(page_clock, promised.lasting)
    <3>1. e \in Epochs /\ page_clock \in Nat /\ promised.own \in Nat /\ promised.topology \in Nat
      BY DEF PagesInv, PagesTyped, Epochs
    <3> QED
      BY ONLY <2>1, <2>2, <3>1, stage \in {"lookup", "handling"}
      DEF PageRequest, Unsent, PageStages
  <2>4. request' = [request EXCEPT ![r] = new]
    BY DEF Come, Arrive, LastingAt
  <2> HIDE DEF new
  <2> QED
    BY <2>3, <2>4 DEF PagesInv, PagesTyped
<1>2. NoKey[2] = NoGeneration
  BY DEF NoKey
<1>3. PagesTyped' /\ PromisesPast'
  BY <1>0, <1>1 DEF PagesInv, PagesTyped, PromisesPast
<1>4. RequestsFit'
  <2>1. page_clock \in Nat /\ RequestTime \in Nat
    BY PlanFits DEF PagesInv, PagesTyped
  <2> QED
    BY <1>0, <1>1, <2>1 DEF PagesInv, RequestsFit
<1>5. RenderedFit' /\ StoredFit'
  BY <1>0, <1>1 DEF PagesInv, RenderedFit, StoredFit
<1>6. GenerationsFit'
  BY <1>0, <1>1, <1>2 DEF PagesInv, GenerationsFit, Used
<1>7. EpochsFit'
  <2>1. Past' = Past
    BY <1>0, <1>1 DEF Past
  <2>2. r \in cache_plan.posts <=> kind = cache_plan.posts
    BY <1>0, PlanFits DEF PagesInv
  <2>3. IF r \in cache_plan.posts THEN e = r ELSE e = epoch
    BY <1>0, <2>2, PlanFits DEF PagesInv
  <2>4. \A q \in Requests : request'[q].stage # "none" =>
          IF q \in cache_plan.posts THEN request'[q].epoch = q ELSE request'[q].epoch \in Past
    BY <1>1, <2>3 DEF PagesInv, EpochsFit
  <2>5. \A q \in Requests : request'[q].stage \in {"view", "rendered"}
                              => request'[q].key[1] = request'[q].epoch
    BY <1>1 DEF PagesInv, EpochsFit
  <2> QED
    BY <1>0, <2>1, <2>4, <2>5 DEF PagesInv, EpochsFit
<1>8. ~ restored' => OwnFits'
  <2> SUFFICES ASSUME ~ restored PROVE OwnFits'
    BY <1>0
  <2>1. r \in cache_plan.displays => request'[r].epoch = epoch
    BY <1>0, <1>1, PlanFits DEF PagesInv
  <2>2. \A q \in cache_plan.displays : q # r => request'[q] = request[q]
    BY <1>1, PlanFits DEF PagesInv
  <2> QED
    BY <1>0, <1>1, <2>1, <2>2 DEF PagesInv, OwnFits
<1>9. AnswersFit'
  BY <1>0, <1>1, PlanFits DEF PagesInv, AnswersFit
<1> QED
  BY <1>3, <1>4, <1>5, <1>6, <1>7, <1>8, <1>9 DEF PagesInv

\* A page is found, as new as the request must see it, or the view is called.
LEMMA LookupKeeps == ASSUME PagesInv, NEW r \in Requests, Lookup(r) PROVE PagesInv'
<1>0. /\ UNCHANGED <<cache_plan, page_clock, shown, epoch, generation, pending, changes,
                     promised, restored>>
      /\ request[r].stage = "lookup" /\ r \in cache_plan.displays
      /\ request[r] \in PageRequest
  BY DEF Lookup, PagesInv, RequestsFit, PagesTyped
<1>1. PICK g \in readable :
        LET key == key_of(request[r].epoch, g)
            hit == key \in DOMAIN pages /\ page_clock < pages[key].expires
            found == [request EXCEPT ![r].key = key, ![r].blind = g # generation]
        IN \/ /\ hit
              /\ request' = [found EXCEPT ![r].stage = "answered",
                                          ![r].version = pages[key].version]
              /\ pages' = after_hit(key)
           \/ request' = [found EXCEPT ![r].stage = "view"] /\ UNCHANGED pages
  BY DEF Lookup
<1> DEFINE key == <<request[r].epoch, g>>
<1>2. g \in Generations /\ (g = generation \/ g = NoGeneration) /\ Used(g)
  BY DEF readable, PagesInv, PagesTyped, Generations, Used
<1>3. key \in PageKeys /\ key[1] = request[r].epoch /\ key[2] = g
  BY <1>0, <1>2 DEF PageKeys, PageRequest
<1>4. pages' = pages
  BY <1>1 DEF after_hit
<1>5. /\ request' \in [Requests -> PageRequest]
      /\ \A q \in Requests : q # r => request'[q] = request[q]
      /\ request'[r].started = request[r].started /\ request'[r].epoch = request[r].epoch
      /\ request'[r].own = request[r].own /\ request'[r].topology = request[r].topology
      /\ request'[r].lasting = request[r].lasting
      /\ request'[r].key = key /\ request'[r].blind = (g # generation)
      /\ \/ request'[r].stage = "view"
         \/ /\ key \in DOMAIN pages /\ page_clock < pages[key].expires
            /\ request'[r].stage = "answered" /\ request'[r].version = pages[key].version
  <2> DEFINE found == [request EXCEPT ![r].key = key, ![r].blind = g # generation]
  <2>1. request \in [Requests -> PageRequest] /\ (g # generation) \in BOOLEAN
    BY DEF PagesInv, PagesTyped
  <2> HIDE DEF key
  <2>2. /\ found \in [Requests -> PageRequest]
        /\ \A q \in Requests : q # r => found[q] = request[q]
        /\ found[r].started = request[r].started /\ found[r].epoch = request[r].epoch
        /\ found[r].own = request[r].own /\ found[r].topology = request[r].topology
        /\ found[r].lasting = request[r].lasting
        /\ found[r].key = key /\ found[r].blind = (g # generation)
    BY ONLY <1>3, <2>1, r \in Requests DEF PageRequest
  <2>3. \/ /\ key \in DOMAIN pages /\ page_clock < pages[key].expires
           /\ request' = [found EXCEPT ![r].stage = "answered", ![r].version = pages[key].version]
        \/ request' = [found EXCEPT ![r].stage = "view"]
    BY <1>1 DEF key_of, key
  <2>4. key \in DOMAIN pages => pages[key].version \in Nat
    BY DEF PagesInv, PagesTyped
  <2> HIDE DEF found
  <2> QED
    BY ONLY <2>2, <2>3, <2>4, r \in Requests DEF PageRequest, PageStages
<1> HIDE DEF key
<1>6. PagesTyped' /\ PromisesPast'
  <2>1. PagesTyped'
    BY <1>0, <1>4, <1>5 DEF PagesInv, PagesTyped
  <2> QED
    BY <1>0, <1>5, <2>1 DEF PagesInv, PromisesPast
<1>7. RequestsFit'
  BY <1>0, <1>5 DEF PagesInv, RequestsFit
<1>8. RenderedFit' /\ StoredFit'
  BY <1>0, <1>4, <1>5 DEF PagesInv, RenderedFit, StoredFit
<1>9. GenerationsFit'
  BY <1>0, <1>2, <1>3, <1>4, <1>5 DEF PagesInv, GenerationsFit, Used
<1>10. EpochsFit'
  <2>1. Past' = Past
    <3>1. r \notin cache_plan.posts
      BY <1>0, PlanFits DEF PagesInv
    <3> QED
      BY <1>0, <1>5, <3>1 DEF Past
  <2> QED
    BY <1>0, <1>3, <1>4, <1>5, <2>1 DEF PagesInv, EpochsFit
<1>11. ~ restored' => OwnFits'
  <2>1. \A q \in cache_plan.displays : /\ request'[q].stage # "none" => request[q].stage # "none"
                                       /\ request'[q].epoch = request[q].epoch
                                       /\ request'[q].own = request[q].own
    BY <1>0, <1>5, PlanFits DEF PagesInv
  <2>2. \A q \in Requests : request'[q].stage = "rendered" => request'[q] = request[q]
    BY <1>5
  <2> QED
    BY <1>0, <1>4, <2>1, <2>2 DEF PagesInv, OwnFits
<1>12. AnswersFit'
  <2>1. ASSUME request'[r].stage = "answered"
        PROVE  /\ request'[r].version >= request'[r].lasting
               /\ request'[r].version >= request'[r].topology \/ request'[r].blind
               /\ ~ restored => request'[r].version >= request'[r].own
    <3>1. /\ key \in DOMAIN pages /\ page_clock < pages[key].expires
          /\ request'[r].version = pages[key].version
      BY <1>5, <2>1
    <3>2. pages[key].version >= request[r].lasting
      <4>1. /\ request[r].started <= page_clock /\ request[r].started \in Nat
            /\ request[r].lasting = LastingAt(request[r].started, promised.lasting)
        BY <1>0 DEF PagesInv, RequestsFit, PageRequest
      <4>2. CASE request[r].started < Lifetime + RequestTime
        BY <3>1, <4>1, <4>2 DEF LastingAt, PagesInv, PagesTyped
      <4>3. CASE ~ (request[r].started < Lifetime + RequestTime)
        <5> DEFINE s == request[r].started - (Lifetime + RequestTime)
        <5>1. /\ s \in 0 .. MaxSeconds
              /\ s + Lifetime + RequestTime < pages[key].expires
          <6>1. /\ pages[key].expires \in Nat /\ page_clock \in 0 .. MaxSeconds
                /\ Lifetime \in Nat /\ RequestTime \in Nat /\ MaxSeconds \in Nat
            BY <3>1, PlanFits DEF PagesInv, PagesTyped
          <6> QED
            BY ONLY <3>1, <4>1, <4>3, <6>1
        <5>2. promised.lasting[s] <= pages[key].version
          BY <3>1, <5>1 DEF PagesInv, StoredFit
        <5>3. request[r].lasting = promised.lasting[s]
          BY <4>1, <4>3 DEF LastingAt
        <5>4. promised.lasting[s] \in Nat /\ pages[key].version \in Nat
          BY <3>1, <5>1 DEF PagesInv, PagesTyped
        <5> QED
          BY <5>2, <5>3, <5>4
      <4> QED
        BY <4>2, <4>3
    <3>3. pages[key].version >= request[r].topology \/ request'[r].blind
      <4>1. CASE g = generation
        <5>1. pages[key].version >= promised.topology
          BY <1>3, <3>1, <4>1 DEF PagesInv, GenerationsFit
        <5>2. /\ request[r].topology <= promised.topology
              /\ request[r].topology \in Nat /\ promised.topology \in Nat
              /\ pages[key].version \in Nat
          BY <1>0, <3>1 DEF PagesInv, PromisesPast, PagesTyped, PageRequest
        <5> QED
          BY <5>1, <5>2
      <4>2. CASE g # generation
        BY <1>5, <4>2
      <4> QED
        BY <4>1, <4>2
    <3>4. ~ restored => pages[key].version >= request[r].own
      BY <1>0, <1>3, <3>1 DEF PagesInv, OwnFits
    <3> QED
      BY <1>5, <3>1, <3>2, <3>3, <3>4
  <2>2. \A q \in cache_plan.displays : q # r => request'[q] = request[q]
    BY <1>5, PlanFits DEF PagesInv
  <2> QED
    BY <1>0, <2>1, <2>2 DEF PagesInv, AnswersFit
<1> QED
  BY <1>6, <1>7, <1>8, <1>9, <1>10, <1>11, <1>12 DEF PagesInv

\* What is rendered is all there is.
LEMMA RenderKeeps == ASSUME PagesInv, NEW r \in Requests, Render(r) PROVE PagesInv'
<1>0. /\ UNCHANGED <<cache_plan, page_clock, shown, epoch, generation, pages, pending, changes,
                     promised, restored>>
      /\ request[r].stage = "view" /\ r \in cache_plan.displays
      /\ request[r] \in PageRequest
  BY DEF Render, PagesInv, RequestsFit, PagesTyped
<1>1. /\ request' \in [Requests -> PageRequest]
      /\ \A q \in Requests : q # r => request'[q] = request[q]
      /\ request'[r].started = request[r].started /\ request'[r].epoch = request[r].epoch
      /\ request'[r].own = request[r].own /\ request'[r].topology = request[r].topology
      /\ request'[r].lasting = request[r].lasting /\ request'[r].key = request[r].key
      /\ request'[r].stage = "rendered" /\ request'[r].version = shown
  <2>1. /\ request \in [Requests -> PageRequest] /\ shown \in Nat
        /\ request' = [request EXCEPT ![r].stage = "rendered", ![r].version = shown]
    BY DEF Render, PagesInv, PagesTyped
  <2> QED
    BY ONLY <2>1, r \in Requests, ZenonT(60) DEF PageRequest, PageStages
<1>2. PagesTyped' /\ PromisesPast'
  BY <1>0, <1>1 DEF PagesInv, PagesTyped, PromisesPast
<1>3. RequestsFit' /\ StoredFit'
  BY <1>0, <1>1 DEF PagesInv, RequestsFit, StoredFit
<1>4. RenderedFit'
  <2>1. shown >= request[r].lasting
    <3>1. request[r].started \in 0 .. page_clock
      BY <1>0 DEF PagesInv, RequestsFit, PageRequest, PagesTyped
    <3>2. LastingAt(request[r].started, promised.lasting) <= shown
      BY <3>1, LastingTyped DEF PagesInv
    <3>3. request[r].lasting <= shown
      BY <1>0, <3>2 DEF PagesInv, RequestsFit
    <3> QED
      BY <1>0, <3>3 DEF PagesInv, PagesTyped, PageRequest
  <2>2. shown >= request[r].topology /\ shown >= request[r].own
    BY <1>0 DEF PagesInv, PromisesPast, PagesTyped, PageRequest
  <2>3. /\ shown <= shown
        /\ \A s \in 0 .. MaxSeconds : promised.lasting[s] <= shown
    BY DEF PagesInv, PromisesPast, PagesTyped
  <2>4. \A q \in Requests : q # r => request'[q] = request[q]
    BY <1>1
  <2> QED
    BY <1>0, <1>1, <2>1, <2>2, <2>3, <2>4 DEF PagesInv, RenderedFit
<1>5. shown >= promised.topology /\ shown >= promised.own
  BY DEF PagesInv, PromisesPast, PagesTyped
<1>6. GenerationsFit'
  BY <1>0, <1>1, <1>5 DEF PagesInv, GenerationsFit, Used
<1>7. EpochsFit'
  <2>1. Past' = Past
    BY <1>0, <1>1 DEF Past
  <2> QED
    BY <1>0, <1>1, <2>1 DEF PagesInv, EpochsFit
<1>8. ~ restored' => OwnFits'
  <2>1. \A q \in cache_plan.displays : /\ q \in Requests
                                       /\ request'[q].stage # "none" => request[q].stage # "none"
                                       /\ request'[q].epoch = request[q].epoch
                                       /\ request'[q].own = request[q].own
                                       /\ shown >= request[q].own
    <3>1. \A q \in Requests : shown >= request[q].own
      <4>1. \A q \in Requests : request[q].own \in Nat /\ request[q].own <= promised.own
        BY DEF PagesInv, PromisesPast, PagesTyped, PageRequest
      <4>2. promised.own \in Nat /\ shown \in Nat /\ shown >= promised.own
        BY <1>5 DEF PagesInv, PagesTyped
      <4> QED
        BY ONLY <4>1, <4>2
    <3>2. cache_plan.displays \subseteq Requests
      BY PlanFits DEF PagesInv
    <3> QED
      BY <1>0, <1>1, <3>1, <3>2
  <2> QED
    BY <1>0, <1>1, <1>5, <2>1 DEF PagesInv, OwnFits
<1>9. AnswersFit'
  BY <1>0, <1>1, PlanFits DEF PagesInv, AnswersFit
<1> QED
  BY <1>2, <1>3, <1>4, <1>6, <1>7, <1>8, <1>9 DEF PagesInv

\* The page is stored under the key under which it was looked for, or not at all.
LEMMA StorePageKeeps == ASSUME PagesInv, NEW r \in Requests, StorePage(r) PROVE PagesInv'
<1> DEFINE key == request[r].key
           page == [version |-> request[r].version, expires |-> page_clock + Lifetime]
<1>0. /\ UNCHANGED <<cache_plan, page_clock, shown, epoch, generation, pending, changes,
                     promised, restored>>
      /\ request[r].stage = "rendered" /\ r \in cache_plan.displays
      /\ request[r] \in PageRequest
  BY DEF StorePage, PagesInv, RequestsFit, PagesTyped
<1>1. /\ request' \in [Requests -> PageRequest]
      /\ \A q \in Requests : q # r => request'[q] = request[q]
      /\ request'[r].started = request[r].started /\ request'[r].epoch = request[r].epoch
      /\ request'[r].own = request[r].own /\ request'[r].topology = request[r].topology
      /\ request'[r].lasting = request[r].lasting /\ request'[r].key = request[r].key
      /\ request'[r].stage = "answered" /\ request'[r].version = request[r].version
  <2>1. /\ request \in [Requests -> PageRequest]
        /\ request' = [request EXCEPT ![r].stage = "answered"]
    BY DEF StorePage, PagesInv, PagesTyped
  <2> QED
    BY ONLY <2>1, r \in Requests DEF PageRequest, PageStages
<1>2. /\ DOMAIN pages' \subseteq DOMAIN pages \cup {key}
      /\ \A k \in DOMAIN pages' : \/ k = key /\ pages'[k] = page
                                  \/ k \in DOMAIN pages /\ pages'[k] = pages[k]
  BY DEF StorePage
<1>3. /\ key \in PageKeys /\ page.version \in Nat /\ page.expires \in Nat
      /\ page.version = request[r].version /\ page.expires = page_clock + Lifetime
      /\ Lifetime \in Nat \ {0} /\ page_clock \in Nat /\ RequestTime \in Nat
  BY <1>0, PlanFits DEF PagesInv, PagesTyped, PageRequest
<1> HIDE DEF page, key
<1>4. PagesTyped' /\ PromisesPast'
  <2>1. \A k \in DOMAIN pages' : k \in PageKeys /\ pages'[k].version \in Nat
                                 /\ pages'[k].expires \in Nat
    BY <1>2, <1>3 DEF PagesInv, PagesTyped
  <2> QED
    BY <1>0, <1>1, <2>1 DEF PagesInv, PagesTyped, PromisesPast
<1>5. RequestsFit' /\ RenderedFit'
  BY <1>0, <1>1 DEF PagesInv, RequestsFit, RenderedFit
<1>6. StoredFit'
  <2>1. /\ page.version <= shown
        /\ page_clock < page.expires /\ page.expires <= page_clock + Lifetime
        /\ \A s \in 0 .. MaxSeconds : s + Lifetime + RequestTime < page.expires
                                        => promised.lasting[s] <= page.version
    <3>1. page_clock <= request[r].started + RequestTime /\ request[r].started \in Nat
      BY <1>0 DEF PagesInv, RequestsFit, PageRequest
    <3>2. \A s \in 0 .. MaxSeconds : s + Lifetime + RequestTime < page_clock + Lifetime
                                       => s < request[r].started
      BY <1>3, <3>1
    <3> QED
      BY <1>0, <1>3, <3>2 DEF PagesInv, RenderedFit
  <2> QED
    BY <1>0, <1>2, <2>1 DEF PagesInv, StoredFit
<1>7. GenerationsFit'
  <2>1. Used(key[2]) /\ (key[2] = generation => page.version >= promised.topology)
    BY <1>0, <1>3 DEF PagesInv, GenerationsFit, key
  <2>2. \A q \in Requests : request'[q].key = request[q].key
    BY <1>1
  <2> QED
    BY <1>0, <1>1, <1>2, <2>1, <2>2 DEF PagesInv, GenerationsFit, Used
<1>8. EpochsFit'
  <2>1. Past' = Past
    <3>1. r \notin cache_plan.posts
      BY <1>0, PlanFits DEF PagesInv
    <3> QED
      BY <1>0, <1>1, <3>1 DEF Past
  <2>2. key[1] \in Past
    <3>1. r \notin cache_plan.posts /\ key[1] = request[r].epoch
      BY <1>0, PlanFits DEF PagesInv, EpochsFit, key
    <3> QED
      BY <1>0, <3>1 DEF PagesInv, EpochsFit
  <2> QED
    BY <1>0, <1>1, <1>2, <2>1, <2>2 DEF PagesInv, EpochsFit
<1>9. ~ restored' => OwnFits'
  <2> SUFFICES ASSUME ~ restored PROVE OwnFits'
    BY <1>0
  <2>1. \A q \in cache_plan.displays : /\ request'[q].stage # "none" => request[q].stage # "none"
                                       /\ request'[q].epoch = request[q].epoch
                                       /\ request'[q].own = request[q].own
    BY <1>0, <1>1, PlanFits DEF PagesInv
  <2>2. \A q \in Requests : request'[q].stage = "rendered" => request'[q] = request[q]
    BY <1>1
  <2>3. /\ key[1] = epoch => page.version >= promised.own
        /\ \A q \in cache_plan.displays : request[q].stage # "none" /\ request[q].epoch = key[1]
                                            => page.version >= request[q].own
    <3>1. key[1] = request[r].epoch
      BY <1>0 DEF PagesInv, EpochsFit, key
    <3> QED
      BY <1>0, <1>3, <3>1 DEF PagesInv, OwnFits
  <2> QED
    BY <1>0, <1>2, <2>1, <2>2, <2>3 DEF PagesInv, OwnFits
<1>10. AnswersFit'
  <2>1. \A q \in cache_plan.displays : q # r => request'[q] = request[q]
    BY <1>1, PlanFits DEF PagesInv
  <2> QED
    BY <1>0, <1>1, <2>1 DEF PagesInv, AnswersFit, RenderedFit
<1> QED
  BY <1>4, <1>5, <1>6, <1>7, <1>8, <1>9, <1>10 DEF PagesInv

\* A new version exists at once; nothing older than it becomes newer.
LEMMA ShownLater ==
  ASSUME PagesInv, shown' = shown + 1,
         promised' = [promised EXCEPT !.lasting[page_clock] = shown + 1],
         UNCHANGED <<cache_plan, page_clock, epoch, generation, pages, restored>>
  PROVE  /\ promised' \in [own : Nat, topology : Nat, lasting : [0 .. MaxSeconds -> Nat]]
         /\ promised'.own = promised.own /\ promised'.topology = promised.topology
         /\ \A s \in 0 .. MaxSeconds : s # page_clock => promised'.lasting[s] = promised.lasting[s]
         /\ \A s \in 0 .. MaxSeconds : promised'.lasting[s] <= shown'
         /\ \A s \in 0 .. page_clock :
              LastingAt(s, promised'.lasting) = LastingAt(s, promised.lasting)
         /\ shown' \in Nat /\ shown <= shown' /\ StoredFit'
<1>1. /\ promised \in [own : Nat, topology : Nat, lasting : [0 .. MaxSeconds -> Nat]]
      /\ shown \in Nat /\ shown + 1 \in Nat /\ page_clock \in 0 .. MaxSeconds
      /\ Lifetime \in Nat \ {0} /\ RequestTime \in Nat /\ MaxSeconds \in Nat
  BY PlanFits DEF PagesInv, PagesTyped
<1>2. /\ promised' \in [own : Nat, topology : Nat, lasting : [0 .. MaxSeconds -> Nat]]
      /\ promised'.own = promised.own /\ promised'.topology = promised.topology
      /\ promised'.lasting = [promised.lasting EXCEPT ![page_clock] = shown + 1]
  BY ONLY <1>1, promised' = [promised EXCEPT !.lasting[page_clock] = shown + 1]
<1>3. /\ \A s \in 0 .. MaxSeconds : s # page_clock => promised'.lasting[s] = promised.lasting[s]
      /\ promised'.lasting[page_clock] = shown + 1
  BY <1>1, <1>2
<1>4. \A s \in 0 .. MaxSeconds : promised'.lasting[s] <= shown'
  <2>1. \A s \in 0 .. MaxSeconds : promised.lasting[s] <= shown /\ promised.lasting[s] \in Nat
    BY <1>1 DEF PagesInv, PromisesPast
  <2> QED
    BY <1>1, <1>3, <2>1
<1>5. \A s \in 0 .. page_clock : LastingAt(s, promised'.lasting) = LastingAt(s, promised.lasting)
  <2>1. \A s \in 0 .. page_clock : ~ (s < Lifetime + RequestTime)
          => s - (Lifetime + RequestTime) \in 0 .. MaxSeconds
             /\ s - (Lifetime + RequestTime) # page_clock
    BY <1>1
  <2> QED
    BY <1>3, <2>1 DEF LastingAt
<1>6. StoredFit'
  <2>1. ASSUME NEW k \in DOMAIN pages, NEW s \in 0 .. MaxSeconds,
               s + Lifetime + RequestTime < pages[k].expires
        PROVE  promised'.lasting[s] <= pages[k].version
    <3>1. pages[k].expires <= page_clock + Lifetime /\ pages[k].expires \in Nat
      BY DEF PagesInv, StoredFit, PagesTyped
    <3>2. s # page_clock
      BY <1>1, <2>1, <3>1
    <3> QED
      BY <1>3, <2>1, <3>2 DEF PagesInv, StoredFit
  <2>2. \A k \in DOMAIN pages : pages[k].version <= shown /\ pages[k].version \in Nat
    BY DEF PagesInv, StoredFit, PagesTyped
  <2>3. \A k \in DOMAIN pages :
          page_clock < pages[k].expires /\ pages[k].expires <= page_clock + Lifetime
    BY DEF PagesInv, StoredFit
  <2>4. shown' = shown + 1
    OBVIOUS
  <2>5. \A k \in DOMAIN pages : pages[k].version <= shown'
    BY ONLY <1>1, <2>2, <2>4
  <2>6. UNCHANGED <<page_clock, pages>>
    OBVIOUS
  <2> QED
    BY ONLY <2>1, <2>3, <2>5, <2>6 DEF StoredFit
<1>7. shown' \in Nat /\ shown <= shown'
  BY <1>1
<1> QED
  BY <1>2, <1>3, <1>4, <1>5, <1>6, <1>7

\* Somebody else, a Worker or a topology batch changes what is displayed.
LEMMA ChangeDataKeeps ==
  ASSUME PagesInv, NEW kind \in {"topology", "elsewhere"}, ChangeData(kind),
         UNCHANGED <<cache_plan, page_clock, epoch, generation, pages, request, restored>>,
         \/ kind = "elsewhere" /\ pending' = pending
         \/ kind = "topology" /\ ~ pending /\ pending' = TRUE
  PROVE  PagesInv'
<1>1. /\ changes' \in [topology : Nat, elsewhere : Nat]
      /\ kind = "topology" => changes'.topology = changes.topology + 1
      /\ kind = "elsewhere" => changes'.topology = changes.topology
  <2>1. changes \in [topology : Nat, elsewhere : Nat]
        /\ changes' = [changes EXCEPT ![kind] = @ + 1]
    BY DEF PagesInv, PagesTyped, ChangeData
  <2>2. CASE kind = "topology"
    BY ONLY <2>1, <2>2
  <2>3. CASE kind = "elsewhere"
    BY ONLY <2>1, <2>3
  <2> QED
    BY <2>2, <2>3
<1>2. /\ promised' \in [own : Nat, topology : Nat, lasting : [0 .. MaxSeconds -> Nat]]
      /\ promised'.own = promised.own /\ promised'.topology = promised.topology
      /\ \A s \in 0 .. MaxSeconds : s # page_clock => promised'.lasting[s] = promised.lasting[s]
      /\ \A s \in 0 .. MaxSeconds : promised'.lasting[s] <= shown'
      /\ \A s \in 0 .. page_clock :
           LastingAt(s, promised'.lasting) = LastingAt(s, promised.lasting)
      /\ shown' \in Nat /\ shown <= shown' /\ StoredFit'
  BY ShownLater DEF ChangeData
<1>3. PagesTyped'
  BY <1>1, <1>2 DEF PagesInv, PagesTyped
<1>4. PromisesPast'
  BY <1>2 DEF PagesInv, PagesTyped, PromisesPast
<1>5. \A r \in Requests : /\ request[r] \in PageRequest
                          /\ request[r].stage # "none" => request[r].started \in 0 .. page_clock
  BY DEF PagesInv, PagesTyped, RequestsFit, PageRequest
<1>6. RequestsFit'
  BY <1>2, <1>5 DEF PagesInv, RequestsFit, PagesTyped, PageRequest
<1>7. RenderedFit'
  <2>1. ASSUME NEW r \in Requests, request[r].stage = "rendered", NEW s \in 0 .. MaxSeconds,
               s < request[r].started
        PROVE  promised'.lasting[s] <= request[r].version
    <3>1. s # page_clock
      BY <1>5, <2>1 DEF PagesInv, PagesTyped
    <3> QED
      BY <1>2, <2>1, <3>1 DEF PagesInv, RenderedFit
  <2>2. \A r \in Requests : request[r].version <= shown => request[r].version <= shown'
    BY <1>2, <1>5 DEF PagesInv, PagesTyped, PageRequest
  <2> QED
    BY <2>1, <2>2 DEF PagesInv, RenderedFit
<1>8. GenerationsFit'
  BY <1>1, <1>2 DEF PagesInv, GenerationsFit, Used, PagesTyped, Generations
<1>9. EpochsFit'
  BY DEF PagesInv, EpochsFit, Past
<1>10. ~ restored' => OwnFits'
  BY <1>2 DEF PagesInv, OwnFits
<1>11. AnswersFit'
  BY DEF PagesInv, AnswersFit
<1> QED
  BY <1>2, <1>3, <1>4, <1>6, <1>7, <1>8, <1>9, <1>10, <1>11 DEF PagesInv

LEMMA CommitPostKeeps == ASSUME PagesInv, NEW r \in Requests, CommitPost(r) PROVE PagesInv'
<1>0. /\ UNCHANGED <<cache_plan, page_clock, epoch, generation, pages, pending, changes, restored>>
      /\ request[r].stage = "handling" /\ r \in cache_plan.posts
      /\ shown' = shown + 1
      /\ promised' = [promised EXCEPT !.lasting[page_clock] = shown + 1]
  BY DEF CommitPost
<1>1. /\ request' \in [Requests -> PageRequest]
      /\ \A q \in Requests : q # r => request'[q] = request[q]
      /\ request'[r].started = request[r].started /\ request'[r].epoch = request[r].epoch
      /\ request'[r].own = request[r].own /\ request'[r].topology = request[r].topology
      /\ request'[r].lasting = request[r].lasting /\ request'[r].key = request[r].key
      /\ request'[r].stage = "committed" /\ request'[r].version = shown + 1
  <2>1. /\ request \in [Requests -> PageRequest] /\ shown + 1 \in Nat
        /\ request' = [request EXCEPT ![r].stage = "committed", ![r].version = shown + 1]
    BY DEF CommitPost, PagesInv, PagesTyped
  <2> QED
    BY ONLY <2>1, r \in Requests, ZenonT(60) DEF PageRequest, PageStages
<1>2. /\ promised' \in [own : Nat, topology : Nat, lasting : [0 .. MaxSeconds -> Nat]]
      /\ promised'.own = promised.own /\ promised'.topology = promised.topology
      /\ \A s \in 0 .. MaxSeconds : s # page_clock => promised'.lasting[s] = promised.lasting[s]
      /\ \A s \in 0 .. MaxSeconds : promised'.lasting[s] <= shown'
      /\ \A s \in 0 .. page_clock :
           LastingAt(s, promised'.lasting) = LastingAt(s, promised.lasting)
      /\ shown' \in Nat /\ shown <= shown' /\ StoredFit'
  BY <1>0, ShownLater
<1>3. r \notin cache_plan.displays /\ cache_plan.displays \subseteq Requests
  BY <1>0, PlanFits DEF PagesInv
<1>4. PagesTyped'
  BY <1>0, <1>1, <1>2 DEF PagesInv, PagesTyped
<1>5. PromisesPast'
  BY <1>1, <1>2 DEF PagesInv, PagesTyped, PromisesPast
<1>6. \A q \in Requests :
        /\ request[q] \in PageRequest
        /\ request[q].stage # "none" => request[q].started \in 0 .. page_clock
        /\ request[q].version <= shown => request[q].version <= shown'
  <2>1. \A q \in Requests :
          /\ request[q] \in PageRequest
          /\ request[q].stage # "none" => request[q].started \in 0 .. page_clock
    BY DEF PagesInv, PagesTyped, RequestsFit, PageRequest
  <2>2. \A q \in Requests : request[q].version \in Nat
    BY <2>1 DEF PageRequest
  <2>3. shown \in Nat
    BY DEF PagesInv, PagesTyped
  <2> QED
    BY ONLY <1>2, <2>1, <2>2, <2>3
<1>7. RequestsFit'
  <2>1. \A q \in Requests : request[q].version <= shown => request[q].version <= shown'
    BY <1>6
  <2>2. shown + 1 <= shown'
    BY <1>0, <1>2
  <2> QED
    BY <1>0, <1>1, <1>2, <1>6, <2>1, <2>2 DEF PagesInv, RequestsFit
<1>8. RenderedFit'
  <2>1. ASSUME NEW q \in Requests, request[q].stage = "rendered", NEW s \in 0 .. MaxSeconds,
               s < request[q].started
        PROVE  promised'.lasting[s] <= request[q].version
    <3>1. s # page_clock
      BY <1>6, <2>1 DEF PagesInv, PagesTyped
    <3> QED
      BY <1>2, <2>1, <3>1 DEF PagesInv, RenderedFit
  <2>2. \A q \in Requests : request[q].version <= shown => request[q].version <= shown'
    BY <1>6
  <2> QED
    BY <1>1, <2>1, <2>2 DEF PagesInv, RenderedFit
<1>9. GenerationsFit'
  BY <1>0, <1>1, <1>2 DEF PagesInv, GenerationsFit, Used
<1>10. EpochsFit'
  <2>1. Past' = Past
    BY <1>0, <1>1 DEF Past
  <2> QED
    BY <1>0, <1>1, <2>1 DEF PagesInv, EpochsFit
<1>11. ~ restored' => OwnFits'
  <2>1. \A q \in cache_plan.displays : request'[q] = request[q]
    BY <1>1, <1>3
  <2>2. \A q \in Requests : request'[q].stage = "rendered" => request'[q] = request[q]
    BY <1>1
  <2> QED
    BY <1>0, <1>2, <2>1, <2>2 DEF PagesInv, OwnFits
<1>12. AnswersFit'
  BY <1>0, <1>1, <1>3 DEF PagesInv, AnswersFit
<1> QED
  BY <1>2, <1>4, <1>5, <1>7, <1>8, <1>9, <1>10, <1>11, <1>12 DEF PagesInv

\* The change is promised to the session under an epoch that nothing has used yet.
LEMMA EndPostKeeps == ASSUME PagesInv, NEW r \in Requests, EndPost(r) PROVE PagesInv'
<1>0. /\ UNCHANGED <<cache_plan, page_clock, shown, generation, pages, pending, changes, restored>>
      /\ request[r].stage = "committed" /\ r \in cache_plan.posts
      /\ request[r].version <= shown /\ request[r].version \in Nat
      /\ request[r].epoch = r /\ epoch' = r
  BY DEF EndPost, epoch_after_post, PagesInv, RequestsFit, EpochsFit, PagesTyped, PageRequest
<1>1. /\ request' \in [Requests -> PageRequest]
      /\ \A q \in Requests : q # r => request'[q] = request[q]
      /\ request'[r].started = request[r].started /\ request'[r].epoch = request[r].epoch
      /\ request'[r].own = request[r].own /\ request'[r].topology = request[r].topology
      /\ request'[r].lasting = request[r].lasting /\ request'[r].key = request[r].key
      /\ request'[r].stage = "answered"
  <2>1. /\ request \in [Requests -> PageRequest]
        /\ request' = [request EXCEPT ![r].stage = "answered"]
    BY DEF EndPost, PagesInv, PagesTyped
  <2> QED
    BY ONLY <2>1, r \in Requests DEF PageRequest, PageStages
<1>2. /\ promised' \in [own : Nat, topology : Nat, lasting : [0 .. MaxSeconds -> Nat]]
      /\ promised.own <= promised'.own /\ promised'.own <= shown
      /\ promised'.topology = promised.topology /\ promised'.lasting = promised.lasting
  <2>1. /\ promised \in [own : Nat, topology : Nat, lasting : [0 .. MaxSeconds -> Nat]]
        /\ promised.own <= shown
        /\ promised' = [promised EXCEPT !.own = IF request[r].version > promised.own
                                                THEN request[r].version ELSE promised.own]
    BY DEF EndPost, PagesInv, PagesTyped, PromisesPast
  <2> QED
    BY ONLY <1>0, <2>1
<1>3. r \notin cache_plan.displays /\ cache_plan.displays \subseteq Requests /\ r # NoEpoch
  BY <1>0, PlanFits DEF PagesInv
<1>4. PagesTyped'
  BY <1>0, <1>1, <1>2 DEF PagesInv, PagesTyped, Epochs
<1>5. PromisesPast'
  <2>1. \A q \in Requests : request[q].own <= promised'.own
    <3>1. promised.own \in Nat /\ \A q \in Requests : request[q].own \in Nat
      BY DEF PagesInv, PagesTyped, PageRequest
    <3>2. \A q \in Requests : request[q].own <= promised.own
      BY DEF PagesInv, PromisesPast
    <3> QED
      BY ONLY <1>2, <3>1, <3>2
  <2> QED
    BY <1>0, <1>1, <1>2, <2>1 DEF PagesInv, PromisesPast
<1>6. RequestsFit' /\ RenderedFit' /\ StoredFit'
  BY <1>0, <1>1, <1>2 DEF PagesInv, RequestsFit, RenderedFit, StoredFit
<1>7. GenerationsFit'
  BY <1>0, <1>1, <1>2 DEF PagesInv, GenerationsFit, Used
<1>8. Past' = Past \cup {r} /\ r \notin Past
  BY <1>0, <1>1, <1>3 DEF Past
<1>9. EpochsFit'
  BY <1>0, <1>1, <1>8 DEF PagesInv, EpochsFit
<1>10. ~ restored' => OwnFits'
  <2>1. \A q \in cache_plan.displays : request'[q] = request[q]
    BY <1>1, <1>3
  <2>2. \A q \in Requests : request'[q].stage = "rendered"
          => request'[q] = request[q] /\ request[q].epoch # r
    <3>1. \A q \in Requests : request[q].stage = "rendered" => q \notin cache_plan.posts
      BY PlanFits DEF PagesInv, RequestsFit
    <3> QED
      BY <1>1, <1>8, <3>1 DEF PagesInv, EpochsFit
  <2>3. \A k \in DOMAIN pages : k[1] # r
    BY <1>8 DEF PagesInv, EpochsFit
  <2> QED
    BY <1>0, <2>1, <2>2, <2>3 DEF PagesInv, OwnFits
<1>11. AnswersFit'
  BY <1>0, <1>1, <1>3 DEF PagesInv, AnswersFit
<1> QED
  BY <1>4, <1>5, <1>6, <1>7, <1>9, <1>10, <1>11 DEF PagesInv

\* A server error leaves the epoch and the promises as they were.
LEMMA FailPostKeeps == ASSUME PagesInv, NEW r \in Requests, FailPost(r) PROVE PagesInv'
<1>0. /\ UNCHANGED <<cache_plan, page_clock, shown, epoch, generation, pages, pending, changes,
                     promised, restored>>
      /\ request[r].stage \in {"handling", "committed"} /\ r \in cache_plan.posts
  BY DEF FailPost
<1>1. /\ request' \in [Requests -> PageRequest]
      /\ \A q \in Requests : q # r => request'[q] = request[q]
      /\ request'[r].started = request[r].started /\ request'[r].epoch = request[r].epoch
      /\ request'[r].own = request[r].own /\ request'[r].topology = request[r].topology
      /\ request'[r].lasting = request[r].lasting /\ request'[r].key = request[r].key
      /\ request'[r].stage = "answered"
  <2>1. /\ request \in [Requests -> PageRequest]
        /\ request' = [request EXCEPT ![r].stage = "answered"]
    BY DEF FailPost, PagesInv, PagesTyped
  <2> QED
    BY ONLY <2>1, r \in Requests DEF PageRequest, PageStages
<1>2. r \notin cache_plan.displays /\ cache_plan.displays \subseteq Requests /\ r # NoEpoch
  BY <1>0, PlanFits DEF PagesInv
<1>3. PagesTyped'
  BY <1>0, <1>1 DEF PagesInv, PagesTyped, Epochs
<1>4. PromisesPast'
  BY <1>0, <1>1 DEF PagesInv, PromisesPast
<1>5. RequestsFit' /\ RenderedFit' /\ StoredFit'
  BY <1>0, <1>1 DEF PagesInv, RequestsFit, RenderedFit, StoredFit
<1>6. GenerationsFit'
  BY <1>0, <1>1 DEF PagesInv, GenerationsFit, Used
<1>7. Past' = Past \cup {r}
  BY <1>0, <1>1, <1>2 DEF Past
<1>8. EpochsFit'
  BY <1>0, <1>1, <1>7 DEF PagesInv, EpochsFit
<1>9. ~ restored' => OwnFits'
  BY <1>0, <1>1, <1>2 DEF PagesInv, OwnFits
<1>10. AnswersFit'
  BY <1>0, <1>1, <1>2 DEF PagesInv, AnswersFit
<1> QED
  BY <1>3, <1>4, <1>5, <1>6, <1>8, <1>9, <1>10 DEF PagesInv

\* A list page may bring back an epoch, and then nothing is claimed of own changes.
LEMMA EndListKeeps == ASSUME PagesInv, NEW r \in Requests, EndList(r) PROVE PagesInv'
<1>0. /\ UNCHANGED <<cache_plan, page_clock, shown, generation, pages, pending, changes, promised>>
      /\ request[r].stage = "handling" /\ r \in cache_plan.lists
      /\ epoch' \in {epoch, request[r].epoch} /\ restored' \in BOOLEAN
      /\ ~ restored' => ~ restored /\ epoch' = epoch
  <2>1. /\ UNCHANGED <<cache_plan, page_clock, shown, generation, pages, pending, changes,
                       promised>>
        /\ request[r].stage = "handling" /\ r \in cache_plan.lists
    BY DEF EndList
  <2>2. \/ epoch' = epoch /\ restored' = restored
        \/ /\ epoch' = request[r].epoch
           /\ restored' = (restored \/ epoch # request[r].epoch)
    BY DEF EndList
  <2>3. restored \in BOOLEAN
    BY DEF PagesInv, PagesTyped
  <2>4. restored' \in BOOLEAN
    BY ONLY <2>2, <2>3, Zenon
  <2>5. ~ restored' => ~ restored /\ epoch' = epoch
    BY ONLY <2>2, <2>3, Zenon
  <2> QED
    BY <2>1, <2>2, <2>4, <2>5
<1>1. /\ request' \in [Requests -> PageRequest]
      /\ \A q \in Requests : q # r => request'[q] = request[q]
      /\ request'[r].started = request[r].started /\ request'[r].epoch = request[r].epoch
      /\ request'[r].own = request[r].own /\ request'[r].topology = request[r].topology
      /\ request'[r].lasting = request[r].lasting /\ request'[r].key = request[r].key
      /\ request'[r].stage = "answered"
  <2>1. /\ request \in [Requests -> PageRequest]
        /\ request' = [request EXCEPT ![r].stage = "answered"]
    BY DEF EndList, PagesInv, PagesTyped
  <2> QED
    BY ONLY <2>1, r \in Requests DEF PageRequest, PageStages
<1>2. /\ r \notin cache_plan.displays /\ r \notin cache_plan.posts
      /\ cache_plan.displays \subseteq Requests
  BY <1>0, PlanFits DEF PagesInv
<1>3. epoch' \in Past /\ Past' = Past
  BY <1>0, <1>1, <1>2 DEF PagesInv, EpochsFit, Past
<1>4. PagesTyped' /\ PromisesPast'
  <2>1. Past \subseteq Epochs
    BY DEF Past, Epochs
  <2> QED
    BY <1>0, <1>1, <1>3, <2>1 DEF PagesInv, PagesTyped, PromisesPast
<1>5. RequestsFit' /\ RenderedFit' /\ StoredFit'
  BY <1>0, <1>1 DEF PagesInv, RequestsFit, RenderedFit, StoredFit
<1>6. GenerationsFit'
  BY <1>0, <1>1 DEF PagesInv, GenerationsFit, Used
<1>7. EpochsFit'
  BY <1>0, <1>1, <1>3 DEF PagesInv, EpochsFit
<1>8. ~ restored' => OwnFits'
  <2>1. \A q \in cache_plan.displays : request'[q] = request[q]
    BY <1>1, <1>2
  <2>2. \A q \in Requests : request'[q].stage = "rendered" => request'[q] = request[q]
    BY <1>1
  <2> QED
    BY <1>0, <2>1, <2>2 DEF PagesInv, OwnFits
<1>9. AnswersFit'
  BY <1>0, <1>1, <1>2 DEF PagesInv, AnswersFit
<1> QED
  BY <1>4, <1>5, <1>6, <1>7, <1>8, <1>9 DEF PagesInv

\* Nothing has used the generation of an invalidation before.
LEMMA InvalidateKeeps == ASSUME PagesInv, Invalidate PROVE PagesInv'
<1>0. /\ UNCHANGED <<cache_plan, page_clock, shown, epoch, pages, request, changes, restored>>
      /\ pending /\ pending' = FALSE
  BY DEF Invalidate
<1>1. /\ promised' \in [own : Nat, topology : Nat, lasting : [0 .. MaxSeconds -> Nat]]
      /\ promised'.own = promised.own /\ promised'.lasting = promised.lasting
      /\ \/ /\ generation' = changes.topology /\ promised'.topology = shown
         \/ generation' = generation /\ promised'.topology = promised.topology
  <2>1. /\ promised \in [own : Nat, topology : Nat, lasting : [0 .. MaxSeconds -> Nat]]
        /\ shown \in Nat
    BY DEF PagesInv, PagesTyped
  <2>2. CASE generation' = changes.topology /\ promised' = [promised EXCEPT !.topology = shown]
    BY ONLY <2>1, <2>2
  <2>3. CASE UNCHANGED <<generation, promised>>
    BY <2>1, <2>3
  <2> QED
    BY <2>2, <2>3 DEF Invalidate
<1>2. /\ changes.topology \in Nat /\ NoGeneration \notin Nat /\ generation' \in Generations
      /\ promised.topology <= promised'.topology /\ promised'.topology <= shown
  BY <1>1, PlanFits DEF PagesInv, PagesTyped, PromisesPast, Generations
<1>3. PagesTyped'
  BY <1>0, <1>1, <1>2 DEF PagesInv, PagesTyped
<1>4. PromisesPast'
  <2>1. \A q \in Requests : request[q].topology <= promised'.topology
    BY <1>1, <1>2 DEF PagesInv, PromisesPast, PagesTyped, PageRequest
  <2> QED
    BY <1>0, <1>1, <1>2, <2>1 DEF PagesInv, PromisesPast
<1>5. RequestsFit' /\ RenderedFit' /\ StoredFit'
  BY <1>0, <1>1 DEF PagesInv, RequestsFit, RenderedFit, StoredFit
<1>6. GenerationsFit'
  <2>1. CASE generation' = generation /\ promised'.topology = promised.topology
    BY <1>0, <2>1 DEF PagesInv, GenerationsFit, Used
  <2>2. CASE generation' = changes.topology
    <3>1. ASSUME NEW g \in Generations, Used(g) PROVE Used(g)' /\ g # generation'
      BY <1>0, <1>2, <2>2, <3>1
      DEF PagesInv, PagesTyped, GenerationsFit, Used, Generations
    <3>2. \A q \in Requests : request[q].key[2] \in Generations /\ Used(request[q].key[2])
      BY DEF PagesInv, PagesTyped, GenerationsFit, PageRequest, PageKeys
    <3>3. \A k \in DOMAIN pages : k[2] \in Generations /\ Used(k[2])
      BY DEF PagesInv, PagesTyped, GenerationsFit, PageKeys
    <3>4. \A q \in Requests : Used(request[q].key[2])' /\ request[q].key[2] # generation'
      BY <1>0, <3>1, <3>2 DEF Used
    <3>5. \A k \in DOMAIN pages : Used(k[2])' /\ k[2] # generation'
      BY <3>1, <3>3 DEF Used
    <3>6. generation' # NoGeneration /\ generation' <= changes'.topology
      BY <1>0, <1>2, <2>2
    <3> QED
      BY <1>0, <3>4, <3>5, <3>6 DEF GenerationsFit, Used
  <2> QED
    BY <1>1, <2>1, <2>2
<1>7. EpochsFit' /\ (~ restored' => OwnFits') /\ AnswersFit'
  BY <1>0, <1>1 DEF PagesInv, EpochsFit, Past, OwnFits, AnswersFit
<1> QED
  BY <1>3, <1>4, <1>5, <1>6, <1>7 DEF PagesInv

\* Pages whose lifetime is over go.
LEMMA NextSecondKeeps == ASSUME PagesInv, NextSecond PROVE PagesInv'
<1>0. /\ UNCHANGED <<cache_plan, shown, epoch, generation, request, pending, changes, restored>>
      /\ page_clock' = page_clock + 1 /\ page_clock' \in 0 .. MaxSeconds
      /\ page_clock \in Nat /\ Lifetime \in Nat \ {0} /\ RequestTime \in Nat /\ MaxSeconds \in Nat
  BY PlanFits DEF NextSecond, PagesInv, PagesTyped
<1>1. /\ promised' \in [own : Nat, topology : Nat, lasting : [0 .. MaxSeconds -> Nat]]
      /\ promised'.own = promised.own /\ promised'.topology = promised.topology
      /\ \A s \in 0 .. MaxSeconds : s # page_clock + 1
                                      => promised'.lasting[s] = promised.lasting[s]
      /\ \A s \in 0 .. MaxSeconds : promised'.lasting[s] <= shown
  <2>1. /\ promised \in [own : Nat, topology : Nat, lasting : [0 .. MaxSeconds -> Nat]]
        /\ shown \in Nat /\ page_clock + 1 \in 0 .. MaxSeconds
        /\ promised' = [promised EXCEPT !.lasting[page_clock + 1] = shown]
        /\ \A s \in 0 .. MaxSeconds : promised.lasting[s] <= shown
    BY <1>0 DEF NextSecond, PagesInv, PagesTyped, PromisesPast
  <2>2. /\ promised' \in [own : Nat, topology : Nat, lasting : [0 .. MaxSeconds -> Nat]]
        /\ promised'.own = promised.own /\ promised'.topology = promised.topology
        /\ promised'.lasting = [promised.lasting EXCEPT ![page_clock + 1] = shown]
    BY ONLY <2>1
  <2> QED
    BY <2>1, <2>2
<1>2. /\ DOMAIN pages' = {k \in DOMAIN pages : page_clock + 1 < pages[k].expires}
      /\ \A k \in DOMAIN pages' : pages'[k] = pages[k]
  BY DEF NextSecond, Restrict
<1>3. PagesTyped'
  BY <1>0, <1>1, <1>2 DEF PagesInv, PagesTyped
<1>4. PromisesPast'
  BY <1>0, <1>1 DEF PagesInv, PromisesPast
<1>5. \A q \in Requests : /\ request[q] \in PageRequest /\ request[q].started \in Nat
                          /\ request[q].stage # "none" => request[q].started <= page_clock
  BY DEF PagesInv, PagesTyped, RequestsFit, PageRequest
<1>6. RequestsFit'
  <2>1. ASSUME NEW q \in Requests, request[q].stage # "none"
        PROVE  /\ request[q].started <= page_clock'
               /\ request[q].stage # "answered" => page_clock' <= request[q].started + RequestTime
               /\ request[q].lasting = LastingAt(request[q].started, promised'.lasting)
    <3>1. request[q].started <= page_clock'
      BY <1>0, <1>5, <2>1
    <3>2. request[q].stage # "answered" => page_clock' <= request[q].started + RequestTime
      <4>1. request[q].stage # "answered" => page_clock < request[q].started + RequestTime
        BY <2>1 DEF NextSecond
      <4> QED
        BY <1>0, <1>5, <4>1
    <3>3. LastingAt(request[q].started, promised'.lasting)
            = LastingAt(request[q].started, promised.lasting)
      <4>1. ~ (request[q].started < Lifetime + RequestTime)
              => /\ request[q].started - (Lifetime + RequestTime) \in 0 .. MaxSeconds
                 /\ request[q].started - (Lifetime + RequestTime) # page_clock + 1
        BY <1>0, <1>5, <2>1
      <4> QED
        BY <1>1, <4>1 DEF LastingAt
    <3> QED
      BY <2>1, <3>1, <3>2, <3>3 DEF PagesInv, RequestsFit
  <2> QED
    BY <1>0, <2>1 DEF PagesInv, RequestsFit
<1>7. RenderedFit'
  <2>1. ASSUME NEW q \in Requests, request[q].stage = "rendered", NEW s \in 0 .. MaxSeconds,
               s < request[q].started
        PROVE  promised'.lasting[s] <= request[q].version
    <3>1. s # page_clock + 1
      BY <1>0, <1>5, <2>1
    <3> QED
      BY <1>1, <2>1, <3>1 DEF PagesInv, RenderedFit
  <2> QED
    BY <1>0, <2>1 DEF PagesInv, RenderedFit
<1>8. StoredFit'
  <2>1. ASSUME NEW k \in DOMAIN pages'
        PROVE  /\ pages[k].version <= shown
               /\ page_clock' < pages[k].expires /\ pages[k].expires <= page_clock' + Lifetime
               /\ \A s \in 0 .. MaxSeconds : s + Lifetime + RequestTime < pages[k].expires
                                               => promised'.lasting[s] <= pages[k].version
    <3>1. /\ k \in DOMAIN pages /\ page_clock + 1 < pages[k].expires /\ pages[k].expires \in Nat
          /\ pages[k].expires <= page_clock + Lifetime
      BY <1>2 DEF PagesInv, StoredFit, PagesTyped
    <3>2. \A s \in 0 .. MaxSeconds : s + Lifetime + RequestTime < pages[k].expires
                                       => s # page_clock + 1
      BY <1>0, <3>1
    <3>3. page_clock' < pages[k].expires /\ pages[k].expires <= page_clock' + Lifetime
      BY <1>0, <3>1
    <3> QED
      BY <1>1, <3>1, <3>2, <3>3 DEF PagesInv, StoredFit
  <2> QED
    BY <1>0, <1>2, <2>1 DEF StoredFit
<1>9. GenerationsFit'
  BY <1>0, <1>1, <1>2 DEF PagesInv, GenerationsFit, Used
<1>10. EpochsFit' /\ (~ restored' => OwnFits') /\ AnswersFit'
  BY <1>0, <1>1, <1>2 DEF PagesInv, EpochsFit, Past, OwnFits, AnswersFit
<1> QED
  BY <1>3, <1>4, <1>6, <1>7, <1>8, <1>9, <1>10 DEF PagesInv

LEMMA PageCacheNextKeeps == ASSUME PagesInv, [PageCacheNext]_cacheVars PROVE PagesInv'
<1>1. ASSUME NEW r \in Requests, StartDisplay(r) \/ StartList(r) \/ StartPost(r)
      PROVE  PagesInv'
  BY <1>1, ComeKeeps DEF StartDisplay, StartList, StartPost
<1>2. ASSUME NEW r \in Requests, Lookup(r) \/ Render(r) \/ StorePage(r) PROVE PagesInv'
  BY <1>2, LookupKeeps, RenderKeeps, StorePageKeeps
<1>3. ASSUME NEW r \in Requests, CommitPost(r) \/ EndPost(r) \/ FailPost(r) \/ EndList(r)
      PROVE  PagesInv'
  BY <1>3, CommitPostKeeps, EndPostKeeps, FailPostKeeps, EndListKeeps
<1>4. CASE ChangeElsewhere
  BY <1>4, ChangeDataKeeps DEF ChangeElsewhere
<1>5. CASE CommitTopology
  BY <1>5, ChangeDataKeeps DEF CommitTopology
<1>6. CASE UNCHANGED cacheVars
  BY <1>6 DEF cacheVars, PagesInv, PagesTyped, PromisesPast, RequestsFit, RenderedFit, StoredFit,
              GenerationsFit, Used, EpochsFit, Past, OwnFits, AnswersFit
<1> QED
  BY <1>1, <1>2, <1>3, <1>4, <1>5, <1>6, InvalidateKeeps, NextSecondKeeps DEF PageCacheNext

LEMMA PagesInvariant == PageCacheSpec => []PagesInv
<1>1. PageCacheInit => PagesInv
  BY PagesInitHold
<1>2. PagesInv /\ [PageCacheNext]_cacheVars => PagesInv'
  BY PageCacheNextKeeps
<1> QED
  BY <1>1, <1>2, PTL DEF PageCacheSpec

-----------------------------------------------------------------------------
\* Own changes and announced topology changes are shown to whoever comes after them, for
\* every interleaving of requests of the session with the commits, and every failure of
\* the cache (net/infrastructure/page_cache.py: the session epoch and the generation).
THEOREM ReplacedPagesGo == PageCacheSpec => []InvalidatedPagesGo
<1>1. PagesInv => InvalidatedPagesGo
  BY DEF PagesInv, AnswersFit, InvalidatedPagesGo, OwnChangesAreShown, TopologyIsShown, Displayed
<1> QED
  BY <1>1, PagesInvariant, PTL

\* Every change is shown after the lifetime of a page and the time of a request; cached
\* pages never outlive the one nor show what does not exist
\* (net/infrastructure/page_cache.py: the timeout of a page; a hit does not renew it).
THEOREM ChangesComeThrough == PageCacheSpec => []PageTypeOK /\ []ChangesShowInTime
<1>1. PagesInv => ChangesShowInTime
  BY DEF PagesInv, AnswersFit, ChangesShowInTime, Displayed
<1>2. PagesInv => PageTypeOK
  <2> SUFFICES ASSUME PagesInv PROVE PageTypeOK
    OBVIOUS
  <2>1. \A k \in DOMAIN pages : /\ k[1] \in Epochs
                                /\ pages[k].version <= shown
                                /\ pages[k].expires \in page_clock + 1 .. page_clock + Lifetime
    BY PlanFits DEF PagesInv, PagesTyped, StoredFit, PageKeys
  <2>2. \A r \in Requests : request[r].stage \in PageStages
    BY DEF PagesInv, PagesTyped, PageRequest
  <2> QED
    BY <2>1, <2>2 DEF PagesInv, PagesTyped, PageTypeOK, PageStages, Epochs
<1> QED
  BY <1>1, <1>2, PagesInvariant, PTL

-----------------------------------------------------------------------------
(* Logs and analyses of a PC.                                              *)

LogRows == [pk : Nat \ {0}, content : LogContents, retained : BOOLEAN]
UploadSettings == [is_enabled : BOOLEAN, log_retention : Modes, analysis_retention : Modes]
UploadStates == {NoUpload} \cup [stage : {"loaded"}, content : LogContents,
                                 config : UploadSettings]
AnalysisTasks ==
  [status : {"none", "queued", "running", "success", "failed", "cancelled"}, attempt : Nat,
   log : Nat, retention : Modes, missing : BOOLEAN]
AnalysisThreads ==
  [stage : {"idle", "begun", "prepared", "ignored", "failing", "missing"}, day : {0, 1}]
AnalysisRows == [task : AnalysisIds, day : {0, 1}, retention : Modes,
                 alerts_processed : BOOLEAN]

PcTyped ==
  /\ pc_plan \in PcPlans /\ pc_config \in UploadSettings /\ pc_logs \in SUBSET LogRows
  /\ last_report_at \in Nat /\ selected_log \in 0 .. Len(created_logs)
  /\ upload \in [Uploaders -> UploadStates]
  /\ analysis_task \in [AnalysisIds -> AnalysisTasks]
  /\ analysis_thread \in [AnalysisIds -> [1 .. MaxPcAttempts -> AnalysisThreads]]
  /\ analyses \in SUBSET AnalysisRows /\ today \in {0, 1}
  /\ created_logs \in Seq(LogContents)

\* A row is the log that was created under its number; for every log ever created a
\* retained one of the same day is at least as late.
LogsFit ==
  /\ \A row \in pc_logs : /\ row.pk \in 1 .. Len(created_logs)
                          /\ row.content = created_logs[row.pk]
  /\ \A row, other \in pc_logs : row.content = other.content => row = other
  /\ \A pk \in 1 .. Len(created_logs) :
       \E row \in pc_logs : /\ row.retained /\ day_of(row.content) = day_of(created_logs[pk])
                            /\ StampOf[row.content] >= StampOf[created_logs[pk]]

\* Of the tasks only the latest can be active; an active task has its log.
TasksFit ==
  \A t \in AnalysisIds :
    /\ analysis_task[t].attempt <= pc_plan.attempts
    /\ analysis_task[t].log <= Len(created_logs)
    /\ analysis_task[t].status = "queued" => analysis_task[t].attempt < pc_plan.attempts
    /\ ~ analysis_task[t].missing
    /\ is_active(t) => \E row \in pc_logs : row.pk = analysis_task[t].log
    /\ is_active(t) => \A u \in AnalysisIds : u > t => analysis_task[u].status = "none"

\* A thread misses its log only after its task has ended.
AnalysisThreadsFit ==
  \A t \in AnalysisIds : \A a \in 1 .. MaxPcAttempts :
    /\ analysis_task[t].status = "none" => analysis_thread[t][a].stage = "idle"
    /\ analysis_thread[t][a].stage = "missing" => ~ is_active(t)

AnalysesFit ==
  /\ \A row \in analyses : analysis_task[row.task].status = "success"
  /\ \A row, other \in analyses : row.task = other.task => row = other

PcInv == PcTyped /\ LogsFit /\ TasksFit /\ AnalysisThreadsFit /\ AnalysesFit

LEMMA PcInvSuffices == PcInv => PcTypeOK /\ LogsAreKept
<1> SUFFICES ASSUME PcInv PROVE PcTypeOK /\ LogsAreKept
  OBVIOUS
<1>1. DOMAIN created_logs = 1 .. Len(created_logs) /\ Len(created_logs) \in Nat
  BY DEF PcInv, PcTyped
<1>2. \A t \in AnalysisIds : analysis_task[t] \in AnalysisTasks
  BY DEF PcInv, PcTyped
<1>3. pc_plan.attempts \in Nat
  BY PcLogsAssumption DEF PcInv, PcTyped, PcLogsAssumption
<1>4. PcTypeOK
  <2>1. \A row \in pc_logs : /\ row.pk \in DOMAIN created_logs
                             /\ row.content = created_logs[row.pk] /\ row.retained \in BOOLEAN
    BY <1>1 DEF PcInv, PcTyped, LogsFit, LogRows
  <2>2. \A t \in AnalysisIds :
          /\ analysis_task[t].status \in {"none", "queued", "running", "success", "failed",
                                          "cancelled"}
          /\ analysis_task[t].attempt \in 0 .. pc_plan.attempts
          /\ analysis_task[t].log \in 0 .. Len(created_logs)
    BY <1>1, <1>2, <1>3 DEF PcInv, TasksFit, AnalysisTasks
  <2>3. \A row \in analyses : /\ row.task \in AnalysisIds /\ row.alerts_processed \in BOOLEAN
                              /\ analysis_task[row.task].status = "success"
    BY DEF PcInv, PcTyped, AnalysesFit, AnalysisRows
  <2> QED
    BY <2>1, <2>2, <2>3 DEF PcTypeOK, PcInv, PcTyped, LogsFit, AnalysesFit
<1>5. AnalysedLogIsKept
  BY DEF PcInv, TasksFit, AnalysedLogIsKept
<1>6. NewestLogIsLatest
  <2>1. \A pk \in DOMAIN created_logs :
          \E row \in pc_logs :
            /\ row.retained /\ day_of(row.content) = day_of(created_logs[pk])
            /\ StampOf[row.content] >= StampOf[created_logs[pk]]
    BY <1>1 DEF PcInv, LogsFit
  <2>2. ASSUME NEW row \in latest_logs(pc_logs), NEW pk \in DOMAIN created_logs
        PROVE  StampOf[created_logs[pk]] <= StampOf[row.content]
    <3>1. PICK other \in pc_logs :
            other.retained /\ StampOf[other.content] >= StampOf[created_logs[pk]]
      BY <2>1
    <3>2. ~ (StampOf[other.content] > StampOf[row.content])
      BY <3>1 DEF latest_logs, Newer
    <3>3. row \in pc_logs
      BY DEF latest_logs
    <3>4. created_logs[pk] \in LogContents /\ row.content \in LogContents
          /\ other.content \in LogContents
      BY <1>1, <3>3 DEF PcInv, PcTyped, LogRows
    <3>5. StampOf \in [LogContents -> Nat]
      BY PcLogsAssumption DEF PcLogsAssumption
    <3> QED
      BY <3>1, <3>2, <3>4, <3>5
  <2> QED
    BY <2>1, <2>2 DEF NewestLogIsLatest
<1> QED
  BY <1>4, <1>5, <1>6 DEF LogsAreKept

LEMMA PcInitInv == PcInit => PcInv
<1> SUFFICES ASSUME PcInit PROVE PcInv
  OBVIOUS
<1>1. MaxPcAttempts \in Nat /\ pc_plan.attempts \in Nat
  BY PcLogsAssumption DEF PcInit, PcLogsAssumption
<1>2. created_logs = << >> /\ Len(created_logs) = 0 /\ created_logs \in Seq(LogContents)
  BY DEF PcInit
<1>3. NoAnalysisTask \in AnalysisTasks /\ NoAnalysisThread \in AnalysisThreads
      /\ NoUpload \in UploadStates /\ pc_config \in UploadSettings
  BY DEF PcInit, NoAnalysisTask, AnalysisTasks, NoAnalysisThread, AnalysisThreads, UploadStates,
     UploadSettings, Modes
<1>4. PcTyped
  BY <1>2, <1>3 DEF PcInit, PcTyped
<1>5. LogsFit
  BY <1>2 DEF PcInit, LogsFit
<1>6. \A t \in AnalysisIds : analysis_task[t] = NoAnalysisTask
  BY DEF PcInit
<1>7. TasksFit
  BY <1>1, <1>2, <1>6 DEF TasksFit, is_active, NoAnalysisTask
<1>8. AnalysisThreadsFit
  BY DEF PcInit, AnalysisThreadsFit, NoAnalysisThread
<1>9. AnalysesFit
  BY DEF PcInit, AnalysesFit
<1> QED
  BY <1>4, <1>5, <1>7, <1>8, <1>9 DEF PcInv

\* What changes no row, or only part of the memory.
LEMMA PcUnchanged ==
  ASSUME PcInv, UNCHANGED pcVars PROVE PcInv'
<1>1. /\ PcTyped' /\ LogsFit' /\ TasksFit' /\ AnalysisThreadsFit' /\ AnalysesFit'
  BY DEF pcVars, PcInv, PcTyped, LogsFit, TasksFit, AnalysisThreadsFit, AnalysesFit, is_active
<1> QED
  BY <1>1 DEF PcInv

\* Steps that change neither logs, tasks, threads nor results.
LEMMA QuietPcSteps ==
  ASSUME PcInv,
         \/ \E w \in Uploaders : \E c \in LogContents : LoadUploadConfig(w, c)
         \/ SelectLog \/ EditPcConfig \/ Midnight
  PROVE  PcInv' /\ analyses' = analyses
<1>1. UNCHANGED <<pc_plan, pc_logs, last_report_at, analysis_task, analysis_thread, analyses,
                  created_logs>>
  BY DEF LoadUploadConfig, SelectLog, EditPcConfig, Midnight
<1>2. upload' \in [Uploaders -> UploadStates]
  <2>1. ASSUME NEW w \in Uploaders, NEW c \in LogContents, LoadUploadConfig(w, c)
        PROVE  upload' \in [Uploaders -> UploadStates]
    <3>1. [stage |-> "loaded", content |-> c, config |-> pc_config] \in UploadStates
      BY DEF PcInv, PcTyped, UploadStates
    <3> QED
      BY <2>1, <3>1 DEF LoadUploadConfig, PcInv, PcTyped
  <2>2. CASE SelectLog \/ EditPcConfig \/ Midnight
    BY <2>2 DEF SelectLog, EditPcConfig, Midnight, PcInv, PcTyped
  <2> QED
    BY <2>1, <2>2
<1>3. selected_log' \in 0 .. Len(created_logs')
  <2>1. CASE SelectLog
    <3>1. PICK row \in pc_logs : selected_log' = row.pk
      BY <2>1 DEF SelectLog
    <3> QED
      BY <1>1, <3>1 DEF PcInv, PcTyped, LogsFit
  <2>2. ASSUME ~ SelectLog PROVE selected_log' \in 0 .. Len(created_logs')
    BY <2>2 DEF LoadUploadConfig, EditPcConfig, Midnight, PcInv, PcTyped
  <2> QED
    BY <2>1, <2>2
<1>4. pc_config' \in UploadSettings /\ today' \in {0, 1}
  BY DEF LoadUploadConfig, SelectLog, EditPcConfig, Midnight, PcInv, PcTyped, UploadSettings
<1>5. PcTyped'
  BY <1>1, <1>2, <1>3, <1>4 DEF PcInv, PcTyped
<1>6. LogsFit' /\ TasksFit' /\ AnalysisThreadsFit' /\ AnalysesFit'
  BY <1>1 DEF PcInv, LogsFit, TasksFit, AnalysisThreadsFit, AnalysesFit, is_active
<1> QED
  BY <1>1, <1>5, <1>6 DEF PcInv

\* The logs change; what counts of them and what is in use stays.
LEMMA LogsChange ==
  ASSUME PcInv, PcTyped', LogsFit', Len(created_logs) <= Len(created_logs'),
         UNCHANGED <<pc_plan, analysis_task, analysis_thread, analyses>>,
         \A row \in pc_logs : in_use(row) => \E same \in pc_logs' : same.pk = row.pk
  PROVE  PcInv'
<1>1. TasksFit'
  <2>1. \A t \in AnalysisIds :
          is_active(t) => \E row \in pc_logs : row.pk = analysis_task[t].log /\ in_use(row)
    BY DEF PcInv, TasksFit, in_use
  <2>2. \A t \in AnalysisIds :
          is_active(t) => \E row \in pc_logs' : row.pk = analysis_task[t].log
    BY <2>1
  <2>3. \A t \in AnalysisIds : analysis_task[t].log <= Len(created_logs')
    <3>1. \A t \in AnalysisIds : analysis_task[t].log \in Nat
      BY DEF PcInv, PcTyped, AnalysisTasks
    <3>2. Len(created_logs) \in Nat /\ Len(created_logs') \in Nat
      BY DEF PcInv, PcTyped
    <3> QED
      BY <3>1, <3>2 DEF PcInv, TasksFit
  <2> QED
    BY <2>2, <2>3 DEF PcInv, TasksFit, is_active
<1>2. AnalysisThreadsFit' /\ AnalysesFit'
  BY DEF PcInv, AnalysisThreadsFit, AnalysesFit, is_active
<1> QED
  BY <1>1, <1>2 DEF PcInv

LEMMA CleanupRetainedLogsKeeps ==
  ASSUME PcInv, CleanupRetainedLogs PROVE PcInv' /\ analyses' = analyses
<1>1. /\ pc_logs' = {row \in pc_logs : row.retained \/ in_use(row)}
      /\ UNCHANGED <<pc_plan, pc_config, last_report_at, upload, selected_log, analysis_task,
                     analysis_thread, analyses, today, created_logs>>
  BY DEF CleanupRetainedLogs, cleanup_logs_for_computer
<1>2. PcTyped'
  BY <1>1 DEF PcInv, PcTyped
<1>3. LogsFit'
  BY <1>1 DEF PcInv, LogsFit
<1>4. Len(created_logs) <= Len(created_logs')
  BY <1>1 DEF PcInv, PcTyped
<1> QED
  BY <1>1, <1>2, <1>3, <1>4, LogsChange

\* A log that is stored replaces the others of its day at most, and is later than these.
LEMMA PersistUploadKeeps ==
  ASSUME PcInv, NEW w \in Uploaders, PersistUpload(w)
  PROVE  PcInv' /\ analyses' = analyses
<1> DEFINE c == upload[w].content
           latest == upload[w].config.log_retention = "daily_latest"
           n == Len(created_logs)
           new == [pk |-> n + 1, content |-> c, retained |-> TRUE]
           others == {IF latest /\ row \in daily(c) THEN [row EXCEPT !.retained = FALSE]
                      ELSE row : row \in pc_logs}
<1>1. /\ upload[w].stage = "loaded" /\ upload' = [upload EXCEPT ![w] = NoUpload]
      /\ UNCHANGED <<pc_plan, pc_config, selected_log, analysis_task, analysis_thread,
                     analyses, today>>
  BY DEF PersistUpload
<1>2. upload[w] \in UploadStates /\ upload[w] # NoUpload
  BY <1>1 DEF PcInv, PcTyped, NoUpload
<1>3. c \in LogContents
  BY <1>2 DEF UploadStates
<1>4. StampOf \in [LogContents -> Nat] /\ StampOf[c] \in Nat
  BY <1>3, PcLogsAssumption DEF PcLogsAssumption
<1>5. last_report_at' \in Nat
  BY <1>4 DEF PersistUpload, PcInv, PcTyped
<1>6. upload' \in [Uploaders -> UploadStates]
  BY <1>1 DEF PcInv, PcTyped, UploadStates
<1>7. n \in Nat /\ created_logs \in Seq(LogContents)
  BY DEF PcInv, PcTyped
<1>8. CASE UNCHANGED <<pc_logs, created_logs>>
  <2>1. PcTyped'
    BY <1>1, <1>5, <1>6, <1>8 DEF PcInv, PcTyped
  <2>2. LogsFit'
    BY <1>8 DEF PcInv, LogsFit
  <2> QED
    BY <1>1, <1>7, <1>8, <2>1, <2>2, LogsChange
<1>9. ASSUME ~ (UNCHANGED <<pc_logs, created_logs>>)
      PROVE  PcInv'
  <2>1. /\ \A row \in pc_logs : row.content # c
        /\ latest => ~ has_newer(daily(c), c)
        /\ created_logs' = Append(created_logs, c)
        /\ pc_logs' = IF latest THEN cleanup_logs_for_computer(others \cup {new})
                      ELSE others \cup {new}
    BY <1>9 DEF PersistUpload
  <2>2. /\ Len(created_logs') = n + 1 /\ created_logs' \in Seq(LogContents)
        /\ created_logs'[n + 1] = c
        /\ \A pk \in 1 .. n : created_logs'[pk] = created_logs[pk]
    BY <1>3, <1>7, <2>1
  <2>3. \A row \in pc_logs : row \in LogRows /\ row.pk \in 1 .. n
    BY DEF PcInv, PcTyped, LogsFit
  <2>4. ASSUME NEW row \in pc_logs', row # new
        PROVE  \E old \in pc_logs : /\ row.pk = old.pk /\ row.content = old.content
                                    /\ row = old \/ row = [old EXCEPT !.retained = FALSE]
    <3>1. row \in others
      BY <2>1, <2>4 DEF cleanup_logs_for_computer
    <3>2. PICK old \in pc_logs :
            row = IF latest /\ old \in daily(c) THEN [old EXCEPT !.retained = FALSE] ELSE old
      BY <3>1
    <3> QED
      BY <2>3, <3>2 DEF LogRows
  <2>5. new \in pc_logs'
    BY <2>1 DEF cleanup_logs_for_computer
  <2>6. ASSUME NEW row \in pc_logs, row.retained, latest => row \notin daily(c)
        PROVE  row \in pc_logs'
    <3>1. row \in others
      BY <2>6
    <3> QED
      BY <2>1, <2>6, <3>1 DEF cleanup_logs_for_computer
  <2>7. ASSUME NEW row \in pc_logs, in_use(row)
        PROVE  \E same \in pc_logs' : same.pk = row.pk
    <3> DEFINE same == IF latest /\ row \in daily(c) THEN [row EXCEPT !.retained = FALSE]
                       ELSE row
    <3>1. same \in others /\ same.pk = row.pk
      BY <2>3 DEF LogRows
    <3>2. in_use(same)
      BY <2>7, <3>1 DEF in_use
    <3>3. same \in pc_logs'
      BY <2>1, <3>1, <3>2 DEF cleanup_logs_for_computer
    <3> QED
      BY <3>1, <3>3
  <2>8. new \in LogRows
    BY <1>3, <1>7 DEF LogRows
  <2>9. pc_logs' \in SUBSET LogRows
    <3>1. ASSUME NEW row \in pc_logs' PROVE row \in LogRows
      <4>1. CASE row = new
        BY <2>8, <4>1
      <4>2. CASE row # new
        <5>1. PICK old \in pc_logs : row = old \/ row = [old EXCEPT !.retained = FALSE]
          BY <2>4, <4>2
        <5> QED
          BY <2>3, <5>1 DEF LogRows
      <4> QED
        BY <4>1, <4>2
    <3> QED
      BY <3>1
  <2>10. selected_log' \in 0 .. Len(created_logs')
    BY <1>1, <1>7, <2>2 DEF PcInv, PcTyped
  <2>11. PcTyped'
    BY <1>1, <1>5, <1>6, <2>2, <2>9, <2>10 DEF PcInv, PcTyped
  <2>12. LogsFit'
    <3>1. ASSUME NEW row \in pc_logs'
          PROVE  row.pk \in 1 .. Len(created_logs') /\ row.content = created_logs'[row.pk]
      <4>1. CASE row = new
        BY <1>7, <2>2, <4>1
      <4>2. CASE row # new
        <5>1. PICK old \in pc_logs : row.pk = old.pk /\ row.content = old.content
          BY <2>4, <4>2
        <5>2. old.content = created_logs[old.pk]
          BY DEF PcInv, LogsFit
        <5> QED
          BY <1>7, <2>2, <2>3, <5>1, <5>2
      <4> QED
        BY <4>1, <4>2
    <3>2. ASSUME NEW row \in pc_logs', NEW other \in pc_logs', row.content = other.content
          PROVE  row = other
      <4>1. \A r \in pc_logs' : r # new => r.content # c
        BY <2>1, <2>4
      <4>2. CASE row = new \/ other = new
        <5>1. row.content = c
          BY <3>2, <4>2
        <5> QED
          BY <3>2, <4>1, <5>1
      <4>3. CASE row # new /\ other # new
        <5>1. \E old \in pc_logs :
                /\ row.content = old.content
                /\ row = IF latest /\ old \in daily(c) THEN [old EXCEPT !.retained = FALSE]
                         ELSE old
          <6>1. row \in others
            BY <2>1, <4>3 DEF cleanup_logs_for_computer
          <6> QED
            BY <2>3, <6>1 DEF LogRows
        <5>2. \E old \in pc_logs :
                /\ other.content = old.content
                /\ other = IF latest /\ old \in daily(c) THEN [old EXCEPT !.retained = FALSE]
                           ELSE old
          <6>1. other \in others
            BY <2>1, <4>3 DEF cleanup_logs_for_computer
          <6> QED
            BY <2>3, <6>1 DEF LogRows
        <5>3. \A a, b \in pc_logs : a.content = b.content => a = b
          BY DEF PcInv, LogsFit
        <5> QED
          BY <3>2, <5>1, <5>2, <5>3
      <4> QED
        BY <4>2, <4>3
    <3>3. ASSUME NEW pk \in 1 .. Len(created_logs')
          PROVE  \E row \in pc_logs' :
                   /\ row.retained /\ day_of(row.content) = day_of(created_logs'[pk])
                   /\ StampOf[row.content] >= StampOf[created_logs'[pk]]
      <4>1. CASE pk = n + 1
        BY <1>4, <2>2, <2>5, <4>1
      <4>2. CASE pk # n + 1
        <5>1. pk \in 1 .. n /\ created_logs'[pk] = created_logs[pk]
          BY <1>7, <2>2, <4>2
        <5>2. PICK row \in pc_logs :
                /\ row.retained /\ day_of(row.content) = day_of(created_logs[pk])
                /\ StampOf[row.content] >= StampOf[created_logs[pk]]
          BY <5>1 DEF PcInv, LogsFit
        <5>3. CASE latest /\ row \in daily(c)
          <6>1. ~ (StampOf[row.content] >= StampOf[c])
            BY <2>1, <5>3 DEF has_newer
          <6>2. day_of(row.content) = day_of(c)
            BY <5>3 DEF daily
          <6>3. StampOf[row.content] \in Nat /\ StampOf[created_logs[pk]] \in Nat
            BY <1>4, <1>7, <2>3, <5>1 DEF LogRows
          <6>4. StampOf[c] >= StampOf[created_logs[pk]]
            BY <1>4, <5>2, <6>1, <6>3
          <6> QED
            BY <2>5, <5>1, <5>2, <6>2, <6>4
        <5>4. CASE ~ (latest /\ row \in daily(c))
          BY <2>6, <5>1, <5>2, <5>4
        <5> QED
          BY <5>3, <5>4
      <4> QED
        BY <4>1, <4>2
    <3> QED
      BY <3>1, <3>2, <3>3 DEF LogsFit
  <2>13. Len(created_logs) <= Len(created_logs')
    BY <1>7, <2>2
  <2> QED
    BY <1>1, <2>7, <2>11, <2>12, <2>13, LogsChange
<1> QED
  BY <1>1, <1>8, <1>9

-----------------------------------------------------------------------------
(* Analyses.                                                               *)

\* A task with an attempt left exists only where a plan allows attempts.
LEMMA PlannedAttempts ==
  ASSUME PcInv, NEW t \in AnalysisIds, t <= pc_plan.analyses
  PROVE  pc_plan.attempts \in Nat \ {0}
<1>1. pc_plan \in [uploads : Nat, analyses : 0 .. MaxAnalyses,
                   attempts : 0 .. MaxPcAttempts, edits : Nat]
  BY PcLogsAssumption DEF PcInv, PcTyped, PcLogsAssumption
<1>2. pc_plan.analyses > 0
  BY <1>1, PcLogsAssumption DEF AnalysisIds, PcLogsAssumption
<1>3. pc_plan \in PcPlans
  BY DEF PcInv, PcTyped
<1>4. pc_plan.attempts > 0
  BY <1>2, <1>3, PcLogsAssumption DEF PcLogsAssumption
<1> QED
  BY <1>1, <1>4

\* The tasks change and the logs do not.
LEMMA TasksChange ==
  ASSUME PcInv,
         UNCHANGED <<pc_plan, pc_config, pc_logs, last_report_at, upload, today, created_logs>>,
         selected_log' \in 0 .. Len(created_logs),
         analysis_task' \in [AnalysisIds -> AnalysisTasks],
         analysis_thread' \in [AnalysisIds -> [1 .. MaxPcAttempts -> AnalysisThreads]],
         analyses' \in SUBSET AnalysisRows,
         TasksFit', AnalysisThreadsFit', AnalysesFit'
  PROVE  PcInv'
<1>1. PcTyped'
  BY DEF PcInv, PcTyped
<1>2. LogsFit'
  BY DEF PcInv, LogsFit
<1> QED
  BY <1>1, <1>2 DEF PcInv

LEMMA EnqueueAnalysisKeeps ==
  ASSUME PcInv, NEW t \in AnalysisIds, EnqueueAnalysis(t)
  PROVE  PcInv' /\ analyses' = analyses
<1>1. /\ selected_log' = 0 /\ t <= pc_plan.analyses
      /\ \A u \in AnalysisIds : analysis_task[u].status = "none" <=> u >= t
      /\ UNCHANGED <<pc_plan, pc_config, pc_logs, last_report_at, upload, analysis_thread,
                     analyses, today, created_logs>>
  BY DEF EnqueueAnalysis
<1>2. selected_log' \in 0 .. Len(created_logs)
  BY <1>1 DEF PcInv, PcTyped
<1>3. CASE UNCHANGED analysis_task
  <2>1. TasksFit' /\ AnalysisThreadsFit' /\ AnalysesFit'
    BY <1>1, <1>3 DEF PcInv, TasksFit, AnalysisThreadsFit, AnalysesFit, is_active
  <2> QED
    BY <1>1, <1>2, <1>3, <2>1, TasksChange DEF PcInv, PcTyped
<1>4. ASSUME ~ (UNCHANGED analysis_task) PROVE PcInv'
  <2>1. /\ \A u \in AnalysisIds : ~ is_active(u)
        /\ \E row \in latest_logs(pc_logs) :
             analysis_task' = [analysis_task EXCEPT ![t] =
                                [status |-> "queued", attempt |-> 0, log |-> row.pk,
                                 retention |-> pc_config.analysis_retention,
                                 missing |-> FALSE]]
    BY <1>4 DEF EnqueueAnalysis
  <2>2. PICK row \in latest_logs(pc_logs) :
          analysis_task' = [analysis_task EXCEPT ![t] =
                             [status |-> "queued", attempt |-> 0, log |-> row.pk,
                              retention |-> pc_config.analysis_retention, missing |-> FALSE]]
    BY <2>1
  <2>3. row \in pc_logs /\ row.pk \in 1 .. Len(created_logs) /\ row.pk \in Nat
    BY DEF PcInv, PcTyped, LogsFit, latest_logs
  <2> DEFINE task == [status |-> "queued", attempt |-> 0, log |-> row.pk,
                      retention |-> pc_config.analysis_retention, missing |-> FALSE]
  <2>4. task \in AnalysisTasks
    BY <2>3 DEF PcInv, PcTyped, AnalysisTasks, UploadSettings
  <2>5. /\ analysis_task' \in [AnalysisIds -> AnalysisTasks]
        /\ analysis_task'[t] = task
        /\ \A u \in AnalysisIds : u # t => analysis_task'[u] = analysis_task[u]
    BY <2>2, <2>4 DEF PcInv, PcTyped
  <2>6. task.status = "queued" /\ task.attempt = 0 /\ task.log = row.pk /\ task.missing = FALSE
    OBVIOUS
  <2>7. pc_plan.attempts \in Nat \ {0} /\ Len(created_logs) \in Nat
    BY <1>1, PlannedAttempts DEF PcInv, PcTyped
  <2> HIDE DEF task
  <2>8. TasksFit'
    <3>1. \A u \in AnalysisIds : u # t => ~ is_active(u)'
      BY <2>1, <2>5 DEF is_active
    <3>2. \A u \in AnalysisIds : u > t => analysis_task'[u].status = "none"
      BY <1>1, <2>5 DEF AnalysisIds
    <3> QED
      BY <1>1, <2>3, <2>5, <2>6, <2>7, <3>1, <3>2 DEF PcInv, TasksFit, is_active
  <2>9. analysis_task[t].status = "none"
    BY <1>1 DEF AnalysisIds
  <2>10. AnalysisThreadsFit'
    BY <1>1, <2>5, <2>6, <2>9 DEF PcInv, AnalysisThreadsFit, is_active
  <2>11. AnalysesFit'
    <3>1. \A r \in analyses : r.task \in AnalysisIds /\ r.task # t
      BY <2>9 DEF PcInv, PcTyped, AnalysesFit, AnalysisRows
    <3> QED
      BY <1>1, <2>5, <3>1 DEF PcInv, AnalysesFit
  <2> QED
    BY <1>1, <1>2, <2>5, <2>8, <2>10, <2>11, TasksChange DEF PcInv, PcTyped
<1> QED
  BY <1>1, <1>3, <1>4

LEMMA BeginAnalysisKeeps ==
  ASSUME PcInv, NEW t \in AnalysisIds, BeginAnalysis(t)
  PROVE  PcInv' /\ analyses' = analyses
<1> DEFINE task == [analysis_task[t] EXCEPT !.status = "running",
                                            !.attempt = analysis_task[t].attempt + 1]
           next == analysis_task[t].attempt + 1
<1>1. /\ analysis_task[t].status = "queued"
      /\ analysis_task' = [analysis_task EXCEPT ![t].status = "running", ![t].attempt = @ + 1]
      /\ analysis_thread' = [analysis_thread EXCEPT ![t][next].stage = "begun"]
      /\ UNCHANGED <<pc_plan, pc_config, pc_logs, last_report_at, upload, selected_log, analyses,
                     today, created_logs>>
  BY DEF BeginAnalysis
<1>2. /\ analysis_task \in [AnalysisIds -> AnalysisTasks]
      /\ analysis_task[t] \in AnalysisTasks
  BY DEF PcInv, PcTyped
<1>3. /\ task.status = "running" /\ task.attempt = next /\ task.log = analysis_task[t].log
      /\ task.missing = analysis_task[t].missing /\ task \in AnalysisTasks
  <2>1. analysis_task[t].attempt + 1 \in Nat
    BY <1>2 DEF AnalysisTasks
  <2> QED
    BY ONLY <1>2, <2>1, Zenon DEF AnalysisTasks
<1>4. analysis_task' = [analysis_task EXCEPT ![t] = task]
  BY <1>1, <1>2 DEF AnalysisTasks
<1>5. /\ analysis_task' \in [AnalysisIds -> AnalysisTasks] /\ analysis_task'[t] = task
      /\ \A u \in AnalysisIds : u # t => analysis_task'[u] = analysis_task[u]
  BY <1>2, <1>3, <1>4
<1>6. /\ analysis_thread' \in [AnalysisIds -> [1 .. MaxPcAttempts -> AnalysisThreads]]
      /\ \A u \in AnalysisIds : u # t => analysis_thread'[u] = analysis_thread[u]
      /\ \A a \in 1 .. MaxPcAttempts :
           analysis_thread'[t][a].stage \in {"begun", analysis_thread[t][a].stage}
  <2>1. analysis_thread \in [AnalysisIds -> [1 .. MaxPcAttempts -> AnalysisThreads]]
    BY DEF PcInv, PcTyped
  <2>2. ASSUME NEW thread \in AnalysisThreads
        PROVE  /\ [thread EXCEPT !.stage = "begun"] \in AnalysisThreads
               /\ [thread EXCEPT !.stage = "begun"].stage = "begun"
    BY DEF AnalysisThreads
  <2>3. analysis_thread' =
          [analysis_thread EXCEPT ![t] =
             [analysis_thread[t] EXCEPT ![next] =
                [analysis_thread[t][next] EXCEPT !.stage = "begun"]]]
    BY <1>1
  <2> DEFINE attempts == [analysis_thread[t] EXCEPT ![next] =
                            [analysis_thread[t][next] EXCEPT !.stage = "begun"]]
  <2>4. analysis_thread[t] \in [1 .. MaxPcAttempts -> AnalysisThreads]
    BY <2>1
  <2>5. /\ attempts \in [1 .. MaxPcAttempts -> AnalysisThreads]
        /\ \A a \in 1 .. MaxPcAttempts :
             attempts[a].stage \in {"begun", analysis_thread[t][a].stage}
    <3> HIDE DEF next
    <3> QED
      BY <2>2, <2>4
  <2>6. analysis_thread' = [analysis_thread EXCEPT ![t] = attempts]
    BY <2>3
  <2> HIDE DEF attempts
  <2> QED
    BY <2>1, <2>5, <2>6
<1> HIDE DEF task, next
<1>7. TasksFit'
  <2>1. next \in Nat /\ next <= pc_plan.attempts
    <3>1. pc_plan.attempts \in Nat
      BY PcLogsAssumption DEF PcInv, PcTyped, PcLogsAssumption
    <3> QED
      BY <1>1, <1>2, <3>1 DEF PcInv, TasksFit, AnalysisTasks, next
  <2>2. \A u \in AnalysisIds : is_active(u)' <=> is_active(u)
    BY <1>1, <1>3, <1>5 DEF is_active
  <2>3. \A u \in AnalysisIds : analysis_task'[u].status = "none"
                                 <=> analysis_task[u].status = "none"
    BY <1>1, <1>3, <1>5
  <2>4. \A u \in AnalysisIds : /\ analysis_task'[u].log = analysis_task[u].log
                               /\ analysis_task'[u].missing = analysis_task[u].missing
    BY <1>3, <1>5
  <2>5. \A u \in AnalysisIds :
          /\ analysis_task'[u].attempt <= pc_plan.attempts
          /\ analysis_task'[u].status = "queued" => analysis_task'[u].attempt < pc_plan.attempts
    BY <1>3, <1>5, <2>1 DEF PcInv, TasksFit
  <2>6. \A u \in AnalysisIds : ~ analysis_task'[u].missing
    BY <2>4, Zenon DEF PcInv, TasksFit
  <2>7. \A u \in AnalysisIds :
          is_active(u)' => \E row \in pc_logs' : row.pk = analysis_task'[u].log
    BY <1>1, <2>2, <2>4 DEF PcInv, TasksFit
  <2>8. \A u \in AnalysisIds :
          is_active(u)' => \A v \in AnalysisIds : v > u => analysis_task'[v].status = "none"
    BY <2>2, <2>3 DEF PcInv, TasksFit
  <2>9. \A u \in AnalysisIds : analysis_task'[u].log <= Len(created_logs)'
    BY <1>1, <2>4 DEF PcInv, TasksFit
  <2> QED
    BY <1>1, <2>5, <2>6, <2>7, <2>8, <2>9 DEF TasksFit
<1>8. AnalysisThreadsFit'
  <2>1. ASSUME NEW a \in 1 .. MaxPcAttempts PROVE analysis_thread'[t][a].stage # "missing"
    BY <1>1, <1>6 DEF PcInv, AnalysisThreadsFit, is_active
  <2>2. ASSUME NEW u \in AnalysisIds, u # t, NEW a \in 1 .. MaxPcAttempts
        PROVE  /\ analysis_task'[u].status = "none" => analysis_thread'[u][a].stage = "idle"
               /\ analysis_thread'[u][a].stage = "missing" => ~ is_active(u)'
    BY <1>5, <1>6, <2>2 DEF PcInv, AnalysisThreadsFit, is_active
  <2>3. analysis_task'[t].status # "none"
    BY <1>3, <1>5
  <2> QED
    BY <2>1, <2>2, <2>3 DEF AnalysisThreadsFit
<1>9. AnalysesFit'
  <2>1. \A r \in analyses : r.task \in AnalysisIds /\ r.task # t
    BY <1>1 DEF PcInv, PcTyped, AnalysesFit, AnalysisRows
  <2> QED
    BY <1>1, <1>5, <2>1 DEF PcInv, AnalysesFit
<1> QED
  BY <1>1, <1>5, <1>6, <1>7, <1>8, <1>9, TasksChange DEF PcInv, PcTyped

LEMMA TaskEndsKeeps ==
  ASSUME PcInv, NEW t \in AnalysisIds, RecoverAnalysis(t) \/ CancelAnalysis(t)
  PROVE  PcInv' /\ analyses' = analyses
<1>1. PICK st \in {"queued", "failed", "cancelled"} :
        /\ analysis_task' = [analysis_task EXCEPT ![t].status = st]
        /\ st = "queued" => analysis_task[t].attempt < pc_plan.attempts
  BY DEF RecoverAnalysis, CancelAnalysis
<1>2. /\ is_active(t)
      /\ UNCHANGED <<pc_plan, pc_config, pc_logs, last_report_at, upload, selected_log,
                     analysis_thread, analyses, today, created_logs>>
  BY DEF RecoverAnalysis, CancelAnalysis, is_active
<1>3. /\ analysis_task \in [AnalysisIds -> AnalysisTasks]
      /\ analysis_task[t] \in AnalysisTasks
  BY DEF PcInv, PcTyped
<1> DEFINE task == [analysis_task[t] EXCEPT !.status = st]
<1>4. /\ task.status = st /\ task.attempt = analysis_task[t].attempt
      /\ task.log = analysis_task[t].log /\ task.missing = analysis_task[t].missing
      /\ task \in AnalysisTasks
  BY ONLY <1>3, Zenon DEF AnalysisTasks
<1>5. analysis_task' = [analysis_task EXCEPT ![t] = task]
  BY <1>1
<1> HIDE DEF task
<1>6. /\ analysis_task' \in [AnalysisIds -> AnalysisTasks]
      /\ \A u \in AnalysisIds : /\ analysis_task'[u].log = analysis_task[u].log
                                /\ analysis_task'[u].attempt = analysis_task[u].attempt
                                /\ u # t => analysis_task'[u] = analysis_task[u]
      /\ analysis_task'[t] = task
  BY <1>3, <1>4, <1>5
<1>7. \A u \in AnalysisIds : /\ is_active(u)' => is_active(u)
                             /\ analysis_task'[u].status = "none"
                                  <=> analysis_task[u].status = "none"
  BY <1>2, <1>4, <1>6 DEF is_active
<1>8. TasksFit'
  <2>1. \A u \in AnalysisIds : ~ analysis_task'[u].missing
    <3>1. \A u \in AnalysisIds : analysis_task'[u].missing = analysis_task[u].missing
      BY <1>4, <1>6
    <3> QED
      BY <3>1, Zenon DEF PcInv, TasksFit
  <2>2. \A u \in AnalysisIds :
          is_active(u)' => \E row \in pc_logs' : row.pk = analysis_task'[u].log
    BY <1>2, <1>6, <1>7 DEF PcInv, TasksFit
  <2>3. \A u \in AnalysisIds :
          is_active(u)' => \A v \in AnalysisIds : v > u => analysis_task'[v].status = "none"
    BY <1>7 DEF PcInv, TasksFit
  <2>4. \A u \in AnalysisIds :
          /\ analysis_task'[u].attempt <= pc_plan.attempts
          /\ analysis_task'[u].log <= Len(created_logs)'
    BY <1>2, <1>6 DEF PcInv, TasksFit
  <2>5. \A u \in AnalysisIds :
          analysis_task'[u].status = "queued" => analysis_task'[u].attempt < pc_plan.attempts
    BY <1>1, <1>4, <1>6 DEF PcInv, TasksFit
  <2> QED
    BY <1>2, <2>1, <2>2, <2>3, <2>4, <2>5 DEF TasksFit
<1>9. AnalysisThreadsFit'
  <2>1. \A u \in AnalysisIds : \A a \in 1 .. MaxPcAttempts :
          /\ analysis_task'[u].status = "none" => analysis_thread'[u][a].stage = "idle"
          /\ analysis_thread'[u][a].stage = "missing" => ~ is_active(u)'
    BY <1>2, <1>7 DEF PcInv, AnalysisThreadsFit
  <2> QED
    BY <2>1 DEF AnalysisThreadsFit
<1>10. AnalysesFit'
  <2>1. \A r \in analyses : r.task \in AnalysisIds /\ r.task # t
    BY <1>2 DEF PcInv, PcTyped, AnalysesFit, AnalysisRows, is_active
  <2> QED
    BY <1>2, <1>6, <2>1 DEF PcInv, AnalysesFit
<1> QED
  BY <1>2, <1>6, <1>8, <1>9, <1>10, TasksChange DEF PcInv, PcTyped

\* The log of a task that may still publish is there.
LEMMA PrepareLogKeeps ==
  ASSUME PcInv, NEW t \in AnalysisIds, NEW a \in 1 .. MaxPcAttempts, PrepareLog(t, a)
  PROVE  PcInv' /\ analyses' = analyses
<1>1. /\ analysis_thread[t][a].stage = "begun"
      /\ UNCHANGED <<pc_plan, pc_config, pc_logs, last_report_at, upload, selected_log,
                     analysis_task, analyses, today, created_logs>>
  BY DEF PrepareLog
<1>2. PICK stage \in {"prepared", "ignored", "failing", "missing"} :
        /\ analysis_thread' =
             [analysis_thread EXCEPT ![t][a] = [stage |-> stage, day |-> today]]
        /\ stage = "missing" => ~ \E row \in pc_logs : row.pk = analysis_task[t].log
  BY DEF PrepareLog
<1> DEFINE thread == [stage |-> stage, day |-> today]
<1>3. thread \in AnalysisThreads /\ thread.stage = stage
  BY DEF PcInv, PcTyped, AnalysisThreads
<1>4. analysis_thread' = [analysis_thread EXCEPT ![t][a] = thread]
  BY <1>2
<1> HIDE DEF thread
<1>5. /\ analysis_thread' \in [AnalysisIds -> [1 .. MaxPcAttempts -> AnalysisThreads]]
      /\ analysis_thread'[t][a].stage = stage
      /\ \A u \in AnalysisIds : \A b \in 1 .. MaxPcAttempts :
           <<u, b>> # <<t, a>> => analysis_thread'[u][b] = analysis_thread[u][b]
  <2>1. analysis_thread \in [AnalysisIds -> [1 .. MaxPcAttempts -> AnalysisThreads]]
    BY DEF PcInv, PcTyped
  <2> QED
    BY ONLY <1>3, <1>4, <2>1, t \in AnalysisIds, a \in 1 .. MaxPcAttempts
<1>6. TasksFit' /\ AnalysesFit'
  BY <1>1 DEF PcInv, TasksFit, AnalysesFit, is_active
<1>7. stage = "missing" => ~ is_active(t)
  BY <1>2 DEF PcInv, TasksFit
<1>8. analysis_task[t].status # "none"
  BY <1>1 DEF PcInv, AnalysisThreadsFit
<1>9. AnalysisThreadsFit'
  <2>1. \A u \in AnalysisIds : is_active(u)' = is_active(u)
    BY <1>1 DEF is_active
  <2> QED
    BY <1>1, <1>5, <1>7, <1>8, <2>1 DEF PcInv, AnalysisThreadsFit
<1> QED
  BY <1>1, <1>5, <1>6, <1>9, TasksChange DEF PcInv, PcTyped

\* Rows of ended tasks are of earlier tasks than the one that is active.
LEMMA EarlierAnalyses ==
  ASSUME PcInv, NEW t \in AnalysisIds, is_active(t), NEW row \in analyses
  PROVE  t > row.task
<1>1. row.task \in AnalysisIds /\ analysis_task[row.task].status = "success"
  BY DEF PcInv, PcTyped, AnalysesFit, AnalysisRows
<1>2. row.task # t /\ ~ (row.task > t)
  BY <1>1 DEF PcInv, TasksFit, is_active
<1> QED
  BY <1>1, <1>2, PcLogsAssumption DEF AnalysisIds, PcLogsAssumption

LEMMA PublishAnalysisKeeps ==
  ASSUME PcInv, NEW t \in AnalysisIds, NEW a \in 1 .. MaxPcAttempts, PublishAnalysis(t, a)
  PROVE  PcInv' /\ LastAnalysisStays
<1> DEFINE thread == analysis_thread[t][a]
           new == [task |-> t, day |-> thread.day, retention |-> analysis_task[t].retention,
                   alerts_processed |-> FALSE]
           remains(r) == analysis_task[t].retention = "all" \/ Keep(r, r.day = thread.day)
           status == IF thread.stage \in {"failing", "missing"} THEN "failed" ELSE "success"
           missing == thread.stage = "missing"
<1>1. /\ analysis_thread' = [analysis_thread EXCEPT ![t][a] = NoAnalysisThread]
      /\ UNCHANGED <<pc_plan, pc_config, pc_logs, last_report_at, upload, selected_log, today,
                     created_logs>>
  BY DEF PublishAnalysis
<1>2. NoAnalysisThread \in AnalysisThreads /\ NoAnalysisThread.stage = "idle"
  BY DEF NoAnalysisThread, AnalysisThreads
<1>3. /\ analysis_thread' \in [AnalysisIds -> [1 .. MaxPcAttempts -> AnalysisThreads]]
      /\ \A u \in AnalysisIds : \A b \in 1 .. MaxPcAttempts :
           analysis_thread'[u][b].stage \in {"idle", analysis_thread[u][b].stage}
  <2>1. /\ analysis_thread' \in [AnalysisIds -> [1 .. MaxPcAttempts -> AnalysisThreads]]
        /\ analysis_thread'[t][a] = NoAnalysisThread
        /\ \A u \in AnalysisIds : \A b \in 1 .. MaxPcAttempts :
             <<u, b>> # <<t, a>> => analysis_thread'[u][b] = analysis_thread[u][b]
    <3>1. analysis_thread \in [AnalysisIds -> [1 .. MaxPcAttempts -> AnalysisThreads]]
      BY DEF PcInv, PcTyped
    <3> QED
      BY ONLY <1>1, <1>2, <3>1, t \in AnalysisIds, a \in 1 .. MaxPcAttempts
  <2> QED
    BY <1>2, <2>1
<1>4. CASE ~ holds_analysis_claim(t, a)
  <2>1. UNCHANGED <<analysis_task, analyses>>
    BY <1>4 DEF PublishAnalysis
  <2>2. \A u \in AnalysisIds : is_active(u)' = is_active(u)
    BY <2>1 DEF is_active
  <2>3. AnalysisThreadsFit'
    <3>1. ASSUME NEW u \in AnalysisIds, NEW b \in 1 .. MaxPcAttempts
          PROVE  /\ analysis_task'[u].status = "none" => analysis_thread'[u][b].stage = "idle"
                 /\ analysis_thread'[u][b].stage = "missing" => ~ is_active(u)'
      BY <1>3, <2>1, <2>2 DEF PcInv, AnalysisThreadsFit
    <3> QED
      BY <3>1 DEF AnalysisThreadsFit
  <2>4. TasksFit' /\ AnalysesFit'
    BY <1>1, <2>1 DEF PcInv, TasksFit, AnalysesFit, is_active
  <2>5. PcInv'
    BY <1>1, <1>3, <2>1, <2>3, <2>4, TasksChange DEF PcInv, PcTyped
  <2> QED
    BY <2>1, <2>5 DEF LastAnalysisStays
<1>5. ASSUME holds_analysis_claim(t, a)
      PROVE  PcInv' /\ LastAnalysisStays
  <2>1. /\ analysis_task[t].status = "running" /\ is_active(t)
        /\ analysis_task' = [analysis_task EXCEPT ![t].status = status, ![t].missing = missing]
        /\ analyses' = IF thread.stage = "prepared"
                       THEN {r \in analyses : remains(r)} \cup {new} ELSE analyses
    BY <1>5 DEF PublishAnalysis, holds_analysis_claim, is_active
  <2>2. /\ analysis_task \in [AnalysisIds -> AnalysisTasks]
        /\ analysis_task[t] \in AnalysisTasks /\ thread \in AnalysisThreads
    BY DEF PcInv, PcTyped
  <2>3. ~ missing
    BY <2>1 DEF PcInv, AnalysisThreadsFit
  <2> DEFINE task == [analysis_task[t] EXCEPT !.status = status, !.missing = missing]
  <2>4. /\ task.status = status /\ task.attempt = analysis_task[t].attempt
        /\ task.log = analysis_task[t].log /\ task.missing = missing
        /\ task \in AnalysisTasks
    <3>1. status \in {"success", "failed"} /\ missing \in BOOLEAN
      OBVIOUS
    <3> HIDE DEF status, missing
    <3> QED
      BY ONLY <2>2, <3>1, Zenon DEF AnalysisTasks
  <2>5. analysis_task' = [analysis_task EXCEPT ![t] = task]
    BY <2>1
  <2>6. status \in {"success", "failed"} /\ (thread.stage = "prepared" => status = "success")
    OBVIOUS
  <2>7. /\ new \in AnalysisRows /\ new.task = t /\ new.day = thread.day
    BY <2>2 DEF AnalysisTasks, AnalysisThreads, AnalysisRows
  <2>8. ~ task.missing
    BY <2>3, <2>4
  <2> HIDE DEF task, status, missing, new
  <2>9. /\ analysis_task' \in [AnalysisIds -> AnalysisTasks] /\ analysis_task'[t] = task
        /\ \A u \in AnalysisIds : /\ analysis_task'[u].log = analysis_task[u].log
                                  /\ analysis_task'[u].attempt = analysis_task[u].attempt
                                  /\ u # t => analysis_task'[u] = analysis_task[u]
    BY <2>2, <2>4, <2>5
  <2>10. \A u \in AnalysisIds : /\ is_active(u)' => is_active(u) /\ u # t
                                /\ analysis_task'[u].status = "none"
                                     <=> analysis_task[u].status = "none"
    BY <2>1, <2>4, <2>6, <2>9 DEF is_active
  <2>11. TasksFit'
    <3>1. \A u \in AnalysisIds : ~ analysis_task'[u].missing
      BY <2>8, <2>9, Zenon DEF PcInv, TasksFit
    <3>2. \A u \in AnalysisIds :
            is_active(u)' => \E row \in pc_logs' : row.pk = analysis_task'[u].log
      BY <1>1, <2>9, <2>10 DEF PcInv, TasksFit
    <3>3. \A u \in AnalysisIds :
            is_active(u)' => \A v \in AnalysisIds : v > u => analysis_task'[v].status = "none"
      BY <2>10 DEF PcInv, TasksFit
    <3>4. \A u \in AnalysisIds :
            /\ analysis_task'[u].attempt <= pc_plan.attempts
            /\ analysis_task'[u].log <= Len(created_logs)'
      BY <1>1, <2>9 DEF PcInv, TasksFit
    <3>5. \A u \in AnalysisIds :
            analysis_task'[u].status = "queued" => analysis_task'[u].attempt < pc_plan.attempts
      BY <2>4, <2>6, <2>9 DEF PcInv, TasksFit
    <3> QED
      BY <1>1, <3>1, <3>2, <3>3, <3>4, <3>5 DEF TasksFit
  <2>12. AnalysisThreadsFit'
    <3>1. ASSUME NEW u \in AnalysisIds, NEW b \in 1 .. MaxPcAttempts
          PROVE  /\ analysis_task'[u].status = "none" => analysis_thread'[u][b].stage = "idle"
                 /\ analysis_thread'[u][b].stage = "missing" => ~ is_active(u)'
      BY <1>3, <2>10 DEF PcInv, AnalysisThreadsFit
    <3> QED
      BY <3>1 DEF AnalysisThreadsFit
  <2>13. \A r \in analyses : r.task \in AnalysisIds /\ r.task # t
    BY <2>1 DEF PcInv, PcTyped, AnalysesFit, AnalysisRows
  <2>14. analyses' \subseteq analyses \cup {new} /\ (new \in analyses' => status = "success")
    <3>1. new \notin analyses
      BY <2>7, <2>13
    <3> QED
      BY <2>1, <2>6, <3>1
  <2>15. AnalysesFit'
    <3>1. \A r \in analyses' : analysis_task'[r.task].status = "success"
      BY <2>4, <2>7, <2>9, <2>13, <2>14 DEF PcInv, AnalysesFit
    <3>2. \A r, o \in analyses' : r.task = o.task => r = o
      BY <2>7, <2>13, <2>14 DEF PcInv, AnalysesFit
    <3> QED
      BY <3>1, <3>2 DEF AnalysesFit
  <2>16. PcInv'
    <3>1. analyses' \in SUBSET AnalysisRows
      BY <2>7, <2>14 DEF PcInv, PcTyped
    <3> QED
      BY <1>1, <1>3, <2>9, <2>11, <2>12, <2>15, <3>1, TasksChange DEF PcInv, PcTyped
  <2>17. LastAnalysisStays
    <3>1. ASSUME NEW row \in analyses, \A other \in analyses' : other.task # row.task
          PROVE  /\ row.alerts_processed
                 /\ \E other \in analyses' : other.day = row.day /\ other.task > row.task
      <4>1. row \notin analyses'
        BY <3>1
      <4>2. thread.stage = "prepared" /\ ~ remains(row) /\ new \in analyses'
        BY <2>1, <4>1
      <4>3. row.alerts_processed /\ row.day = thread.day
        BY <4>2 DEF Keep, alert_processing_complete
      <4>4. t > row.task
        BY <2>1, EarlierAnalyses
      <4> QED
        BY <2>7, <4>2, <4>3, <4>4
    <3> QED
      BY <3>1 DEF LastAnalysisStays
  <2> QED
    BY <2>16, <2>17
<1> QED
  BY <1>4, <1>5

LEMMA ProcessAnalysisAlertsKeeps ==
  ASSUME PcInv, ProcessAnalysisAlerts PROVE PcInv' /\ LastAnalysisStays
<1>1. UNCHANGED <<pc_plan, pc_config, pc_logs, last_report_at, upload, selected_log,
                  analysis_task, analysis_thread, today, created_logs>>
  BY DEF ProcessAnalysisAlerts
<1>2. PICK row \in analyses :
        analyses' = (analyses \ {row}) \cup {[row EXCEPT !.alerts_processed = TRUE]}
  BY DEF ProcessAnalysisAlerts
<1> DEFINE new == [row EXCEPT !.alerts_processed = TRUE]
<1>3. new \in AnalysisRows /\ new.task = row.task
  BY DEF PcInv, PcTyped, AnalysisRows
<1> HIDE DEF new
<1>4. analyses' = (analyses \ {row}) \cup {new}
  BY <1>2 DEF new
<1>5. TasksFit' /\ AnalysisThreadsFit'
  BY <1>1 DEF PcInv, TasksFit, AnalysisThreadsFit, is_active
<1>6. AnalysesFit'
  BY <1>1, <1>3, <1>4 DEF PcInv, AnalysesFit
<1>7. PcInv'
  BY <1>1, <1>3, <1>4, <1>5, <1>6, TasksChange DEF PcInv, PcTyped
<1>8. LastAnalysisStays
  BY <1>3, <1>4 DEF LastAnalysisStays
<1> QED
  BY <1>7, <1>8

\* Of the results of a day the last one is not superseded.
LEMMA LastOfTheDay ==
  ASSUME PcInv, NEW row \in analyses
  PROVE  \E last \in analyses : /\ last.day = row.day /\ last.task >= row.task
                                /\ ~ superseded(last)
<1> DEFINE later == {other \in analyses : other.day = row.day /\ other.task >= row.task}
           left == {MaxAnalyses - other.task : other \in later}
<1>1. MaxAnalyses \in Nat
  BY PcLogsAssumption DEF PcLogsAssumption
<1>2. \A other \in analyses : other.task \in 1 .. MaxAnalyses
  BY DEF PcInv, PcTyped, AnalysisRows, AnalysisIds
<1>3. left \subseteq Nat /\ left # {}
  <2>1. row \in later
    BY <1>1, <1>2
  <2> QED
    BY <1>1, <1>2, <2>1
<1>4. PICK least \in left : \A d \in left : ~ (<<d, least>> \in OpToRel(<, Nat))
  BY <1>3, NatLessThanWellFounded, WFMin
<1>5. \A d \in left : ~ (d < least)
  BY <1>3, <1>4 DEF OpToRel
<1>6. PICK last \in later : MaxAnalyses - last.task = least
  OBVIOUS
<1>7. ~ superseded(last)
  <2>1. ASSUME NEW other \in analyses, other.task > last.task, other.day = last.day
        PROVE  FALSE
    <3>1. other \in later
      BY <1>1, <1>2, <2>1
    <3>2. MaxAnalyses - other.task \in left
      BY <3>1
    <3> QED
      BY <1>1, <1>2, <1>5, <1>6, <2>1, <3>2
  <2> QED
    BY <2>1 DEF superseded
<1> QED
  BY <1>6, <1>7

LEMMA CleanupAnalysisResultsKeeps ==
  ASSUME PcInv, CleanupAnalysisResults PROVE PcInv' /\ LastAnalysisStays
<1>1. /\ analyses' = {row \in analyses : Keep(row, superseded(row))}
      /\ UNCHANGED <<pc_plan, pc_config, pc_logs, last_report_at, upload, selected_log,
                     analysis_task, analysis_thread, today, created_logs>>
  BY DEF CleanupAnalysisResults
<1>2. TasksFit' /\ AnalysisThreadsFit' /\ AnalysesFit'
  BY <1>1 DEF PcInv, TasksFit, AnalysisThreadsFit, AnalysesFit, is_active
<1>3. PcInv'
  BY <1>1, <1>2, TasksChange DEF PcInv, PcTyped
<1>4. ASSUME NEW row \in analyses, \A other \in analyses' : other.task # row.task
      PROVE  /\ row.alerts_processed
             /\ \E other \in analyses' : other.day = row.day /\ other.task > row.task
  <2>1. row \notin analyses'
    BY <1>4
  <2>2. row.alerts_processed /\ superseded(row)
    BY <1>1, <2>1 DEF Keep, alert_processing_complete
  <2>3. PICK last \in analyses : /\ last.day = row.day /\ last.task >= row.task
                                 /\ ~ superseded(last)
    BY LastOfTheDay
  <2>4. last \in analyses'
    BY <1>1, <2>3 DEF Keep
  <2>5. last.task # row.task
    BY <1>4, <2>4
  <2>6. last.task \in Nat /\ row.task \in Nat
    BY DEF PcInv, PcTyped, AnalysisRows, AnalysisIds
  <2>7. last.task > row.task
    BY <2>3, <2>5, <2>6
  <2> QED
    BY <2>2, <2>3, <2>4, <2>7
<1> QED
  BY <1>3, <1>4 DEF LastAnalysisStays

LEMMA PcNextInv ==
  ASSUME PcInv, [PcNext]_pcVars PROVE PcInv' /\ LastAnalysisStays
<1>1. analyses' = analyses => LastAnalysisStays
  BY DEF LastAnalysisStays
<1>2. ASSUME NEW w \in Uploaders, PersistUpload(w) PROVE PcInv' /\ LastAnalysisStays
  BY <1>1, <1>2, PersistUploadKeeps
<1>3. ASSUME NEW w \in Uploaders, NEW c \in LogContents, LoadUploadConfig(w, c)
      PROVE  PcInv' /\ LastAnalysisStays
  BY <1>1, <1>3, QuietPcSteps
<1>4. CASE SelectLog \/ EditPcConfig \/ Midnight
  BY <1>1, <1>4, QuietPcSteps
<1>5. CASE CleanupRetainedLogs
  BY <1>1, <1>5, CleanupRetainedLogsKeeps
<1>6. CASE CleanupAnalysisResults \/ ProcessAnalysisAlerts
  BY <1>6, CleanupAnalysisResultsKeeps, ProcessAnalysisAlertsKeeps
<1>7. ASSUME NEW t \in AnalysisIds, EnqueueAnalysis(t) \/ BeginAnalysis(t)
      PROVE  PcInv' /\ LastAnalysisStays
  BY <1>1, <1>7, EnqueueAnalysisKeeps, BeginAnalysisKeeps
<1>8. ASSUME NEW t \in AnalysisIds, RecoverAnalysis(t) \/ CancelAnalysis(t)
      PROVE  PcInv' /\ LastAnalysisStays
  BY <1>1, <1>8, TaskEndsKeeps
<1>9. ASSUME NEW t \in AnalysisIds, NEW a \in 1 .. MaxPcAttempts,
             PrepareLog(t, a) \/ PublishAnalysis(t, a)
      PROVE  PcInv' /\ LastAnalysisStays
  BY <1>1, <1>9, PrepareLogKeeps, PublishAnalysisKeeps
<1>10. CASE UNCHANGED pcVars
  BY <1>1, <1>10, PcUnchanged DEF pcVars
<1> QED
  BY <1>2, <1>3, <1>4, <1>5, <1>6, <1>7, <1>8, <1>9, <1>10 DEF PcNext

\* Uploads, publications and the maintenance clean away neither a log that still counts
\* or is being analysed nor the last result of a day: the newest log of each day is
\* retained, an active task holds its log, and only a later result replaces one.
THEOREM NothingNeededIsCleaned == PcSpec => []PcTypeOK /\ NeededLogsStay
<1>1. PcInit => PcInv
  BY PcInitInv
<1>2. PcInv /\ [PcNext]_pcVars => PcInv'
  BY PcNextInv
<1>3. PcInv /\ [PcNext]_pcVars => LastAnalysisStays
  BY PcNextInv
<1>4. PcInv => PcTypeOK /\ LogsAreKept
  BY PcInvSuffices
<1> QED
  BY <1>1, <1>2, <1>3, <1>4, PTL DEF PcSpec, NeededLogsStay

-----------------------------------------------------------------------------
(* Together.                                                               *)

\* Only one component moves, so each goes its own way.
LEMMA PartsOfStation ==
  StationSpec => /\ PeopleSpec /\ AccessSpec /\ TopologySpec /\ PcSpec
                 /\ BackupsSpec /\ PageCacheSpec /\ ClientSpec
<1>1. StationInit => /\ PeopleInit /\ AccessInit /\ TopologyInit /\ PcInit
                     /\ BackupsInit /\ PageCacheInit /\ ClientInit
  BY DEF StationInit
<1>2. [StationNext]_stationVars
        => /\ [PeopleNext]_peopleVars /\ [AccessNext]_accessVars
           /\ [TopologyNext]_topologyVars /\ [PcNext]_pcVars /\ [BackupsNext]_backupVars
           /\ [PageCacheNext]_cacheVars /\ [ClientNext]_clientVars
  BY DEF StationNext, Others, stationVars
<1> QED
  BY <1>1, <1>2, PTL
     DEF StationSpec, PeopleSpec, AccessSpec, TopologySpec, PcSpec, BackupsSpec,
         PageCacheSpec, ClientSpec

\* The rows and memories of the components that synchronise, collect or show data keep
\* their types: events are recorded once, there are never more than KeptVersions backups,
\* and no page lives longer than its lifetime (net/people/executor.py,
\* net/access/executor.py, net/topology/service.py, net/devices/pc/ingestion.py,
\* net/devices/configuration_backups.py, net/infrastructure/page_cache.py and
\* net/domain/client.py, each with rows of its own).
THEOREM StationIsTyped == StationSpec => []StationTypeOK
<1>1. ASSUME PeopleTypeOK, AccessTypeOK, TopologyTypeOK, PcTypeOK, BackupsTypeOK,
             PageTypeOK, ClientTypeOK
      PROVE  StationTypeOK
  BY <1>1 DEF StationTypeOK
<1> QED
  BY <1>1, PartsOfStation, SuccessesAreApplied, CursorLeavesNoGap, StaleAfterTwoBatches,
     NothingNeededIsCleaned, NewestBackupsStay, ChangesComeThrough, RequestsAreKeptTo, PTL
=============================================================================
