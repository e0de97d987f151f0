------------------------- MODULE MaintenanceProofs -------------------------
(***************************************************************************)
(* What maintenance does beside the queue, for every number of Workers,    *)
(* rows, schedules and people: archiving loses nothing, retention leaves   *)
(* what is still needed, and no occurrence of a schedule runs twice.       *)
(***************************************************************************)
EXTENDS MCMaintenance, AlertDeliveryProofs, FiniteSetTheorems, TLAPS

-----------------------------------------------------------------------------
(* Archiving.                                                              *)

Forms == {"full", "compact"}
Commands == [stage : {"idle", "writing", "compacting", "reporting"}, compact : BOOLEAN,
             rows : Pages, left : SUBSET Results]

ArchiveRows ==
  /\ snapshot \in [Results -> Forms \cup {"gone"}]
  /\ command \in [Operators -> Commands]
  /\ archives \in [Operators -> Seq(Pages)]
  /\ archived_after \in [Operators -> Nat]

\* A command that compacts or reports has completed the file of its page.
FileIsComplete ==
  \A o \in Operators :
    /\ command[o].stage \in {"compacting", "reporting"}
         => \E i \in DOMAIN archives[o] : archives[o][i] = command[o].rows
    /\ command[o].left \subseteq DOMAIN command[o].rows

\* The page of a running command has every row between the cursor and its last row.
PageFollows ==
  \A o \in Operators : command[o].stage # "idle" =>
    \A u \in DOMAIN command[o].rows : \A t \in Rows :
      archived_after[o] < t /\ t <= u => t \in DOMAIN command[o].rows

ArchiveInv ==
  ArchiveRows /\ FileIsComplete /\ PageFollows /\ DetailsAreArchived /\ NoRowBehindPage

-----------------------------------------------------------------------------
(* Pages and files.                                                        *)

LEMMA PageTyped ==
  ASSUME NEW page \in Pages
  PROVE  DOMAIN page \subseteq Results /\ \A t \in DOMAIN page : page[t] \in Forms
BY DEF Pages, Forms

LEMMA PageOf ==
  ASSUME NEW S \in SUBSET Results, NEW f, f \in [S -> Forms]
  PROVE  f \in Pages
BY DEF Pages, Forms

\* Nothing between two candidates is left out.
LEMMA CandidatesFollow ==
  ASSUME ArchiveAssumption, NEW o \in Operators,
         NEW u \in candidates(o), NEW t \in Rows, archived_after[o] < t, t <= u
  PROVE  t \in candidates(o)
<1> DEFINE After == {v \in Rows : v > archived_after[o]}
           Before(v) == {s \in After : s < v}
<1>1. /\ After \subseteq Results /\ Results \subseteq Nat /\ IsFiniteSet(Results)
      /\ PageLimit \in Nat
  BY DEF Rows, ArchiveAssumption
<1>2. u \in After /\ t \in After /\ Cardinality(Before(u)) < PageLimit
  BY <1>1 DEF candidates
<1>3. IsFiniteSet(Before(u)) /\ Before(t) \subseteq Before(u)
  <2>1. Before(u) \in SUBSET Results
    BY <1>1
  <2>2. ASSUME NEW s \in After, s < t
        PROVE  s < u
    <3>1. s \in Nat /\ t \in Nat /\ u \in Nat
      BY <1>1, <1>2, <2>2
    <3> HIDE DEF After
    <3> QED
      BY <2>2, <3>1
  <2> QED
    BY <1>1, <2>1, <2>2, FS_Subset
<1>4. /\ Cardinality(Before(t)) <= Cardinality(Before(u)) /\ IsFiniteSet(Before(t))
  BY <1>3, FS_Subset
<1>5. Cardinality(Before(t)) \in Nat /\ Cardinality(Before(u)) \in Nat
  BY <1>3, <1>4, FS_CardinalityType
<1>6. Cardinality(Before(t)) < PageLimit
  BY <1>1, <1>2, <1>4, <1>5
<1> QED
  BY <1>2, <1>6 DEF candidates

-----------------------------------------------------------------------------
(* The steps.                                                              *)

\* A command that does not run has no rows.
LEMMA NoRowsTyped == NoRows \in Pages /\ DOMAIN NoRows = {}
<1>1. NoRows \in [{} -> {"full", "compact"}] /\ {} \in SUBSET Results
  BY DEF NoRows
<1> QED
  BY <1>1 DEF Pages

LEMMA ArchiveInitHolds ==
  ASSUME ArchiveAssumption, ArchiveInit
  PROVE  ArchiveInv
<1>1. NoRows \in Pages /\ DOMAIN NoRows = {}
  BY NoRowsTyped
<1>2. ArchiveRows
  BY <1>1 DEF ArchiveInit, ArchiveRows, NoCommand, Commands, Forms
<1>3. FileIsComplete /\ PageFollows
  BY <1>1 DEF ArchiveInit, FileIsComplete, PageFollows, NoCommand
<1>4. DetailsAreArchived /\ NoRowBehindPage
  BY DEF ArchiveInit, DetailsAreArchived, NoRowBehindPage, Rows, ArchiveAssumption
<1> QED
  BY <1>2, <1>3, <1>4 DEF ArchiveInv

LEMMA ReadPageKeeps ==
  ASSUME ArchiveAssumption, ArchiveInv, NEW o \in Operators, NEW compact \in BOOLEAN,
         ReadPage(o, compact)
  PROVE  ArchiveInv'
<1> DEFINE page == [t \in candidates(o) |-> snapshot[t]]
           new == [stage |-> "writing", compact |-> compact, left |-> candidates(o),
                   rows |-> page]
<1>1. /\ command \in [Operators -> Commands] /\ command' = [command EXCEPT ![o] = new]
      /\ UNCHANGED <<snapshot, archives, archived_after>>
  BY DEF ArchiveInv, ArchiveRows, ReadPage
<1>2. candidates(o) \subseteq Rows /\ Rows \subseteq Results
  BY DEF candidates, Rows
<1>3. page \in Pages
  <2>1. page \in [candidates(o) -> Forms]
    BY <1>2 DEF ArchiveInv, ArchiveRows, Rows, Forms
  <2> QED
    BY <1>2, <2>1, PageOf
<1>4. ArchiveRows'
  BY <1>1, <1>2, <1>3 DEF ArchiveInv, ArchiveRows, Commands
<1>5. FileIsComplete'
  BY <1>1 DEF ArchiveInv, FileIsComplete
<1>6. PageFollows'
  <2>1. ASSUME NEW u \in candidates(o), NEW t \in Rows, archived_after[o] < t, t <= u
        PROVE  t \in candidates(o)
    BY <2>1, CandidatesFollow
  <2> QED
    BY <1>1, <2>1 DEF ArchiveInv, PageFollows, Rows
<1>7. DetailsAreArchived' /\ NoRowBehindPage'
  BY <1>1 DEF ArchiveInv, DetailsAreArchived, NoRowBehindPage, HoldsRow, Rows
<1> QED
  BY <1>4, <1>5, <1>6, <1>7 DEF ArchiveInv

LEMMA CompleteArchiveKeeps ==
  ASSUME ArchiveInv, NEW o \in Operators, CompleteArchive(o)
  PROVE  ArchiveInv'
<1> DEFINE after == IF command[o].compact THEN "compacting" ELSE "reporting"
           file == Append(archives[o], command[o].rows)
<1>1. /\ command \in [Operators -> Commands] /\ archives \in [Operators -> Seq(Pages)]
      /\ command' = [command EXCEPT ![o].stage = after]
      /\ archives' = [archives EXCEPT ![o] = file]
      /\ UNCHANGED <<snapshot, archived_after>>
  BY DEF ArchiveInv, ArchiveRows, CompleteArchive
<1>2. /\ archives[o] \in Seq(Pages) /\ command[o] \in Commands /\ command[o].rows \in Pages
  BY <1>1 DEF Commands
<1>3. /\ file \in Seq(Pages) /\ DOMAIN file = 1 .. Len(archives[o]) + 1
      /\ file[Len(archives[o]) + 1] = command[o].rows
      /\ \A i \in DOMAIN archives[o] : i \in DOMAIN file /\ file[i] = archives[o][i]
  BY <1>2
<1>4. /\ command'[o] = [command[o] EXCEPT !.stage = after] /\ archives'[o] = file
      /\ \A p \in Operators \ {o} : command'[p] = command[p] /\ archives'[p] = archives[p]
  BY <1>1
<1>5. /\ command'[o] = [stage |-> after, compact |-> command[o].compact,
                        rows |-> command[o].rows, left |-> command[o].left]
  BY <1>2, <1>4 DEF Commands
<1>6. ArchiveRows'
  <2>1. command'[o] \in Commands
    BY <1>2, <1>5 DEF Commands
  <2>2. command' \in [Operators -> Commands] /\ archives' \in [Operators -> Seq(Pages)]
    BY <1>1, <1>3, <1>4, <2>1
  <2> QED
    BY <1>1, <2>2 DEF ArchiveInv, ArchiveRows
<1>7. FileIsComplete'
  <2>1. \E i \in DOMAIN archives'[o] : archives'[o][i] = command'[o].rows
    <3>1. Len(archives[o]) + 1 \in DOMAIN file
      BY <1>2, <1>3
    <3> HIDE DEF file
    <3> QED
      BY <1>3, <1>4, <1>5, <3>1
  <2>2. command'[o].left \subseteq DOMAIN command'[o].rows
    BY <1>5 DEF ArchiveInv, FileIsComplete
  <2>3. ASSUME NEW p \in Operators \ {o}
        PROVE  /\ command'[p].stage \in {"compacting", "reporting"}
                    => \E i \in DOMAIN archives'[p] : archives'[p][i] = command'[p].rows
               /\ command'[p].left \subseteq DOMAIN command'[p].rows
    <3>1. command'[p] = command[p] /\ archives'[p] = archives[p]
      BY <1>4
    <3> QED
      BY <3>1 DEF ArchiveInv, FileIsComplete
  <2> QED
    BY ONLY <2>1, <2>2, <2>3 DEF FileIsComplete
<1>8. PageFollows'
  <2>1. \A p \in Operators : /\ command'[p].rows = command[p].rows
                              /\ command'[p].stage # "idle" => command[p].stage # "idle"
    BY <1>4, <1>5 DEF CompleteArchive
  <2> QED
    BY <1>1, <2>1 DEF ArchiveInv, PageFollows, Rows
<1>9. ASSUME NEW p \in Operators, NEW t, NEW forms, HoldsRow(p, t, forms)
      PROVE  HoldsRow(p, t, forms)'
  <2> HIDE DEF file
  <2> QED
    BY <1>3, <1>4, <1>9 DEF HoldsRow
<1>10. DetailsAreArchived' /\ NoRowBehindPage'
  <2>1. DetailsAreArchived'
    BY <1>1, <1>9 DEF ArchiveInv, DetailsAreArchived
  <2>2. NoRowBehindPage'
    BY <1>1, <1>9 DEF ArchiveInv, NoRowBehindPage, Rows
  <2> QED
    BY <2>1, <2>2
<1> QED
  BY <1>6, <1>7, <1>8, <1>10 DEF ArchiveInv

LEMMA CompactRowKeeps ==
  ASSUME ArchiveInv, NEW o \in Operators, CompactRow(o)
  PROVE  ArchiveInv'
<1>1. PICK t \in command[o].left :
        /\ is_synced(o)
        /\ command' = [command EXCEPT ![o].left = @ \ {t}]
        /\ snapshot' = IF snapshot[t] = command[o].rows[t] /\ is_compactable(t)
                       THEN [snapshot EXCEPT ![t] = "compact"] ELSE snapshot
        /\ UNCHANGED <<evidence, archives, archived_after, commands, history_events>>
  BY DEF CompactRow
<1>2. /\ command \in [Operators -> Commands] /\ command[o] \in Commands
      /\ snapshot \in [Results -> Forms \cup {"gone"}]
      /\ t \in DOMAIN command[o].rows /\ t \in Results
  BY <1>1 DEF ArchiveInv, ArchiveRows, FileIsComplete, Commands
<1>3. /\ command'[o] = [stage |-> command[o].stage, compact |-> command[o].compact,
                        rows |-> command[o].rows, left |-> command[o].left \ {t}]
      /\ \A p \in Operators \ {o} : command'[p] = command[p]
  BY <1>1, <1>2 DEF Commands
<1>4. /\ snapshot' \in [Results -> Forms \cup {"gone"}]
      /\ \A s \in Results : snapshot'[s] = "gone" <=> snapshot[s] = "gone"
      /\ \A s \in Results \ {t} : snapshot'[s] = snapshot[s]
      /\ snapshot'[t] # snapshot[t] => command[o].rows[t] = "full"
  BY <1>1, <1>2 DEF is_compactable, Forms
<1>5. ArchiveRows'
  <2>1. command'[o] \in Commands
    BY <1>2, <1>3 DEF Commands
  <2>2. command' \in [Operators -> Commands]
    BY <1>1, <1>2, <1>3, <2>1
  <2> QED
    BY <1>1, <1>4, <2>2 DEF ArchiveInv, ArchiveRows
<1>6. FileIsComplete'
  BY <1>1, <1>3 DEF ArchiveInv, FileIsComplete
<1>7. Rows' = Rows
  BY <1>4 DEF Rows
<1>8. PageFollows'
  <2>1. \A p \in Operators : /\ command'[p].rows = command[p].rows
                              /\ command'[p].stage = command[p].stage
    BY <1>3
  <2> QED
    BY <1>1, <1>7, <2>1 DEF ArchiveInv, PageFollows
<1>9. DetailsAreArchived'
  <2>1. PICK i \in DOMAIN archives[o] : archives[o][i] = command[o].rows
    BY <1>1 DEF ArchiveInv, FileIsComplete, is_synced
  <2>2. snapshot'[t] # snapshot[t] => HoldsRow(o, t, {"full"})
    BY <1>2, <1>4, <2>1 DEF HoldsRow
  <2>3. \A p \in Operators, s \in Results : HoldsRow(p, s, {"full"})' <=> HoldsRow(p, s, {"full"})
    BY <1>1 DEF HoldsRow
  <2> QED
    BY <1>4, <2>2, <2>3 DEF ArchiveInv, DetailsAreArchived
<1>10. NoRowBehindPage'
  BY <1>1, <1>7 DEF ArchiveInv, NoRowBehindPage, HoldsRow
<1> QED
  BY <1>5, <1>6, <1>8, <1>9, <1>10 DEF ArchiveInv

\* A command that ends, with a summary or without one, leaves its file alone.
LEMMA CommandEndKeeps ==
  ASSUME ArchiveInv, NEW o \in Operators, command' = [command EXCEPT ![o] = NoCommand],
         UNCHANGED <<snapshot, archives>>,
         archived_after' \in [Operators -> Nat],
         \A p \in Operators \ {o} : archived_after'[p] = archived_after[p]
  PROVE  ArchiveRows' /\ FileIsComplete' /\ PageFollows' /\ DetailsAreArchived'
<1>1. /\ NoCommand \in Commands /\ NoCommand.stage = "idle" /\ NoCommand.left = {}
  BY NoRowsTyped DEF NoCommand, Commands
<1>2. /\ command \in [Operators -> Commands] /\ command'[o] = NoCommand
      /\ \A p \in Operators \ {o} : command'[p] = command[p]
  BY DEF ArchiveInv, ArchiveRows
<1>3. ArchiveRows'
  BY <1>1, <1>2 DEF ArchiveInv, ArchiveRows
<1>4. FileIsComplete' /\ PageFollows'
  BY <1>1, <1>2 DEF ArchiveInv, FileIsComplete, PageFollows, Rows
<1>5. DetailsAreArchived'
  BY DEF ArchiveInv, DetailsAreArchived, HoldsRow
<1> QED
  BY <1>3, <1>4, <1>5

LEMMA ReportKeeps ==
  ASSUME ArchiveAssumption, ArchiveInv, NEW o \in Operators, Report(o)
  PROVE  ArchiveInv'
<1>1. /\ archived_after \in [Operators -> Nat] /\ command[o] \in Commands
      /\ Results \subseteq Nat
  BY DEF ArchiveInv, ArchiveRows, ArchiveAssumption
<1>2. /\ command' = [command EXCEPT ![o] = NoCommand] /\ UNCHANGED <<snapshot, archives>>
      /\ command[o].stage \in {"compacting", "reporting"}
  BY DEF Report
<1>3. /\ command[o].rows \in Pages /\ DOMAIN command[o].rows \subseteq Results
      /\ \A t \in DOMAIN command[o].rows : command[o].rows[t] \in Forms
  BY <1>1, PageTyped DEF Commands
<1>4. PICK i \in DOMAIN archives[o] : archives[o][i] = command[o].rows
  BY <1>2 DEF ArchiveInv, FileIsComplete
<1>5. \A t \in DOMAIN command[o].rows : HoldsRow(o, t, {"full", "compact"})'
  BY <1>2, <1>3, <1>4 DEF HoldsRow, Forms
<1>6. NoRowBehindPage' /\ archived_after' \in [Operators -> Nat]
      /\ \A p \in Operators \ {o} : archived_after'[p] = archived_after[p]
  <2>1. CASE DOMAIN command[o].rows = {}
    <3>1. UNCHANGED archived_after
      BY <2>1 DEF Report
    <3> QED
      BY <1>1, <1>2, <3>1 DEF ArchiveInv, NoRowBehindPage, HoldsRow, Rows
  <2>2. CASE DOMAIN command[o].rows # {}
    <3>1. PICK last \in DOMAIN command[o].rows :
                 archived_after' = [archived_after EXCEPT ![o] = last]
      BY <2>2 DEF Report
    <3>2. /\ last \in Nat /\ archived_after' \in [Operators -> Nat] /\ archived_after'[o] = last
          /\ \A p \in Operators \ {o} : archived_after'[p] = archived_after[p]
      BY <1>1, <1>3, <3>1
    <3>3. ASSUME NEW t \in Rows, t <= last
          PROVE  HoldsRow(o, t, {"full", "compact"})'
      <4>1. t \in Nat /\ archived_after[o] \in Nat
        BY <1>1, <3>3 DEF Rows
      <4>2. CASE t <= archived_after[o]
        BY <1>2, <3>3, <4>2 DEF ArchiveInv, NoRowBehindPage, HoldsRow
      <4>3. CASE archived_after[o] < t
        BY <1>2, <1>5, <3>1, <3>3, <4>3 DEF ArchiveInv, PageFollows
      <4> QED
        BY <4>1, <4>2, <4>3
    <3>4. NoRowBehindPage'
      BY <1>2, <3>2, <3>3 DEF ArchiveInv, NoRowBehindPage, HoldsRow, Rows
    <3> QED
      BY <3>2, <3>4
  <2> QED
    BY <2>1, <2>2
<1> QED
  BY <1>2, <1>6, CommandEndKeeps DEF ArchiveInv

LEMMA CommandFailsKeeps ==
  ASSUME ArchiveInv, NEW o \in Operators, CommandFails(o)
  PROVE  ArchiveInv'
<1>1. /\ command' = [command EXCEPT ![o] = NoCommand]
      /\ UNCHANGED <<snapshot, archives, archived_after>>
      /\ archived_after \in [Operators -> Nat]
  BY DEF CommandFails, ArchiveInv, ArchiveRows
<1>2. ArchiveRows' /\ FileIsComplete' /\ PageFollows' /\ DetailsAreArchived'
  BY <1>1, CommandEndKeeps
<1>3. NoRowBehindPage'
  BY <1>1 DEF ArchiveInv, NoRowBehindPage, HoldsRow, Rows
<1> QED
  BY <1>2, <1>3 DEF ArchiveInv

\* Retention takes rows and records away and adds none.
LEMMA ExpiryKeeps ==
  ASSUME ArchiveInv, NEW t \in Results, RecordExpires(t) \/ TaskExpires(t)
  PROVE  ArchiveInv'
<1>1. /\ UNCHANGED <<command, archives, archived_after>>
      /\ snapshot \in [Results -> Forms \cup {"gone"}]
  BY DEF RecordExpires, TaskExpires, ArchiveInv, ArchiveRows
<1>2. /\ snapshot' \in [Results -> Forms \cup {"gone"}]
      /\ \A s \in Results : snapshot'[s] # snapshot[s] => snapshot'[s] = "gone"
  BY <1>1 DEF RecordExpires, TaskExpires
<1>3. Rows' \subseteq Rows
  BY <1>2 DEF Rows
<1>4. ArchiveRows' /\ FileIsComplete' /\ PageFollows'
  BY <1>1, <1>2, <1>3 DEF ArchiveInv, ArchiveRows, FileIsComplete, PageFollows
<1>5. DetailsAreArchived' /\ NoRowBehindPage'
  BY <1>1, <1>2, <1>3 DEF ArchiveInv, DetailsAreArchived, NoRowBehindPage, HoldsRow
<1> QED
  BY <1>4, <1>5 DEF ArchiveInv

LEMMA ArchiveNextKeeps ==
  ASSUME ArchiveAssumption, ArchiveInv, [ArchiveNext]_archiveVars
  PROVE  ArchiveInv'
<1>1. ASSUME NEW o \in Operators, NEW compact \in BOOLEAN, ReadPage(o, compact)
      PROVE  ArchiveInv'
  BY <1>1, ReadPageKeeps
<1>2. ASSUME NEW o \in Operators,
             CompleteArchive(o) \/ CompactRow(o) \/ Report(o) \/ CommandFails(o)
      PROVE  ArchiveInv'
  BY <1>2, CompleteArchiveKeeps, CompactRowKeeps, ReportKeeps, CommandFailsKeeps
<1>3. ASSUME NEW t \in Results, RecordExpires(t) \/ TaskExpires(t)
      PROVE  ArchiveInv'
  BY <1>3, ExpiryKeeps
<1>4. CASE UNCHANGED archiveVars
  BY <1>4 DEF archiveVars, ArchiveInv, ArchiveRows, FileIsComplete, PageFollows,
              DetailsAreArchived, NoRowBehindPage, HoldsRow, Rows
<1> QED
  BY <1>1, <1>2, <1>3, <1>4 DEF ArchiveNext

\* A cursor is null or a row that was once there.
ArchiveBounds ==
  /\ evidence \subseteq Results /\ \A o \in Operators : archived_after[o] \in Results \cup {0}
  /\ commands \in 0 .. MaxCommands /\ history_events \in 0 .. MaxHistoryEvents

LEMMA ArchiveBoundsKeep ==
  ASSUME ArchiveInv, ArchiveBounds, [ArchiveNext]_archiveVars
  PROVE  ArchiveBounds'
<1> USE ArchiveAssumption DEF ArchiveAssumption
<1>1. ASSUME NEW o \in Operators, NEW compact \in BOOLEAN, ReadPage(o, compact)
      PROVE  ArchiveBounds'
  BY <1>1 DEF ReadPage, ArchiveBounds
<1>2. ASSUME NEW o \in Operators, CompleteArchive(o) \/ CompactRow(o) \/ CommandFails(o)
      PROVE  ArchiveBounds'
  BY <1>2 DEF CompleteArchive, CompactRow, CommandFails, ArchiveBounds
<1>3. ASSUME NEW o \in Operators, Report(o) PROVE ArchiveBounds'
  <2>1. DOMAIN command[o].rows \subseteq Results /\ archived_after \in [Operators -> Nat]
    BY PageTyped DEF ArchiveInv, ArchiveRows, Commands
  <2> QED
    BY <1>3, <2>1 DEF Report, ArchiveBounds
<1>4. ASSUME NEW t \in Results, RecordExpires(t) \/ TaskExpires(t) PROVE ArchiveBounds'
  <2>1. /\ evidence' \subseteq evidence /\ UNCHANGED <<archived_after, commands>>
        /\ history_events < MaxHistoryEvents /\ history_events' = history_events + 1
    BY <1>4 DEF RecordExpires, TaskExpires, HistoryEvent
  <2> QED
    BY <2>1 DEF ArchiveBounds
<1>5. ASSUME UNCHANGED archiveVars PROVE ArchiveBounds'
  BY <1>5 DEF archiveVars, ArchiveBounds
<1> QED
  BY <1>1, <1>2, <1>3, <1>4, <1>5 DEF ArchiveNext

LEMMA ArchiveInitBounds == ArchiveInit => ArchiveBounds
BY ArchiveAssumption DEF ArchiveAssumption, ArchiveInit, ArchiveBounds

LEMMA ArchiveInvTypes == ArchiveInv /\ ArchiveBounds => ArchiveTypeOK
<1> SUFFICES ASSUME ArchiveInv, ArchiveBounds PROVE ArchiveTypeOK
  OBVIOUS
<1>1. /\ snapshot \in [Results -> Forms \cup {"gone"}] /\ command \in [Operators -> Commands]
      /\ archives \in [Operators -> Seq(Pages)]
      /\ \A o \in Operators : command[o].left \subseteq DOMAIN command[o].rows
  BY DEF ArchiveInv, ArchiveRows, FileIsComplete
<1>2. ASSUME NEW o \in Operators, NEW i \in DOMAIN archives[o] PROVE archives[o][i] \in Pages
  BY <1>1
<1> QED
  BY <1>1, <1>2 DEF ArchiveBounds, ArchiveTypeOK, Forms, Commands

-----------------------------------------------------------------------------
\* Whatever commands fail or overlap, and whatever retention removes, details that were
\* taken out of a row are in a complete file, and the cursor of an operator has passed no
\* row that is in none of his files
\* (net/management/commands/archive_task_results.py: sync first, then compact).
THEOREM ArchivingLosesNothing == ArchiveSpec => []ArchiveTypeOK /\ []ArchiveLosesNothing
<1>1. ArchiveInit => ArchiveInv /\ ArchiveBounds
  BY ArchiveAssumption, ArchiveInitHolds, ArchiveInitBounds
<1>2. ArchiveInv /\ ArchiveBounds /\ [ArchiveNext]_archiveVars => ArchiveInv' /\ ArchiveBounds'
  BY ArchiveAssumption, ArchiveNextKeeps, ArchiveBoundsKeep
<1>3. ArchiveInv /\ ArchiveBounds => ArchiveTypeOK /\ ArchiveLosesNothing
  BY ArchiveInvTypes DEF ArchiveInv, ArchiveLosesNothing
<1> QED
  BY <1>1, <1>2, <1>3, PTL DEF ArchiveSpec

-----------------------------------------------------------------------------
(* Retention.                                                              *)

PastRows == [status : {"none", "finished", "removed"}, device : RetainedAssets \cup {0},
             setting : RetentionSettings \cup {0}, finished_on : Nat,
             alerts_processed : BOOLEAN, pinned : BOOLEAN]
SweepMemory == [stage : {"records", "deletion", "history"},
                settings : SUBSET RetentionSettings, ids : SUBSET HistoryIds]

HistoryTyped ==
  /\ past \in [HistoryIds -> PastRows]
  /\ record \in [HistoryIds -> {"none", "stored", "gone"}]
  /\ sweep \in [Sweepers -> SweepMemory]
  /\ \A t \in HistoryIds : past[t].status = "none" => record[t] = "none"

\* The tasks whose inspection of the device stored a record, deleted or not.
Recorded(d) == {t \in HistoryIds : record[t] # "none" /\ past[t].device = d}

\* Unless a person removed one, the last record of a device is still stored.
LastRecordStands ==
  \A d \in RetainedAssets \ by_hand : Recorded(d) # {} =>
    \E u \in Stored(d) : \A t \in Recorded(d) : t <= u

\* A listed record was not the last one of its device, and will never be again.
ListedIsNotLast ==
  \A w \in Sweepers : sweep[w].stage = "deletion" =>
    \A t \in sweep[w].ids : /\ record[t] # "none"
                            /\ \E u \in Recorded(past[t].device) : t < u

RetentionInv ==
  /\ HistoryTyped /\ LastRecordStands /\ ListedIsNotLast
  /\ ReferencedTasksStay /\ PendingAlertsKeepRecord

LEMMA HistoryIdsTyped == HistoryIds \subseteq Nat
BY RetentionAssumption DEF RetentionAssumption, HistoryIds

LEMMA RetentionInitHolds == RetentionInit => RetentionInv
<1> SUFFICES ASSUME RetentionInit PROVE RetentionInv
  OBVIOUS
<1>1. HistoryTyped
  <2>1. NoPast \in PastRows /\ Begun \in SweepMemory
    BY DEF NoPast, PastRows, Begun, SweepMemory
  <2> QED
    BY <2>1 DEF RetentionInit, HistoryTyped
<1>2. \A d : Recorded(d) = {}
  BY DEF RetentionInit, Recorded
<1>3. LastRecordStands /\ ListedIsNotLast /\ ReferencedTasksStay /\ PendingAlertsKeepRecord
  BY <1>2 DEF RetentionInit, LastRecordStands, ListedIsNotLast, ReferencedTasksStay,
     PendingAlertsKeepRecord, NoPast, Begun
<1> QED
  BY <1>1, <1>3 DEF RetentionInv

\* Steps that leave the records and their devices as they are.
LEMMA RecordsUntouched ==
  ASSUME RetentionInv, record' = record, by_hand' = by_hand,
         past' \in [HistoryIds -> PastRows],
         \A t \in HistoryIds : /\ past'[t].device = past[t].device
                               /\ past'[t].status = "none" <=> past[t].status = "none"
                               /\ past[t].alerts_processed => past'[t].alerts_processed
                               /\ past'[t].status = "finished" => past[t].status = "finished"
                               /\ record[t] = "stored" => past'[t].status = past[t].status
                               /\ past'[t].pinned /\ past'[t].status = "removed"
                                    => past[t].pinned /\ past[t].status = "removed",
         sweep' \in [Sweepers -> SweepMemory],
         \A w \in Sweepers : sweep'[w].stage = "deletion" =>
           \/ sweep[w].stage = "deletion" /\ sweep'[w].ids \subseteq sweep[w].ids
           \/ \A t \in sweep'[w].ids : /\ record[t] # "none"
                                       /\ \E u \in Recorded(past[t].device) : t < u
  PROVE  RetentionInv'
<1>1. \A d : Recorded(d)' = Recorded(d) /\ Stored(d)' = Stored(d)
  BY DEF Recorded, Stored
<1>2. HistoryTyped'
  BY DEF RetentionInv, HistoryTyped
<1>3. LastRecordStands'
  BY <1>1 DEF RetentionInv, LastRecordStands
<1>4. ListedIsNotLast'
  <2>1. ASSUME NEW w \in Sweepers, sweep'[w].stage = "deletion", NEW t \in sweep'[w].ids
        PROVE  /\ record'[t] # "none"
               /\ \E u \in HistoryIds : /\ record'[u] # "none" /\ t < u
                                        /\ past'[u].device = past'[t].device
    <3>1. t \in HistoryIds
      BY <2>1 DEF SweepMemory
    <3>2. record[t] # "none" /\ \E u \in Recorded(past[t].device) : t < u
      BY <2>1 DEF RetentionInv, ListedIsNotLast
    <3> QED
      BY <3>1, <3>2 DEF Recorded
  <2> QED
    BY <2>1 DEF ListedIsNotLast, Recorded
<1>5. ReferencedTasksStay' /\ PendingAlertsKeepRecord'
  BY DEF RetentionInv, HistoryTyped, ReferencedTasksStay, PendingAlertsKeepRecord
<1> QED
  BY <1>2, <1>3, <1>4, <1>5 DEF RetentionInv

\* A finished task is numbered after all that have a record.
LEMMA FinishTaskKeeps ==
  ASSUME RetentionInv, NEW t \in HistoryIds, NEW d \in RetainedAssets,
         NEW s \in RetentionSettings, NEW stored \in BOOLEAN, NEW pinned \in BOOLEAN,
         day \in Nat, FinishTask(t, d, s, stored, pinned)
  PROVE  RetentionInv'
<1>1. /\ \A u \in HistoryIds : past[u].status = "none" <=> u >= t
      /\ record' = [record EXCEPT ![t] = IF stored THEN "stored" ELSE "none"]
      /\ UNCHANGED <<day, sweep, by_hand>>
      /\ past' = [past EXCEPT ![t] =
                    [status |-> "finished", device |-> d, setting |-> s, finished_on |-> day,
                     alerts_processed |-> FALSE, pinned |-> pinned]]
  BY DEF FinishTask
<1>2. HistoryIds \subseteq Nat
  BY HistoryIdsTyped
<1>3. record[t] = "none" /\ \A u \in HistoryIds : record[u] # "none" => u < t
  <2>1. \A u \in HistoryIds : record[u] # "none" => past[u].status # "none"
    BY DEF RetentionInv, HistoryTyped
  <2>2. past[t].status = "none"
    BY <1>1, <1>2
  <2> QED
    BY <1>1, <1>2, <2>1, <2>2
<1>4. HistoryTyped'
  BY <1>1 DEF RetentionInv, HistoryTyped, PastRows
<1>5. \A u \in HistoryIds \ {t} : past'[u] = past[u] /\ record'[u] = record[u]
  BY <1>1 DEF RetentionInv, HistoryTyped
<1>6. past'[t].device = d /\ record'[t] \in {"stored", "none"} /\ past'[t].status = "finished"
  BY <1>1 DEF RetentionInv, HistoryTyped
<1>7. LastRecordStands'
  <2>1. ASSUME NEW e \in RetainedAssets \ by_hand, NEW r \in HistoryIds,
               record'[r] # "none", past'[r].device = e
        PROVE  \E u \in HistoryIds :
                 /\ record'[u] = "stored" /\ past'[u].device = e
                 /\ \A v \in HistoryIds : record'[v] # "none" /\ past'[v].device = e => v <= u
    <3>1. CASE e = d /\ record'[t] = "stored"
      BY <1>2, <1>3, <1>5, <1>6, <3>1
    <3>2. CASE e # d \/ record'[t] # "stored"
      <4>1. \A v \in HistoryIds :
              record'[v] # "none" /\ past'[v].device = e <=> v \in Recorded(e)
        BY <1>3, <1>5, <1>6, <3>2 DEF Recorded
      <4>2. PICK u \in Stored(e) : \A v \in Recorded(e) : v <= u
        BY <2>1, <4>1 DEF RetentionInv, LastRecordStands
      <4>3. u \in HistoryIds \ {t} /\ record[u] = "stored" /\ past[u].device = e
        BY <1>3, <4>2 DEF Stored
      <4> QED
        BY <1>5, <4>1, <4>2, <4>3
    <3> QED
      BY <3>1, <3>2
  <2> QED
    BY <1>1, <2>1 DEF LastRecordStands, Recorded, Stored
<1>8. ListedIsNotLast'
  <2>1. ASSUME NEW w \in Sweepers, sweep[w].stage = "deletion", NEW r \in sweep[w].ids
        PROVE  /\ record'[r] # "none"
               /\ \E u \in HistoryIds : /\ record'[u] # "none" /\ r < u
                                        /\ past'[u].device = past'[r].device
    <3>1. r \in HistoryIds
      BY DEF RetentionInv, HistoryTyped, SweepMemory
    <3>2. record[r] # "none" /\ \E u \in Recorded(past[r].device) : r < u
      BY <2>1 DEF RetentionInv, ListedIsNotLast
    <3> QED
      BY <1>3, <1>5, <3>1, <3>2 DEF Recorded
  <2> QED
    BY <1>1, <2>1 DEF ListedIsNotLast, Recorded
<1>9. ReferencedTasksStay' /\ PendingAlertsKeepRecord'
  BY <1>1, <1>5, <1>6 DEF RetentionInv, ReferencedTasksStay, PendingAlertsKeepRecord
<1> QED
  BY <1>4, <1>7, <1>8, <1>9 DEF RetentionInv

LEMMA ProcessPastAlertsKeeps ==
  ASSUME RetentionInv, NEW t \in HistoryIds, NEW alert \in BOOLEAN, ProcessPastAlerts(t, alert)
  PROVE  RetentionInv'
<1>1. /\ past' = [past EXCEPT ![t].alerts_processed = TRUE, ![t].pinned = @ \/ alert]
      /\ UNCHANGED <<record, sweep, by_hand>> /\ past[t].status = "finished"
  BY DEF ProcessPastAlerts
<1>2. /\ past' \in [HistoryIds -> PastRows]
      /\ \A u \in HistoryIds :
           /\ past'[u].device = past[u].device /\ past'[u].status = past[u].status
           /\ past[u].alerts_processed => past'[u].alerts_processed
  <2>1. past[t] \in PastRows
    BY DEF RetentionInv, HistoryTyped
  <2>2. PICK kept \in BOOLEAN :
          past' = [past EXCEPT ![t].alerts_processed = TRUE, ![t].pinned = kept]
    <3>1. (past[t].pinned \/ alert) \in BOOLEAN
      OBVIOUS
    <3>2. past' = [past EXCEPT ![t].alerts_processed = TRUE,
                               ![t].pinned = past[t].pinned \/ alert]
      BY <1>1
    <3> QED
      BY ONLY <3>1, <3>2
  <2>3. past \in [HistoryIds -> PastRows]
    BY DEF RetentionInv, HistoryTyped
  <2> QED
    BY ONLY <2>2, <2>3, t \in HistoryIds, ZenonT(60) DEF PastRows
<1>3. sweep' \in [Sweepers -> SweepMemory]
  BY <1>1 DEF RetentionInv, HistoryTyped
<1>4. \A u \in HistoryIds \ {t} : past'[u] = past[u]
  BY <1>1, Zenon DEF RetentionInv, HistoryTyped
<1> QED
  BY <1>1, <1>2, <1>3, <1>4, RecordsUntouched

\* An expired record that is not the newest has a later one of the same device.
LEMMA ListExpiredKeeps ==
  ASSUME RetentionInv, NEW w \in Sweepers, NEW s \in RetentionSettings, ListExpired(w, s)
  PROVE  RetentionInv'
<1>1. UNCHANGED <<past, record, by_hand>>
  BY DEF ListExpired
<1>2. listed(s) \subseteq {t \in HistoryIds : Expired(t, s)}
  BY DEF listed, FirstOf
<1>3. \A t \in listed(s) : /\ record[t] # "none"
                           /\ \E u \in Recorded(past[t].device) : t < u
  <2> SUFFICES ASSUME NEW t \in listed(s)
               PROVE  record[t] # "none" /\ \E u \in Recorded(past[t].device) : t < u
    OBVIOUS
  <2>1. t \in HistoryIds /\ record[t] = "stored" /\ ~ is_newest(t)
    BY <1>2 DEF Expired
  <2>2. PICK u \in Stored(past[t].device) : ~ (u <= t)
    BY <2>1 DEF is_newest
  <2>3. u \in Recorded(past[t].device) /\ t < u
    BY <2>1, <2>2, HistoryIdsTyped DEF Stored, Recorded
  <2> QED
    BY <2>1, <2>3
<1>4. sweep' = [sweep EXCEPT ![w] =
                  [stage |-> IF listed(s) = {} THEN "records" ELSE "deletion",
                   settings |-> sweep[w].settings \ {s}, ids |-> listed(s)]]
  BY DEF ListExpired
<1>5. sweep' \in [Sweepers -> SweepMemory]
  <2>1. listed(s) \in SUBSET HistoryIds
    BY <1>2
  <2> QED
    BY <1>4, <2>1 DEF RetentionInv, HistoryTyped, SweepMemory
<1>6. \A v \in Sweepers : sweep'[v].stage = "deletion" =>
        \/ sweep[v].stage = "deletion" /\ sweep'[v].ids \subseteq sweep[v].ids
        \/ \A t \in sweep'[v].ids : /\ record[t] # "none"
                                    /\ \E u \in Recorded(past[t].device) : t < u
  BY <1>3, <1>4 DEF RetentionInv, HistoryTyped
<1>7. past' \in [HistoryIds -> PastRows]
  BY <1>1 DEF RetentionInv, HistoryTyped
<1> QED
  BY <1>1, <1>5, <1>6, <1>7, RecordsUntouched

\* The last record of a device is not among those that were listed.
LEMMA DeleteExpiredKeeps ==
  ASSUME RetentionInv, NEW w \in Sweepers, DeleteExpired(w)
  PROVE  RetentionInv'
<1>1. /\ record' = [t \in HistoryIds |-> IF t \in deletable(w) THEN "gone" ELSE record[t]]
      /\ sweep' = [sweep EXCEPT ![w].stage = "records", ![w].ids = {}]
      /\ UNCHANGED <<past, by_hand>> /\ sweep[w].stage = "deletion"
  BY DEF DeleteExpired
<1>2. /\ sweep' \in [Sweepers -> SweepMemory] /\ sweep'[w].stage = "records"
      /\ \A x \in Sweepers \ {w} : sweep'[x] = sweep[x]
  <2>1. sweep \in [Sweepers -> SweepMemory]
    BY DEF RetentionInv, HistoryTyped
  <2> QED
    BY <1>1, <2>1 DEF SweepMemory
<1>3. HistoryTyped'
  BY <1>1, <1>2 DEF RetentionInv, HistoryTyped, deletable
<1>4. \A t \in HistoryIds :
        /\ record'[t] # "none" <=> record[t] # "none"
        /\ record'[t] = "stored" => record[t] = "stored"
        /\ record[t] = "stored" /\ t \notin sweep[w].ids => record'[t] = "stored"
  BY <1>1 DEF deletable
<1>5. LastRecordStands'
  <2>1. ASSUME NEW d \in RetainedAssets \ by_hand, NEW r \in HistoryIds,
               record'[r] # "none", past[r].device = d
        PROVE  \E u \in HistoryIds :
                 /\ record'[u] = "stored" /\ past[u].device = d
                 /\ \A v \in HistoryIds : record'[v] # "none" /\ past[v].device = d => v <= u
    <3>1. PICK u \in Stored(d) : \A v \in Recorded(d) : v <= u
      BY <1>4, <2>1 DEF RetentionInv, LastRecordStands, Recorded
    <3>2. u \in HistoryIds /\ record[u] = "stored" /\ past[u].device = d
      BY <3>1 DEF Stored
    <3>3. u \notin sweep[w].ids
      <4> SUFFICES ASSUME u \in sweep[w].ids PROVE FALSE
        OBVIOUS
      <4>1. PICK v \in Recorded(past[u].device) : u < v
        BY <1>1 DEF RetentionInv, ListedIsNotLast
      <4>2. v \in Recorded(d) /\ v \in HistoryIds
        BY <3>2, <4>1 DEF Recorded
      <4>3. u \in Nat /\ v \in Nat
        BY <3>2, <4>2, HistoryIdsTyped
      <4>4. v <= u
        BY <3>1, <4>2
      <4> QED
        BY <4>1, <4>3, <4>4
    <3> QED
      BY <1>4, <3>1, <3>2, <3>3 DEF Recorded
  <2> QED
    BY <1>1, <2>1 DEF LastRecordStands, Recorded, Stored
<1>6. ListedIsNotLast'
  <2>1. ASSUME NEW x \in Sweepers, sweep'[x].stage = "deletion", NEW r \in sweep'[x].ids
        PROVE  /\ record'[r] # "none"
               /\ \E u \in HistoryIds : /\ record'[u] # "none" /\ r < u
                                        /\ past[u].device = past[r].device
    <3>1. sweep'[x] = sweep[x]
      BY <1>2, <2>1 DEF RetentionInv, HistoryTyped
    <3>2. r \in HistoryIds
      BY <2>1, <3>1 DEF RetentionInv, HistoryTyped, SweepMemory
    <3>3. record[r] # "none" /\ \E u \in Recorded(past[r].device) : r < u
      BY <2>1, <3>1 DEF RetentionInv, ListedIsNotLast
    <3> QED
      BY <1>4, <3>2, <3>3 DEF Recorded
  <2> QED
    BY <1>1, <2>1 DEF ListedIsNotLast, Recorded
<1>7. ReferencedTasksStay' /\ PendingAlertsKeepRecord'
  <2>1. \A t \in HistoryIds : record'[t] = "gone" /\ record[t] # "gone" => past[t].alerts_processed
    BY <1>1 DEF deletable, alerts_complete
  <2> QED
    BY <1>1, <1>4, <2>1 DEF RetentionInv, ReferencedTasksStay, PendingAlertsKeepRecord
<1> QED
  BY <1>3, <1>5, <1>6, <1>7 DEF RetentionInv

LEMMA ListHistoryKeeps ==
  ASSUME RetentionInv, NEW w \in Sweepers, ListHistory(w)
  PROVE  RetentionInv'
<1>1. UNCHANGED <<past, record, by_hand>>
  BY DEF ListHistory
<1>2. sweep' = [sweep EXCEPT ![w].stage = "history", ![w].ids = FirstOf(OldTasks, HistoryLimit)]
  BY DEF ListHistory
<1>3. FirstOf(OldTasks, HistoryLimit) \in SUBSET HistoryIds
  BY DEF FirstOf, OldTasks
<1>4. past' \in [HistoryIds -> PastRows] /\ sweep \in [Sweepers -> SweepMemory]
  BY <1>1 DEF RetentionInv, HistoryTyped
<1>5. /\ sweep' \in [Sweepers -> SweepMemory] /\ sweep'[w].stage = "history"
      /\ \A v \in Sweepers \ {w} : sweep'[v] = sweep[v]
  BY <1>2, <1>3, <1>4 DEF SweepMemory
<1>6. \A v \in Sweepers : sweep'[v].stage = "deletion" =>
        sweep[v].stage = "deletion" /\ sweep'[v].ids \subseteq sweep[v].ids
  BY <1>5
<1> QED
  BY <1>1, <1>4, <1>5, <1>6, RecordsUntouched

LEMMA RemoveTaskKeeps ==
  ASSUME RetentionInv, NEW w \in Sweepers, RemoveTask(w)
  PROVE  RetentionInv'
<1>1. UNCHANGED <<record, by_hand>> /\ sweep[w].stage = "history"
  BY DEF RemoveTask
<1>2. CASE sweep[w].ids = {}
  <2>1. sweep' = [sweep EXCEPT ![w] = Begun] /\ past' = past
    BY <1>2 DEF RemoveTask
  <2>2. past' \in [HistoryIds -> PastRows] /\ sweep' \in [Sweepers -> SweepMemory]
    BY <2>1 DEF RetentionInv, HistoryTyped, Begun, SweepMemory
  <2>3. \A v \in Sweepers : sweep'[v].stage = "deletion" =>
          sweep[v].stage = "deletion" /\ sweep'[v].ids \subseteq sweep[v].ids
    BY <2>1 DEF RetentionInv, HistoryTyped, Begun
  <2> QED
    BY <1>1, <2>1, <2>2, <2>3, RecordsUntouched
<1>3. CASE sweep[w].ids # {}
  <2> DEFINE t == CHOOSE t \in sweep[w].ids : \A u \in sweep[w].ids : t <= u
  <2>1. /\ sweep' = [sweep EXCEPT ![w].ids = @ \ {t}]
        /\ past' = IF past[t].status = "finished" /\ ~ referenced(t)
                   THEN [past EXCEPT ![t].status = "removed"]
                   ELSE past
    BY <1>3 DEF RemoveTask
  <2> HIDE DEF t
  <2>2. sweep' \in [Sweepers -> SweepMemory]
    BY <2>1 DEF RetentionInv, HistoryTyped, SweepMemory
  <2>3. \A v \in Sweepers : sweep'[v].stage = "deletion" =>
          sweep[v].stage = "deletion" /\ sweep'[v].ids \subseteq sweep[v].ids
    BY <1>1, <2>1 DEF RetentionInv, HistoryTyped, SweepMemory
  <2>4. past' \in [HistoryIds -> PastRows]
    <3>1. past \in [HistoryIds -> PastRows]
      BY DEF RetentionInv, HistoryTyped
    <3> QED
      BY ONLY <2>1, <3>1, ZenonT(60) DEF PastRows
  <2>5. \A u \in HistoryIds :
          /\ past'[u].device = past[u].device
          /\ past'[u].status = "none" <=> past[u].status = "none"
          /\ past[u].alerts_processed => past'[u].alerts_processed
          /\ past'[u].status = "finished" => past[u].status = "finished"
          /\ record[u] = "stored" => past'[u].status = past[u].status
          /\ past'[u].pinned /\ past'[u].status = "removed"
               => past[u].pinned /\ past[u].status = "removed"
    <3>1. CASE past[t].status = "finished" /\ ~ referenced(t)
      BY <2>1, <3>1 DEF RetentionInv, HistoryTyped, PastRows, referenced
    <3>2. CASE ~ (past[t].status = "finished" /\ ~ referenced(t))
      BY <2>1, <3>2
    <3> QED
      BY <3>1, <3>2
  <2> QED
    BY <1>1, <2>2, <2>3, <2>4, <2>5, RecordsUntouched
<1> QED
  BY <1>2, <1>3

LEMMA SweepDiesKeeps ==
  ASSUME RetentionInv, NEW w \in Sweepers, SweepDies(w)
  PROVE  RetentionInv'
<1>1. UNCHANGED <<past, record, by_hand>> /\ sweep' = [sweep EXCEPT ![w] = Begun]
  BY DEF SweepDies
<1>2. past' \in [HistoryIds -> PastRows] /\ sweep' \in [Sweepers -> SweepMemory]
  BY <1>1 DEF RetentionInv, HistoryTyped, Begun, SweepMemory
<1>3. \A v \in Sweepers : sweep'[v].stage = "deletion" =>
        sweep[v].stage = "deletion" /\ sweep'[v].ids \subseteq sweep[v].ids
  BY <1>1 DEF RetentionInv, HistoryTyped, Begun
<1> QED
  BY <1>1, <1>2, <1>3, RecordsUntouched

\* A person takes a record of one device, which leaves the others as they are.
LEMMA RemoveByHandKeeps ==
  ASSUME RetentionInv, NEW t \in HistoryIds, RemoveByHand(t)
  PROVE  RetentionInv'
<1>1. /\ record' = [record EXCEPT ![t] = "gone"] /\ by_hand' = by_hand \cup {past[t].device}
      /\ UNCHANGED <<past, sweep>> /\ record[t] = "stored"
  BY DEF RemoveByHand
<1>2. HistoryTyped'
  BY <1>1 DEF RetentionInv, HistoryTyped
<1>3. /\ \A u \in HistoryIds : record'[u] # "none" <=> record[u] # "none"
      /\ \A u \in HistoryIds \ {t} : record'[u] = record[u]
      /\ record'[t] = "gone"
  BY <1>1 DEF RetentionInv, HistoryTyped
<1>4. LastRecordStands'
  <2>1. ASSUME NEW d \in RetainedAssets \ (by_hand \cup {past[t].device}), NEW r \in HistoryIds,
               record'[r] # "none", past[r].device = d
        PROVE  \E u \in HistoryIds :
                 /\ record'[u] = "stored" /\ past[u].device = d
                 /\ \A v \in HistoryIds : record'[v] # "none" /\ past[v].device = d => v <= u
    <3>1. PICK u \in Stored(d) : \A v \in Recorded(d) : v <= u
      BY <1>3, <2>1 DEF RetentionInv, LastRecordStands, Recorded
    <3>2. u \in HistoryIds \ {t} /\ record[u] = "stored" /\ past[u].device = d
      BY <3>1 DEF Stored
    <3> QED
      BY <1>3, <3>1, <3>2 DEF Recorded
  <2> QED
    BY <1>1, <2>1 DEF LastRecordStands, Recorded, Stored
<1>5. ListedIsNotLast'
  <2>1. ASSUME NEW x \in Sweepers, sweep[x].stage = "deletion", NEW r \in sweep[x].ids
        PROVE  /\ record'[r] # "none"
               /\ \E u \in HistoryIds : /\ record'[u] # "none" /\ r < u
                                        /\ past[u].device = past[r].device
    <3>1. r \in HistoryIds
      BY DEF RetentionInv, HistoryTyped, SweepMemory
    <3>2. record[r] # "none" /\ \E u \in Recorded(past[r].device) : r < u
      BY <2>1 DEF RetentionInv, ListedIsNotLast
    <3> QED
      BY <1>3, <3>1, <3>2 DEF Recorded
  <2> QED
    BY <1>1, <2>1 DEF ListedIsNotLast, Recorded
<1>6. ReferencedTasksStay' /\ PendingAlertsKeepRecord'
  BY <1>1, <1>3 DEF RetentionInv, ReferencedTasksStay, PendingAlertsKeepRecord
<1> QED
  BY <1>2, <1>4, <1>5, <1>6 DEF RetentionInv

LEMMA RetentionNextKeeps ==
  ASSUME RetentionInv, day \in Nat, [RetentionNext]_retentionVars
  PROVE  RetentionInv'
<1>1. ASSUME NEW t \in HistoryIds, NEW d \in RetainedAssets, NEW s \in RetentionSettings,
             NEW stored \in BOOLEAN, NEW pinned \in BOOLEAN, FinishTask(t, d, s, stored, pinned)
      PROVE  RetentionInv'
  BY <1>1, FinishTaskKeeps
<1>2. ASSUME NEW t \in HistoryIds, RemoveByHand(t) PROVE RetentionInv'
  BY <1>2, RemoveByHandKeeps
<1>3. ASSUME NEW t \in HistoryIds, NEW alert \in BOOLEAN, ProcessPastAlerts(t, alert)
      PROVE  RetentionInv'
  BY <1>3, ProcessPastAlertsKeeps
<1>4. ASSUME NEW w \in Sweepers, NEW s \in RetentionSettings, ListExpired(w, s)
      PROVE  RetentionInv'
  BY <1>4, ListExpiredKeeps
<1>5. ASSUME NEW w \in Sweepers, DeleteExpired(w) \/ ListHistory(w) \/ RemoveTask(w) \/ SweepDies(w)
      PROVE  RetentionInv'
  BY <1>5, DeleteExpiredKeeps, ListHistoryKeeps, RemoveTaskKeeps, SweepDiesKeeps
<1>6. ASSUME UNCHANGED <<past, record, sweep, by_hand>> PROVE RetentionInv'
  BY <1>6 DEF RetentionInv, HistoryTyped, LastRecordStands, ListedIsNotLast, ReferencedTasksStay,
              PendingAlertsKeepRecord, Recorded, Stored
<1> QED
  BY <1>1, <1>2, <1>3, <1>4, <1>5, <1>6 DEF RetentionNext, SweepStep, NextDay, retentionVars

\* What is finished has a device and a day that has come, and a sweep that lists has
\* nothing listed.
HistoryBounds ==
  /\ day \in 0 .. MaxDay /\ by_hand \subseteq RetainedAssets
  /\ \A t \in HistoryIds : past[t].status = "finished"
       => past[t].device \in RetainedAssets /\ past[t].finished_on <= day
  /\ \A w \in Sweepers : sweep[w].stage = "records" => sweep[w].ids = {}

LEMMA HistoryBoundsKeep ==
  ASSUME RetentionInv, HistoryBounds, [RetentionNext]_retentionVars
  PROVE  HistoryBounds'
<1> USE RetentionAssumption DEF RetentionAssumption
<1>0. /\ past \in [HistoryIds -> PastRows] /\ sweep \in [Sweepers -> SweepMemory]
      /\ \A t \in HistoryIds : record[t] = "stored" => past[t].status = "finished"
  BY DEF RetentionInv, HistoryTyped, ReferencedTasksStay
<1>1. ASSUME NEW t \in HistoryIds, NEW d \in RetainedAssets, NEW s \in RetentionSettings,
             NEW stored \in BOOLEAN, NEW pinned \in BOOLEAN, FinishTask(t, d, s, stored, pinned)
      PROVE  HistoryBounds'
  BY <1>0, <1>1 DEF FinishTask, HistoryBounds
<1>2. ASSUME NEW t \in HistoryIds, RemoveByHand(t) PROVE HistoryBounds'
  BY <1>0, <1>2 DEF RemoveByHand, HistoryBounds
<1>3. ASSUME NEW t \in HistoryIds, NEW alert \in BOOLEAN, ProcessPastAlerts(t, alert)
      PROVE  HistoryBounds'
  <2>1. \A u \in HistoryIds : /\ past'[u].status = past[u].status
                              /\ past'[u].device = past[u].device
                              /\ past'[u].finished_on = past[u].finished_on
    BY <1>0, <1>3 DEF ProcessPastAlerts, PastRows
  <2> QED
    BY <2>1, <1>3 DEF ProcessPastAlerts, HistoryBounds
<1>4. ASSUME NEW w \in Sweepers, NEW s \in RetentionSettings, ListExpired(w, s)
      PROVE  HistoryBounds'
  BY <1>0, <1>4 DEF ListExpired, HistoryBounds
<1>5. ASSUME NEW w \in Sweepers, DeleteExpired(w) \/ ListHistory(w) PROVE HistoryBounds'
  BY <1>0, <1>5 DEF DeleteExpired, ListHistory, HistoryBounds, SweepMemory
<1>6. ASSUME NEW w \in Sweepers, SweepDies(w) PROVE HistoryBounds'
  BY <1>0, <1>6 DEF SweepDies, HistoryBounds, Begun
<1>7. ASSUME NEW w \in Sweepers, RemoveTask(w) PROVE HistoryBounds'
  <2>1. \A u \in HistoryIds :
          past'[u].status = "finished" => past[u].status = "finished" /\ past'[u] = past[u]
    <3>1. PICK x : past' = past \/ past' = [past EXCEPT ![x].status = "removed"]
      BY <1>7 DEF RemoveTask
    <3> QED
      BY <1>0, <3>1 DEF PastRows
  <2>2. \A v \in Sweepers : sweep'[v].stage = "records" => sweep'[v].ids = {}
    BY <1>0, <1>7 DEF RemoveTask, HistoryBounds, Begun, SweepMemory
  <2> QED
    BY <2>1, <2>2, <1>7 DEF RemoveTask, HistoryBounds
<1>8. ASSUME NextDay PROVE HistoryBounds'
  BY <1>0, <1>8 DEF NextDay, HistoryBounds, PastRows
<1>9. ASSUME UNCHANGED retentionVars PROVE HistoryBounds'
  BY <1>9 DEF retentionVars, HistoryBounds
<1> QED
  BY <1>1, <1>2, <1>3, <1>4, <1>5, <1>6, <1>7, <1>8, <1>9 DEF RetentionNext, SweepStep

LEMMA HistoryInitBounds == RetentionInit => HistoryBounds
BY RetentionAssumption DEF RetentionAssumption, RetentionInit, HistoryBounds, NoPast, Begun

LEMMA HistoryInvTypes == RetentionInv /\ HistoryBounds => RetentionTypeOK
BY DEF RetentionInv, HistoryTyped, HistoryBounds, RetentionTypeOK, PastRows, SweepMemory

-----------------------------------------------------------------------------
\* However many Workers sweep at a time, and wherever one dies between listing and
\* deleting, a device keeps its last record, no record goes before its alerts are
\* processed, and no task goes that something refers to
\* (net/inspections/retention.py: the newest record is excluded when the rows are listed,
\* and the DELETE does not look again).
THEOREM RetentionTakesNothingNeeded ==
  RetentionSpec => []RetentionTypeOK /\ []NothingNeededGoes
<1>1. RetentionInit => RetentionInv /\ HistoryBounds
  BY RetentionInitHolds, HistoryInitBounds
<1>2. RetentionInv /\ HistoryBounds /\ [RetentionNext]_retentionVars
        => RetentionInv' /\ HistoryBounds'
  BY RetentionNextKeeps, HistoryBoundsKeep, RetentionAssumption
     DEF HistoryBounds, RetentionAssumption
<1>3. RetentionInv => NothingNeededGoes
  <2> SUFFICES ASSUME RetentionInv, NEW d \in RetainedAssets \ by_hand, NEW t \in HistoryIds,
                      record[t] = "gone", past[t].device = d
               PROVE  Stored(d) # {}
    BY DEF NothingNeededGoes, NewestRecordStays, RetentionInv
  <2> QED
    BY DEF RetentionInv, LastRecordStands, Recorded
<1>4. RetentionInv /\ HistoryBounds => RetentionTypeOK
  BY HistoryInvTypes
<1> QED
  BY <1>1, <1>2, <1>3, <1>4, PTL DEF RetentionSpec

-----------------------------------------------------------------------------
(* Schedules.                                                              *)

\* The next occurrence is later, and no sooner for a later time.
LEMMA OccurrenceIsLater ==
  ASSUME NEW s \in AllSchedules, NEW a \in Nat
  PROVE  next_occurrence(s, a) \in Nat /\ next_occurrence(s, a) > a
<1>1. /\ DayLength \in Nat \ {0} /\ TimingOf[s].value \in Nat
      /\ TimingOf[s].kind = "interval" => TimingOf[s].value > 0
  BY SchedulesAssumption DEF SchedulesAssumption
<1>2. (a \div DayLength) * DayLength \in Nat /\ a < (a \div DayLength) * DayLength + DayLength
  BY <1>1
<1> QED
  BY <1>1, <1>2 DEF next_occurrence

LEMMA OccurrencesInOrder ==
  ASSUME NEW s \in AllSchedules, NEW a \in Nat, NEW b \in Nat, a <= b
  PROVE  next_occurrence(s, a) <= next_occurrence(s, b)
<1> DEFINE m == a \div DayLength
           n == b \div DayLength
<1>1. DayLength \in Nat \ {0} /\ TimingOf[s].value \in Nat
  BY SchedulesAssumption DEF SchedulesAssumption
<1>2. m \in Nat /\ n \in Nat /\ m <= n
  BY <1>1
<1>3. m * DayLength \in Nat /\ n * DayLength \in Nat
  BY <1>1, <1>2
<1>4. m = n \/ m * DayLength + DayLength <= n * DayLength
  <2>1. CASE m # n
    <3>1. PICK r \in Nat : n = m + 1 + r
      <4>1. n - m - 1 \in Nat
        BY <1>2, <2>1
      <4> QED
        BY <1>2, <4>1
    <3>2. n * DayLength = m * DayLength + DayLength + r * DayLength
      BY <1>1, <1>2, <3>1
    <3>3. r * DayLength >= 0
      BY <1>1
    <3> QED
      BY <1>1, <1>3, <3>2, <3>3
  <2> QED
    BY <2>1
<1> HIDE DEF m, n
<1>5. \A x \in Nat : next_occurrence(s, x) =
        LET day_of == (x \div DayLength) * DayLength + TimingOf[s].value
        IN IF TimingOf[s].kind = "interval" THEN x + TimingOf[s].value
           ELSE IF day_of <= x THEN day_of + DayLength ELSE day_of
  BY DEF next_occurrence
<1>6. CASE TimingOf[s].kind = "interval"
  BY <1>1, <1>5, <1>6
<1>7. CASE TimingOf[s].kind # "interval"
  <2>1. next_occurrence(s, a) = IF m * DayLength + TimingOf[s].value <= a
                                THEN m * DayLength + TimingOf[s].value + DayLength
                                ELSE m * DayLength + TimingOf[s].value
    BY <1>5, <1>7 DEF m
  <2>2. next_occurrence(s, b) = IF n * DayLength + TimingOf[s].value <= b
                                THEN n * DayLength + TimingOf[s].value + DayLength
                                ELSE n * DayLength + TimingOf[s].value
    BY <1>5, <1>7 DEF n
  <2> QED
    BY <1>1, <1>3, <1>4, <2>1, <2>2
<1> QED
  BY <1>6, <1>7

Polls  == [stage : {"idle", "poll", "refused", "classified"}, now : Nat,
           due : SUBSET AllSchedules, refused : SUBSET AllSchedules, blocked : BOOLEAN]
Drafts == {NoDraft} \cup [open : {TRUE}, schedule : DeviceSchedules, row : Row]

SchedulesTyped ==
  /\ schedule \in [AllSchedules -> Row]
  /\ poll \in [Pollers -> Polls]
  /\ draft \in [Editors -> Drafts]
  /\ runs \in [AllSchedules -> Nat \X Nat]
  /\ deployment.schedules \subseteq AllSchedules
  /\ poll_clock \in Nat

\* A Worker's clock was read in the past.
PollsAreOld == \A p \in Pollers : poll[p].now <= poll_clock

\* A row, stored or read by a form, expects nothing before the occurrence after its
\* last task, and a refusal it records is no older than that occurrence.
RowExpects(s, row, now) ==
  /\ row.last_enqueued_at <= now
  /\ row.last_enqueued_at # 0
       => next_occurrence(s, row.last_enqueued_at) <= row.next_run_at
  /\ row.last_status \in {"blocked", "error"} /\ row.last_enqueued_at # 0
       => next_occurrence(s, row.last_enqueued_at) <= row.last_attempt_at

DeviceRowsExpect ==
  /\ \A s \in DeviceSchedules : RowExpects(s, schedule[s], poll_clock)
  /\ \A e \in Editors : draft[e].open =>
       RowExpects(draft[e].schedule, draft[e].row, poll_clock)

\* A bound schedule that is switched on is not due again for the occurrence of its
\* last task.
BoundRowsExpect ==
  \A s \in BoundSchedules :
    /\ runs[s][2] <= poll_clock
    /\ schedule[s].enabled /\ runs[s][2] # 0
         => next_occurrence(s, runs[s][2]) <= schedule[s].next_run_at

SchedulesInv ==
  SchedulesTyped /\ PollsAreOld /\ DeviceRowsExpect /\ BoundRowsExpect /\ BoundRunsAreSpaced

\* An open form has read the row of a device schedule.
LEMMA OpenDraft ==
  ASSUME SchedulesInv, NEW e \in Editors, draft[e].open
  PROVE  draft[e].schedule \in DeviceSchedules /\ draft[e].row \in Row
<1>1. draft[e] \in {NoDraft} \cup [open : {TRUE}, schedule : DeviceSchedules, row : Row]
  BY DEF SchedulesInv, SchedulesTyped, Drafts
<1>2. draft[e] # NoDraft
  BY DEF NoDraft
<1> QED
  BY <1>1, <1>2

LEMMA SchedulesInitHolds == SchedulesInit => SchedulesInv
<1> SUFFICES ASSUME SchedulesInit PROVE SchedulesInv
  OBVIOUS
<1>1. SchedulesTyped
  <2>1. deployment.schedules \subseteq AllSchedules
    BY SchedulesAssumption DEF SchedulesInit, SchedulesAssumption
  <2>2. Idle \in Polls /\ NoDraft \in Drafts
    BY DEF Idle, Polls, Drafts
  <2> QED
    BY <2>1, <2>2 DEF SchedulesInit, SchedulesTyped, Row
<1>2. /\ poll_clock = 1 /\ \A p \in Pollers : poll[p].now = 0
      /\ \A e \in Editors : ~ draft[e].open
      /\ \A s \in AllSchedules : runs[s] = <<0, 0>> /\ schedule[s].last_enqueued_at = 0
  <2>1. \A p \in Pollers : poll[p] = Idle
    BY DEF SchedulesInit
  <2>2. \A e \in Editors : draft[e] = NoDraft
    BY DEF SchedulesInit
  <2>3. poll_clock = 1 /\ \A s \in AllSchedules : runs[s] = <<0, 0>>
    BY DEF SchedulesInit
  <2>4. \A s \in AllSchedules : schedule[s].last_enqueued_at = 0
    BY DEF SchedulesInit
  <2> QED
    BY <2>1, <2>2, <2>3, <2>4 DEF Idle, NoDraft
<1>3. PollsAreOld /\ DeviceRowsExpect
  BY <1>2 DEF PollsAreOld, DeviceRowsExpect, RowExpects, AllSchedules
<1>4. BoundRowsExpect /\ BoundRunsAreSpaced
  BY <1>2 DEF BoundRowsExpect, BoundRunsAreSpaced, Spaced, AllSchedules
<1> QED
  BY <1>1, <1>3, <1>4 DEF SchedulesInv

\* Steps that leave the rows as they are.
LEMMA RowsUntouched ==
  ASSUME SchedulesInv, schedule' = schedule, runs' = runs, deployment' = deployment,
         poll_clock' \in Nat, poll_clock <= poll_clock',
         poll' \in [Pollers -> Polls], \A p \in Pollers : poll'[p].now <= poll_clock',
         draft' \in [Editors -> Drafts],
         \A e \in Editors : draft'[e].open =>
           \/ draft'[e] = draft[e]
           \/ /\ draft'[e].schedule \in DeviceSchedules
              /\ draft'[e].row = schedule[draft'[e].schedule]
  PROVE  SchedulesInv'
<1>1. SchedulesTyped'
  BY DEF SchedulesInv, SchedulesTyped
<1>2. PollsAreOld'
  BY DEF PollsAreOld
<1>3. \A s, row : row.last_enqueued_at \in Nat /\ RowExpects(s, row, poll_clock)
        => RowExpects(s, row, poll_clock')
  BY DEF SchedulesInv, SchedulesTyped, RowExpects
<1>4. \A s \in DeviceSchedules : RowExpects(s, schedule[s], poll_clock')
  <2>1. \A s \in DeviceSchedules : schedule[s].last_enqueued_at \in Nat
    BY DEF SchedulesInv, SchedulesTyped, Row, AllSchedules
  <2> QED
    BY <1>3, <2>1 DEF SchedulesInv, DeviceRowsExpect
<1>5. ASSUME NEW e \in Editors, draft'[e].open
      PROVE  RowExpects(draft'[e].schedule, draft'[e].row, poll_clock')
  <2>1. CASE draft'[e] = draft[e]
    <3>1. RowExpects(draft[e].schedule, draft[e].row, poll_clock)
      BY <1>5, <2>1 DEF SchedulesInv, DeviceRowsExpect
    <3>2. draft[e].row.last_enqueued_at \in Nat
      BY <1>5, <2>1, OpenDraft DEF Row
    <3> QED
      BY <1>3, <2>1, <3>1, <3>2
  <2>2. CASE draft'[e].schedule \in DeviceSchedules /\ draft'[e].row = schedule[draft'[e].schedule]
    BY <1>4, <2>2
  <2> QED
    BY <1>5, <2>1, <2>2
<1>6. DeviceRowsExpect'
  BY <1>4, <1>5 DEF DeviceRowsExpect
<1>7. BoundRowsExpect' /\ BoundRunsAreSpaced'
  <2>1. \A s \in BoundSchedules : runs[s][2] \in Nat
    BY DEF SchedulesInv, SchedulesTyped, AllSchedules
  <2> QED
    BY <2>1 DEF SchedulesInv, SchedulesTyped, BoundRowsExpect, BoundRunsAreSpaced, Spaced
<1> QED
  BY <1>1, <1>2, <1>6, <1>7 DEF SchedulesInv

\* The steps of a poll that only change what the Worker remembers.
LEMMA PollMemoryKeeps ==
  ASSUME SchedulesInv, NEW p \in Pollers,
         ListDue(p) \/ Classify(p) \/ EndPoll(p) \/ PollerDies(p)
  PROVE  SchedulesInv'
<1>1. UNCHANGED <<deployment, schedule, poll_clock, draft, runs>>
  BY DEF ListDue, Classify, EndPoll, PollerDies
<1>2. poll \in [Pollers -> Polls] /\ poll_clock \in Nat /\ draft \in [Editors -> Drafts]
  BY DEF SchedulesInv, SchedulesTyped
<1>3. Idle \in Polls /\ Idle.now = 0
  BY DEF Idle, Polls
<1>4. poll' \in [Pollers -> Polls] /\ \A q \in Pollers : poll'[q].now <= poll_clock
  <2>1. CASE ListDue(p)
    <3> DEFINE late == {s \in deployment.schedules :
                         schedule[s].enabled /\ is_due(schedule[s], poll_clock)}
               begun == [Idle EXCEPT !.stage = "poll", !.now = poll_clock, !.due = late]
    <3>1. late \in SUBSET AllSchedules
      BY DEF SchedulesInv, SchedulesTyped
    <3>2. poll' = [poll EXCEPT ![p] = begun]
      BY <2>1 DEF ListDue
    <3> HIDE DEF late
    <3>3. begun \in Polls /\ begun.now = poll_clock
      BY <1>2, <1>3, <3>1 DEF Polls
    <3> HIDE DEF begun
    <3> QED
      BY <1>2, <3>2, <3>3 DEF SchedulesInv, PollsAreOld
  <2>2. CASE Classify(p)
    <3>1. PICK s \in poll[p].refused :
            poll' = [poll EXCEPT ![p].stage = "classified",
                                 ![p].blocked = has_active_schedule_scope(s)]
      BY <2>2 DEF Classify
    <3>2. has_active_schedule_scope(s) \in BOOLEAN
      BY DEF has_active_schedule_scope
    <3>3. PICK blocked \in BOOLEAN :
            poll' = [poll EXCEPT ![p].stage = "classified", ![p].blocked = blocked]
      BY ONLY <3>1, <3>2
    <3>4. /\ poll' \in [Pollers -> Polls]
          /\ \A q \in Pollers : poll'[q].now = poll[q].now
      BY ONLY <1>2, <3>3, p \in Pollers, ZenonT(60) DEF Polls
    <3> QED
      BY <3>4 DEF SchedulesInv, PollsAreOld
  <2>3. CASE EndPoll(p) \/ PollerDies(p)
    <3>1. poll' = [poll EXCEPT ![p] = Idle]
      BY <2>3 DEF EndPoll, PollerDies
    <3> QED
      BY <1>2, <1>3, <3>1 DEF SchedulesInv, PollsAreOld
  <2> QED
    BY <2>1, <2>2, <2>3
<1> QED
  BY <1>1, <1>2, <1>4, RowsUntouched

\* The steps around the schedules: nothing that belongs to a row changes.
LEMMA SurroundingsKeep ==
  ASSUME SchedulesInv, UNCHANGED <<deployment, schedule, poll, draft, runs>>,
         poll_clock' \in {poll_clock, poll_clock + 1}
  PROVE  SchedulesInv'
<1>1. /\ poll' \in [Pollers -> Polls] /\ draft' \in [Editors -> Drafts]
      /\ poll_clock \in Nat /\ poll_clock' \in Nat /\ poll_clock <= poll_clock'
  BY DEF SchedulesInv, SchedulesTyped
<1>2. \A p \in Pollers : poll'[p].now <= poll_clock'
  <2>1. \A p \in Pollers : poll[p].now \in Nat
    BY <1>1 DEF SchedulesInv, SchedulesTyped, Polls
  <2> QED
    BY <1>1, <2>1 DEF SchedulesInv, PollsAreOld
<1> QED
  BY <1>1, <1>2, RowsUntouched

LEMMA OpenEditKeeps ==
  ASSUME SchedulesInv, NEW e \in Editors, NEW s \in DeviceSchedules, OpenEdit(e, s)
  PROVE  SchedulesInv'
<1>1. /\ UNCHANGED <<deployment, schedule, poll_clock, poll, runs>>
      /\ draft' = [draft EXCEPT ![e] = [open |-> TRUE, schedule |-> s, row |-> schedule[s]]]
  BY DEF OpenEdit
<1>2. /\ draft \in [Editors -> Drafts] /\ schedule[s] \in Row
      /\ poll' \in [Pollers -> Polls] /\ poll_clock \in Nat
  BY <1>1 DEF SchedulesInv, SchedulesTyped, AllSchedules
<1>3. [open |-> TRUE, schedule |-> s, row |-> schedule[s]] \in Drafts
  BY <1>2 DEF Drafts
<1>4. /\ draft' \in [Editors -> Drafts]
      /\ \A f \in Editors : draft'[f].open =>
           \/ draft'[f] = draft[f]
           \/ /\ draft'[f].schedule \in DeviceSchedules
              /\ draft'[f].row = schedule[draft'[f].schedule]
  BY <1>1, <1>2, <1>3
<1> QED
  BY <1>1, <1>2, <1>4, RowsUntouched DEF SchedulesInv, PollsAreOld

\* A step that writes one row: what has to be shown of it.
LEMMA RowWritten ==
  ASSUME SchedulesInv, NEW s \in AllSchedules, NEW row \in Row,
         schedule' = [schedule EXCEPT ![s] = row],
         deployment' = deployment, poll_clock' = poll_clock,
         poll' \in [Pollers -> Polls], \A p \in Pollers : poll'[p].now = poll[p].now,
         draft' \in [Editors -> Drafts],
         \A e \in Editors : draft'[e].open => draft'[e] = draft[e],
         runs' \in [AllSchedules -> Nat \X Nat],
         \A r \in AllSchedules : r # s => runs'[r] = runs[r],
         s \in DeviceSchedules => RowExpects(s, row, poll_clock),
         s \in BoundSchedules =>
           /\ runs'[s][2] <= poll_clock
           /\ row.enabled /\ runs'[s][2] # 0
                => next_occurrence(s, runs'[s][2]) <= row.next_run_at
           /\ runs'[s][1] # 0 => next_occurrence(s, runs'[s][1]) <= runs'[s][2]
  PROVE  SchedulesInv'
<1>1. SchedulesTyped'
  BY DEF SchedulesInv, SchedulesTyped
<1>2. PollsAreOld'
  BY DEF SchedulesInv, PollsAreOld
<1>3. schedule'[s] = row /\ \A r \in AllSchedules : r # s => schedule'[r] = schedule[r]
  BY DEF SchedulesInv, SchedulesTyped
<1>4. DeviceRowsExpect'
  <2>1. \A r \in DeviceSchedules : RowExpects(r, schedule'[r], poll_clock)
    BY <1>3 DEF SchedulesInv, DeviceRowsExpect, AllSchedules
  <2>2. \A e \in Editors : draft'[e].open =>
          RowExpects(draft'[e].schedule, draft'[e].row, poll_clock)
    BY DEF SchedulesInv, DeviceRowsExpect
  <2> QED
    BY <2>1, <2>2 DEF DeviceRowsExpect
<1>5. BoundRowsExpect' /\ BoundRunsAreSpaced'
  BY <1>3 DEF SchedulesInv, BoundRowsExpect, BoundRunsAreSpaced, Spaced, AllSchedules
<1> QED
  BY <1>1, <1>2, <1>4, <1>5 DEF SchedulesInv

EnqueuedRow(row, next, now) ==
  [row EXCEPT !.next_run_at = next, !.last_enqueued_at = now, !.last_attempt_at = now,
              !.last_status = "queued"]

\* The row is due under its lock, so the occurrence after the last task has come.
LEMMA EnqueueDueKeeps ==
  ASSUME SchedulesInv, NEW p \in Pollers, NEW s \in AllSchedules, EnqueueDue(p, s)
  PROVE  SchedulesInv'
<1> DEFINE now == poll[p].now
<1>1. /\ poll \in [Pollers -> Polls] /\ schedule[s] \in Row /\ runs[s] \in Nat \X Nat
      /\ draft \in [Editors -> Drafts] /\ poll_clock \in Nat /\ now \in Nat
      /\ now <= poll_clock /\ runs \in [AllSchedules -> Nat \X Nat]
      /\ schedule \in [AllSchedules -> Row]
  BY DEF SchedulesInv, SchedulesTyped, PollsAreOld, Polls
<1>2. UNCHANGED <<deployment, poll_clock, draft>>
  BY DEF EnqueueDue
<1>3. /\ poll' \in [Pollers -> Polls]
      /\ \A q \in Pollers : poll'[q].now = poll[q].now
  <2>1. \/ poll' = [poll EXCEPT ![p].due = @ \ {s}]
        \/ poll' = [poll EXCEPT ![p].stage = "refused", ![p].refused = {s},
                                ![p].due = after_refusal(p, s)]
    BY DEF EnqueueDue
  <2>2. poll[p].due \ {s} \in SUBSET AllSchedules
    BY <1>1 DEF Polls
  <2>3. CASE poll' = [poll EXCEPT ![p].due = @ \ {s}]
    <3>1. poll \in [Pollers -> Polls]
      BY <1>1
    <3> QED
      BY ONLY <2>2, <2>3, <3>1, p \in Pollers DEF Polls
  <2>4. CASE poll' = [poll EXCEPT ![p].stage = "refused", ![p].refused = {s},
                                  ![p].due = after_refusal(p, s)]
    <3>1. {s} \in SUBSET AllSchedules
      OBVIOUS
    <3>2. PICK one \in SUBSET AllSchedules, left \in SUBSET AllSchedules :
            poll' = [poll EXCEPT ![p].stage = "refused", ![p].refused = one, ![p].due = left]
      BY <2>2, <2>4, <3>1 DEF after_refusal
    <3>3. poll \in [Pollers -> Polls]
      BY <1>1
    <3> QED
      BY ONLY <3>2, <3>3, p \in Pollers, ZenonT(60) DEF Polls
  <2> QED
    BY <2>1, <2>3, <2>4
<1>4. CASE UNCHANGED <<schedule, runs>>
  <2>1. \A q \in Pollers : poll'[q].now <= poll_clock'
    BY <1>2, <1>3 DEF SchedulesInv, PollsAreOld
  <2> QED
    BY <1>1, <1>2, <1>3, <1>4, <2>1, RowsUntouched
<1>5. CASE ~ UNCHANGED <<schedule, runs>>
  <2> DEFINE new == EnqueuedRow(schedule[s], next_occurrence(s, now), now)
  <2>1. /\ row_is_due(schedule[s], now) /\ schedule' = [schedule EXCEPT ![s] = new]
        /\ runs' = [runs EXCEPT ![s] = <<runs[s][2], now>>]
    BY <1>5 DEF EnqueueDue, EnqueuedRow
  <2>2. next_occurrence(s, now) \in Nat /\ next_occurrence(s, now) > now
    BY <1>1, OccurrenceIsLater
  <2>3. /\ new \in Row /\ new.next_run_at = next_occurrence(s, now)
        /\ new.last_enqueued_at = now /\ new.last_status = "queued"
    BY <1>1, <2>2 DEF Row, EnqueuedRow
  <2> HIDE DEF new
  <2>4. s \in DeviceSchedules => RowExpects(s, new, poll_clock)
    BY <1>1, <2>2, <2>3 DEF RowExpects
  <2>5. runs' \in [AllSchedules -> Nat \X Nat] /\ runs'[s] = <<runs[s][2], now>>
        /\ \A r \in AllSchedules : r # s => runs'[r] = runs[r]
    BY <1>1, <2>1
  <2>6. s \in BoundSchedules /\ runs[s][2] # 0 => next_occurrence(s, runs[s][2]) <= now
    <3>1. schedule[s].enabled /\ is_due(schedule[s], now)
      BY <2>1 DEF row_is_due
    <3>2. runs[s][2] \in Nat /\ schedule[s].next_run_at \in Nat
      BY <1>1 DEF Row
    <3>3. next_occurrence(s, runs[s][2]) \in Nat /\ next_occurrence(s, runs[s][2]) > runs[s][2]
      BY <3>2, OccurrenceIsLater
    <3> QED
      BY <1>1, <3>1, <3>2, <3>3 DEF is_due, SchedulesInv, BoundRowsExpect
  <2>7. s \in BoundSchedules =>
           /\ runs'[s][2] <= poll_clock
           /\ new.enabled /\ runs'[s][2] # 0
                => next_occurrence(s, runs'[s][2]) <= new.next_run_at
           /\ runs'[s][1] # 0 => next_occurrence(s, runs'[s][1]) <= runs'[s][2]
    BY <1>1, <2>2, <2>3, <2>5, <2>6
  <2>8. \A e \in Editors : draft'[e].open => draft'[e] = draft[e]
    BY <1>2
  <2>9. draft' \in [Editors -> Drafts]
    BY <1>1, <1>2
  <2> QED
    BY <1>2, <1>3, <2>1, <2>3, <2>4, <2>5, <2>7, <2>8, <2>9, RowWritten
<1> QED
  BY <1>4, <1>5

\* A refusal is recorded of a row that is due, so after the occurrence it expects.
LEMMA RecordFailureKeeps ==
  ASSUME SchedulesInv, NEW p \in Pollers, RecordFailure(p)
  PROVE  SchedulesInv'
<1> DEFINE now == poll[p].now
           Refused(row) == [row EXCEPT !.last_attempt_at = now,
                                       !.last_status = refusal_status(poll[p].blocked)]
           new(row) == IF still_current(row, now) THEN Refused(row) ELSE row
<1>1. /\ poll \in [Pollers -> Polls] /\ schedule \in [AllSchedules -> Row]
      /\ draft \in [Editors -> Drafts] /\ poll_clock \in Nat /\ now \in Nat
      /\ runs \in [AllSchedules -> Nat \X Nat]
  BY DEF SchedulesInv, SchedulesTyped, Polls
<1>2. /\ UNCHANGED <<deployment, poll_clock, draft, runs>>
      /\ poll' = [poll EXCEPT ![p].stage = "poll", ![p].refused = {}, ![p].blocked = FALSE]
  BY DEF RecordFailure
<1>3. PICK s \in poll[p].refused : schedule' = [schedule EXCEPT ![s] = new(schedule[s])]
  BY DEF RecordFailure
<1>4. s \in AllSchedules /\ schedule[s] \in Row
  BY <1>1 DEF Polls
<1>5. /\ poll' \in [Pollers -> Polls]
      /\ \A q \in Pollers : poll'[q].now = poll[q].now
  BY <1>1, <1>2 DEF Polls
<1>6. /\ Refused(schedule[s]) \in Row
      /\ Refused(schedule[s]).next_run_at = schedule[s].next_run_at
      /\ Refused(schedule[s]).last_enqueued_at = schedule[s].last_enqueued_at
      /\ Refused(schedule[s]).last_attempt_at = now
      /\ Refused(schedule[s]).enabled = schedule[s].enabled
  <2>1. refusal_status(poll[p].blocked) \in {"blocked", "error"}
    BY DEF refusal_status
  <2> QED
    BY <1>1, <1>4, <2>1 DEF Row
<1> HIDE DEF Refused
<1>7. /\ new(schedule[s]) \in Row
      /\ new(schedule[s]).next_run_at = schedule[s].next_run_at
      /\ new(schedule[s]).last_enqueued_at = schedule[s].last_enqueued_at
      /\ new(schedule[s]).enabled = schedule[s].enabled
  BY <1>4, <1>6
<1>8. s \in DeviceSchedules => RowExpects(s, new(schedule[s]), poll_clock)
  <2> SUFFICES ASSUME s \in DeviceSchedules PROVE RowExpects(s, new(schedule[s]), poll_clock)
    OBVIOUS
  <2>1. RowExpects(s, schedule[s], poll_clock)
    BY DEF SchedulesInv, DeviceRowsExpect
  <2>2. /\ schedule[s].last_enqueued_at \in Nat /\ schedule[s].next_run_at \in Nat
    BY <1>4 DEF Row
  <2>3. CASE still_current(schedule[s], now)
    <3>1. /\ next_occurrence(s, schedule[s].last_enqueued_at) \in Nat
          /\ next_occurrence(s, schedule[s].last_enqueued_at) > schedule[s].last_enqueued_at
      BY <1>4, <2>2, OccurrenceIsLater
    <3>2. schedule[s].next_run_at = 0 \/ schedule[s].next_run_at <= now
      BY <2>3 DEF still_current, is_due
    <3>3. new(schedule[s]) = Refused(schedule[s])
      BY <2>3
    <3> QED
      BY <1>1, <1>6, <2>1, <2>2, <3>1, <3>2, <3>3 DEF RowExpects
  <2>4. CASE ~ still_current(schedule[s], now)
    BY <2>1, <2>4
  <2> QED
    BY <2>3, <2>4
<1> HIDE DEF new
<1>9. s \in BoundSchedules =>
         /\ runs'[s][2] <= poll_clock
         /\ new(schedule[s]).enabled /\ runs'[s][2] # 0
              => next_occurrence(s, runs'[s][2]) <= new(schedule[s]).next_run_at
         /\ runs'[s][1] # 0 => next_occurrence(s, runs'[s][1]) <= runs'[s][2]
  BY <1>2, <1>7 DEF SchedulesInv, BoundRowsExpect, BoundRunsAreSpaced, Spaced
<1>10. \A e \in Editors : draft'[e].open => draft'[e] = draft[e]
  BY <1>2
<1>11. draft' \in [Editors -> Drafts] /\ runs' \in [AllSchedules -> Nat \X Nat]
  BY <1>1, <1>2
<1> QED
  BY <1>2, <1>3, <1>4, <1>5, <1>7, <1>8, <1>9, <1>10, <1>11, RowWritten

\* A form writes a row as it was read, or moves it past the present.
LEMMA SaveEditKeeps ==
  ASSUME SchedulesInv, NEW e \in Editors, NEW on \in BOOLEAN, SaveEdit(e, on)
  PROVE  SchedulesInv'
<1> DEFINE s == draft[e].schedule
           d == draft[e].row
           next == next_occurrence(s, poll_clock)
           off(row) == IF d.enabled THEN [row EXCEPT !.enabled = FALSE] ELSE row
           back == IF d.enabled THEN d
                   ELSE [d EXCEPT !.enabled = TRUE, !.next_run_at = next]
           new == IF ~ on THEN off(schedule[s]) ELSE back
<1>1. /\ poll \in [Pollers -> Polls] /\ schedule \in [AllSchedules -> Row]
      /\ draft \in [Editors -> Drafts] /\ poll_clock \in Nat
      /\ runs \in [AllSchedules -> Nat \X Nat]
  BY DEF SchedulesInv, SchedulesTyped
<1>2. /\ UNCHANGED <<deployment, poll_clock, poll, runs>> /\ draft[e].open
      /\ draft' = [draft EXCEPT ![e] = NoDraft] /\ schedule' = [schedule EXCEPT ![s] = new]
  BY DEF SaveEdit
<1>3. s \in DeviceSchedules /\ d \in Row /\ s \in AllSchedules
  BY <1>2, OpenDraft DEF AllSchedules
<1>4. RowExpects(s, d, poll_clock) /\ RowExpects(s, schedule[s], poll_clock)
  BY <1>2, <1>3 DEF SchedulesInv, DeviceRowsExpect
<1>5. schedule[s] \in Row /\ s \notin BoundSchedules
  BY <1>1, <1>3, SchedulesAssumption DEF SchedulesAssumption
<1>6. next \in Nat /\ \A a \in Nat : a <= poll_clock => next_occurrence(s, a) <= next
  BY <1>1, <1>3, OccurrenceIsLater, OccurrencesInOrder
<1>7. \A a \in Nat : next_occurrence(s, a) \in Nat
  BY <1>3, OccurrenceIsLater
<1> HIDE DEF next
<1>8. back \in Row /\ RowExpects(s, back, poll_clock)
  <2>1. CASE d.enabled
    BY <1>3, <1>4, <2>1
  <2>2. CASE ~ d.enabled
    <3>1. back = [d EXCEPT !.enabled = TRUE, !.next_run_at = next]
      BY <2>2
    <3> HIDE DEF back, d, s
    <3>2. /\ back \in Row /\ back.next_run_at = next
          /\ back.last_enqueued_at = d.last_enqueued_at
          /\ back.last_attempt_at = d.last_attempt_at /\ back.last_status = d.last_status
      BY <1>3, <1>6, <3>1 DEF Row
    <3>3. d.last_enqueued_at \in Nat
      BY <1>3 DEF Row
    <3> QED
      BY <1>1, <1>4, <1>6, <3>2, <3>3 DEF RowExpects
  <2> QED
    BY <2>1, <2>2
<1>9. off(schedule[s]) \in Row /\ RowExpects(s, off(schedule[s]), poll_clock)
  <2>1. CASE d.enabled
    <3>1. off(schedule[s]) = [schedule[s] EXCEPT !.enabled = FALSE]
      BY <2>1
    <3> HIDE DEF off, d, s
    <3> QED
      BY <1>4, <1>5, <3>1 DEF Row, RowExpects
  <2>2. CASE ~ d.enabled
    BY <1>4, <1>5, <2>2
  <2> QED
    BY <2>1, <2>2
<1> HIDE DEF back, off
<1>10. new \in Row /\ RowExpects(s, new, poll_clock)
  BY <1>8, <1>9
<1>11. /\ draft' \in [Editors -> Drafts]
       /\ \A f \in Editors : draft'[f].open => draft'[f] = draft[f]
  BY <1>1, <1>2 DEF Drafts, NoDraft
<1>12. /\ poll' \in [Pollers -> Polls] /\ runs' \in [AllSchedules -> Nat \X Nat]
       /\ \A p \in Pollers : poll'[p].now = poll[p].now
       /\ \A r \in AllSchedules : r # s => runs'[r] = runs[r]
  BY <1>1, <1>2
<1> HIDE DEF new, d, s
<1> QED
  BY <1>2, <1>3, <1>5, <1>10, <1>11, <1>12, RowWritten

\* The next time a form gives a bound schedule lies after everything enqueued.
LEMMA EditBoundKeeps ==
  ASSUME SchedulesInv, NEW s \in BoundSchedules, NEW on \in BOOLEAN, EditBound(s, on)
  PROVE  SchedulesInv'
<1> DEFINE time == IF on THEN next_occurrence(s, poll_clock) ELSE 0
           new == [schedule[s] EXCEPT !.enabled = on, !.next_run_at = time]
<1>1. /\ poll \in [Pollers -> Polls] /\ schedule \in [AllSchedules -> Row]
      /\ draft \in [Editors -> Drafts] /\ poll_clock \in Nat
      /\ runs \in [AllSchedules -> Nat \X Nat]
  BY DEF SchedulesInv, SchedulesTyped
<1>2. /\ UNCHANGED <<deployment, poll_clock, poll, draft, runs>>
      /\ schedule' = [schedule EXCEPT ![s].enabled = on, ![s].next_run_at = time]
  BY DEF EditBound
<1>3. s \in AllSchedules /\ schedule[s] \in Row /\ s \notin DeviceSchedules
  BY <1>1, SchedulesAssumption DEF SchedulesAssumption, AllSchedules
<1>4. schedule' = [schedule EXCEPT ![s] = new]
  BY <1>1, <1>2, <1>3
<1>5. time \in Nat /\ (on => time = next_occurrence(s, poll_clock))
  BY <1>1, <1>3, OccurrenceIsLater
<1> HIDE DEF time
<1>6. new \in Row /\ new.enabled = on /\ new.next_run_at = time
  BY <1>3, <1>5 DEF Row
<1> HIDE DEF new
<1>7. /\ runs[s][2] \in Nat /\ runs[s][2] <= poll_clock
      /\ runs[s][1] # 0 => next_occurrence(s, runs[s][1]) <= runs[s][2]
  BY <1>1, <1>3 DEF SchedulesInv, BoundRowsExpect, BoundRunsAreSpaced, Spaced
<1>8. next_occurrence(s, runs[s][2]) <= next_occurrence(s, poll_clock)
  BY <1>1, <1>3, <1>7, OccurrencesInOrder
<1>9. /\ runs'[s][2] <= poll_clock
      /\ new.enabled /\ runs'[s][2] # 0
           => next_occurrence(s, runs'[s][2]) <= new.next_run_at
      /\ runs'[s][1] # 0 => next_occurrence(s, runs'[s][1]) <= runs'[s][2]
  BY <1>2, <1>5, <1>6, <1>7, <1>8
<1>10. /\ poll' \in [Pollers -> Polls] /\ runs' \in [AllSchedules -> Nat \X Nat]
       /\ \A p \in Pollers : poll'[p].now = poll[p].now
       /\ \A r \in AllSchedules : r # s => runs'[r] = runs[r]
       /\ draft' \in [Editors -> Drafts]
       /\ \A e \in Editors : draft'[e].open => draft'[e] = draft[e]
  BY <1>1, <1>2
<1> QED
  BY <1>2, <1>3, <1>4, <1>6, <1>9, <1>10, RowWritten

LEMMA SchedulesNextKeeps ==
  ASSUME SchedulesInv, [SchedulesNext]_schedulesVars
  PROVE  SchedulesInv'
<1>1. ASSUME NEW p \in Pollers, PollerStep(p) \/ PollerDies(p) PROVE SchedulesInv'
  BY <1>1, PollMemoryKeeps, EnqueueDueKeeps, RecordFailureKeeps DEF PollerStep
<1>2. ASSUME NEW e \in Editors, NEW s \in DeviceSchedules, OpenEdit(e, s) PROVE SchedulesInv'
  BY <1>2, OpenEditKeeps
<1>3. ASSUME NEW e \in Editors, NEW on \in BOOLEAN, SaveEdit(e, on) PROVE SchedulesInv'
  BY <1>3, SaveEditKeeps
<1>4. ASSUME NEW s \in BoundSchedules, NEW on \in BOOLEAN, EditBound(s, on)
      PROVE  SchedulesInv'
  BY <1>4, EditBoundKeeps
<1>5. ASSUME \/ \E s \in BoundSchedules : SourceChanges(s)
             \/ \E s \in AllSchedules : EnqueueManually(s)
             \/ \E t \in active : TaskEnds(t)
             \/ \E a \in Assets : SwitchAsset(a)
             \/ ScheduleTick \/ UNCHANGED schedulesVars
      PROVE  SchedulesInv'
  <2>1. UNCHANGED <<deployment, schedule, poll, draft, runs>>
    BY <1>5 DEF SourceChanges, EnqueueManually, TaskEnds, SwitchAsset, ScheduleTick, schedulesVars
  <2>2. poll_clock' \in {poll_clock, poll_clock + 1}
    BY <1>5 DEF SourceChanges, EnqueueManually, TaskEnds, SwitchAsset, ScheduleTick, schedulesVars
  <2> QED
    BY <2>1, <2>2, SurroundingsKeep
<1> QED
  BY <1>1, <1>2, <1>3, <1>4, <1>5 DEF SchedulesNext

\* What a Worker remembers: a refused schedule while it deals with a refusal, else none.
PollHolds(memory) ==
  /\ memory.now <= MaxTime
  /\ IF memory.stage \in {"refused", "classified"}
     THEN \E s \in AllSchedules : memory.refused = {s} ELSE memory.refused = {}

ActiveTasks == [scope : AllSchedules \X SUBSET Assets, scheduled : BOOLEAN]

SchedulesBounds ==
  /\ deployment \in Deployments
  /\ enabled_assets \subseteq Assets /\ ready \subseteq BoundSchedules
  /\ active \subseteq ActiveTasks
  /\ poll_clock \in 1 .. MaxTime /\ interventions \in 0 .. MaxInterventions
  /\ \A p \in Pollers : PollHolds(poll[p])

\* A schedule selects devices.
LEMMA ScopeTyped ==
  ASSUME NEW s \in AllSchedules, enabled_assets \subseteq Assets
  PROVE  scope_of(s) \in AllSchedules \X SUBSET Assets
<1>1. ASSUME s \in DeviceSchedules PROVE selected_target_ids(s) \subseteq Assets
  <2>1. /\ SelectorOf[s].mode \in {"all", "selected", "filtered"}
        /\ SelectorOf[s].ids \subseteq Assets
    BY <1>1, SchedulesAssumption DEF SchedulesAssumption
  <2>2. CASE SelectorOf[s].mode = "all"
    BY <2>2 DEF selected_target_ids
  <2>3. CASE SelectorOf[s].mode = "selected"
    BY <2>1, <2>3 DEF selected_target_ids
  <2>4. CASE SelectorOf[s].mode = "filtered"
    BY <2>1, <2>4 DEF selected_target_ids
  <2> QED
    BY <2>1, <2>2, <2>3, <2>4
<1> QED
  BY <1>1 DEF scope_of

\* The memory of one Worker changes.
LEMMA MemoryBounds ==
  ASSUME SchedulesBounds, NEW p \in Pollers, NEW memory, poll \in [Pollers -> Polls],
         poll' = [poll EXCEPT ![p] = memory], PollHolds(memory),
         UNCHANGED <<deployment, enabled_assets, ready, active, poll_clock, interventions>>
  PROVE  SchedulesBounds'
<1>1. \A q \in Pollers : poll'[q] = IF q = p THEN memory ELSE poll[q]
  OBVIOUS
<1>2. \A q \in Pollers : PollHolds(poll'[q])
  BY <1>1 DEF SchedulesBounds
<1> QED
  BY <1>2 DEF SchedulesBounds, PollHolds

LEMMA SchedulesBoundsKeep ==
  ASSUME SchedulesInv, SchedulesBounds, [SchedulesNext]_schedulesVars
  PROVE  SchedulesBounds'
<1> USE SchedulesAssumption DEF SchedulesAssumption
<1>0. /\ poll \in [Pollers -> Polls] /\ poll_clock \in 1 .. MaxTime
      /\ \A p \in Pollers : PollHolds(poll[p])
  BY DEF SchedulesInv, SchedulesTyped, SchedulesBounds
<1>1. ASSUME NEW p \in Pollers, ListDue(p) PROVE SchedulesBounds'
  <2> DEFINE memory == [Idle EXCEPT !.stage = "poll", !.now = poll_clock,
                          !.due = {s \in deployment.schedules :
                                     schedule[s].enabled /\ is_due(schedule[s], poll_clock)}]
  <2>1. memory.stage = "poll" /\ memory.now = poll_clock /\ memory.refused = {}
    BY DEF Idle
  <2>2. PollHolds(memory)
    BY <1>0, <2>1 DEF PollHolds
  <2>3. poll' = [poll EXCEPT ![p] = memory]
    BY <1>1 DEF ListDue
  <2> HIDE DEF memory
  <2> QED
    BY <1>0, <1>1, <2>2, <2>3, MemoryBounds DEF ListDue
<1>2. ASSUME NEW p \in Pollers, EndPoll(p) \/ PollerDies(p) PROVE SchedulesBounds'
  <2>1. PollHolds(Idle)
    BY DEF Idle, PollHolds
  <2> QED
    BY <1>0, <1>2, <2>1, MemoryBounds DEF EndPoll, PollerDies
<1>3. ASSUME NEW p \in Pollers, Classify(p) \/ RecordFailure(p) PROVE SchedulesBounds'
  <2>1. PICK memory : poll' = [poll EXCEPT ![p] = memory] /\ PollHolds(memory)
    <3>1. CASE Classify(p)
      <4>1. PICK s \in poll[p].refused :
                   poll' = [poll EXCEPT ![p] = [@ EXCEPT !.stage = "classified",
                                                         !.blocked = has_active_schedule_scope(s)]]
        BY <3>1, ZenonT(60) DEF Classify
      <4>2. PollHolds([poll[p] EXCEPT !.stage = "classified",
                                      !.blocked = has_active_schedule_scope(s)])
        BY <1>0, <3>1 DEF Classify, PollHolds, Polls
      <4> QED
        BY <4>1, <4>2
    <3>2. CASE RecordFailure(p)
      <4>1. poll' = [poll EXCEPT ![p] = [@ EXCEPT !.stage = "poll", !.refused = {},
                                                  !.blocked = FALSE]]
        BY <3>2 DEF RecordFailure
      <4>2. PollHolds([poll[p] EXCEPT !.stage = "poll", !.refused = {}, !.blocked = FALSE])
        BY <1>0 DEF PollHolds, Polls
      <4> QED
        BY <4>1, <4>2
    <3> QED
      BY <1>3, <3>1, <3>2
  <2> QED
    BY <1>0, <1>3, <2>1, MemoryBounds DEF Classify, RecordFailure
<1>4. ASSUME NEW p \in Pollers, NEW s \in AllSchedules, EnqueueDue(p, s) PROVE SchedulesBounds'
  <2>1. PICK memory : poll' = [poll EXCEPT ![p] = memory] /\ PollHolds(memory)
    <3>1. CASE poll' = [poll EXCEPT ![p].due = @ \ {s}]
      <4>1. PollHolds([poll[p] EXCEPT !.due = @ \ {s}])
        BY <1>0 DEF PollHolds, Polls
      <4> QED
        BY <3>1, <4>1
    <3>2. CASE poll' = [poll EXCEPT ![p].stage = "refused", ![p].refused = {s},
                                    ![p].due = after_refusal(p, s)]
      <4>1. PollHolds([poll[p] EXCEPT !.stage = "refused", !.refused = {s},
                                      !.due = after_refusal(p, s)])
        BY <1>0 DEF PollHolds, Polls
      <4> QED
        BY <3>2, <4>1
    <3> QED
      BY <1>4, <3>1, <3>2 DEF EnqueueDue
  <2>2. UNCHANGED <<deployment, enabled_assets, ready, poll_clock, interventions>>
    BY <1>4 DEF EnqueueDue
  <2>3. active' \subseteq ActiveTasks
    <3>1. [scope |-> scope_of(s), scheduled |-> TRUE] \in ActiveTasks
      BY ScopeTyped DEF SchedulesBounds, ActiveTasks
    <3>2. \/ active' = active
          \/ active' = active \cup {[scope |-> scope_of(s), scheduled |-> TRUE]}
      BY <1>4 DEF EnqueueDue
    <3> QED
      BY <3>1, <3>2 DEF SchedulesBounds
  <2>4. \A q \in Pollers : PollHolds(poll'[q])
    BY <1>0, <2>1
  <2> QED
    BY <2>2, <2>3, <2>4 DEF SchedulesBounds, PollHolds
<1>5. ASSUME UNCHANGED <<deployment, poll>>, enabled_assets' \subseteq Assets,
             ready' \subseteq BoundSchedules, active' \subseteq ActiveTasks,
             poll_clock' \in 1 .. MaxTime, interventions' \in 0 .. MaxInterventions
      PROVE  SchedulesBounds'
  BY <1>5 DEF SchedulesBounds, PollHolds
<1>6. ASSUME Intervention PROVE interventions' \in 0 .. MaxInterventions
  BY <1>6 DEF Intervention, SchedulesBounds
<1>7. ASSUME NEW e \in Editors, NEW s \in DeviceSchedules, OpenEdit(e, s) PROVE SchedulesBounds'
  BY <1>5, <1>6, <1>7 DEF OpenEdit, SchedulesBounds
<1>8. ASSUME NEW e \in Editors, NEW on \in BOOLEAN, SaveEdit(e, on) PROVE SchedulesBounds'
  BY <1>5, <1>8 DEF SaveEdit, SchedulesBounds
<1>9. ASSUME NEW s \in BoundSchedules, SourceChanges(s) \/ \E on \in BOOLEAN : EditBound(s, on)
      PROVE  SchedulesBounds'
  BY <1>5, <1>6, <1>9 DEF SourceChanges, EditBound, SchedulesBounds
<1>10. ASSUME NEW s \in AllSchedules, EnqueueManually(s) PROVE SchedulesBounds'
  <2>1. [scope |-> scope_of(s), scheduled |-> FALSE] \in ActiveTasks
    BY ScopeTyped DEF SchedulesBounds, ActiveTasks
  <2> QED
    BY <1>5, <1>6, <1>10, <2>1 DEF EnqueueManually, SchedulesBounds
<1>11. ASSUME (\E t \in active : TaskEnds(t)) \/ (\E a \in Assets : SwitchAsset(a)) \/ ScheduleTick
       PROVE  SchedulesBounds'
  BY <1>5, <1>6, <1>11 DEF TaskEnds, SwitchAsset, ScheduleTick, SchedulesBounds
<1>12. ASSUME UNCHANGED schedulesVars PROVE SchedulesBounds'
  BY <1>5, <1>12 DEF schedulesVars, SchedulesBounds
<1> QED
  BY <1>1, <1>2, <1>3, <1>4, <1>7, <1>8, <1>9, <1>10, <1>11, <1>12 DEF SchedulesNext, PollerStep

LEMMA SchedulesInitBounds == SchedulesInit => SchedulesBounds
<1> SUFFICES ASSUME SchedulesInit PROVE SchedulesBounds
  OBVIOUS
<1>1. MaxTime \in Nat \ {0} /\ MaxInterventions \in Nat
  BY SchedulesAssumption DEF SchedulesAssumption
<1>2. PollHolds(Idle)
  BY <1>1 DEF PollHolds, Idle
<1>3. \A p \in Pollers : poll[p] = Idle
  BY DEF SchedulesInit
<1>4. /\ deployment \in Deployments /\ enabled_assets \subseteq Assets
      /\ ready \subseteq BoundSchedules /\ active \subseteq ActiveTasks
  BY DEF SchedulesInit
<1>5. poll_clock = 1 /\ interventions = 0
  BY DEF SchedulesInit
<1>6. poll_clock \in 1 .. MaxTime /\ interventions \in 0 .. MaxInterventions
  BY ONLY <1>1, <1>5
<1> QED
  BY <1>2, <1>3, <1>4, <1>6 DEF SchedulesBounds

LEMMA SchedulesInvTypes == SchedulesInv /\ SchedulesBounds => SchedulesTypeOK
<1> SUFFICES ASSUME SchedulesInv, SchedulesBounds PROVE SchedulesTypeOK
  OBVIOUS
<1>1. /\ schedule \in [AllSchedules -> Row] /\ poll \in [Pollers -> Polls]
      /\ runs \in [AllSchedules -> Nat \X Nat]
  BY DEF SchedulesInv, SchedulesTyped
<1>2. ASSUME NEW p \in Pollers
      PROVE  /\ poll[p].now \in 0 .. MaxTime
             /\ poll[p].stage \in {"refused", "classified"} <=> Cardinality(poll[p].refused) = 1
  <2>1. poll[p].now \in Nat /\ PollHolds(poll[p]) /\ MaxTime \in Nat
    BY <1>1, SchedulesAssumption DEF Polls, SchedulesBounds, SchedulesAssumption
  <2>2. CASE poll[p].stage \in {"refused", "classified"}
    <3>1. PICK s : poll[p].refused = {s}
      BY <2>1, <2>2 DEF PollHolds
    <3> QED
      BY <2>1, <2>2, <3>1, FS_Singleton DEF PollHolds
  <2>3. CASE poll[p].stage \notin {"refused", "classified"}
    BY <2>1, <2>3, FS_EmptySet DEF PollHolds
  <2> QED
    BY <2>2, <2>3
<1> QED
  BY <1>1, <1>2 DEF SchedulesBounds, SchedulesTypeOK, Polls, ActiveTasks

-----------------------------------------------------------------------------
\* However many Workers poll with clocks read at whatever time, and whatever a form
\* writes back, no occurrence of a people or domain schedule is enqueued twice, and a
\* refusal that is recorded concerns an occurrence after the last task
\* (net/inspections/schedules.py: the row is checked again under its lock, and a failure
\* is recorded by a conditional UPDATE).
THEOREM OccurrencesRunOnce == SchedulesSpec => []SchedulesTypeOK /\ []OccurrencesAreKept
<1>1. SchedulesInit => SchedulesInv /\ SchedulesBounds
  BY SchedulesInitHolds, SchedulesInitBounds
<1>2. SchedulesInv /\ SchedulesBounds /\ [SchedulesNext]_schedulesVars
        => SchedulesInv' /\ SchedulesBounds'
  BY SchedulesNextKeeps, SchedulesBoundsKeep
<1>3. SchedulesInv /\ SchedulesBounds => SchedulesTypeOK /\ OccurrencesAreKept
  BY SchedulesInvTypes
     DEF SchedulesInv, OccurrencesAreKept, RefusalIsCurrent, DeviceRowsExpect, RowExpects
<1> QED
  BY <1>1, <1>2, <1>3, PTL DEF SchedulesSpec

-----------------------------------------------------------------------------
(* Together.                                                               *)

\* Each component goes its own way, whatever the others do.
LEMMA PartsOfMaintenance ==
  MaintenanceSpec => Spec /\ SchedulesSpec /\ RetentionSpec /\ ArchiveSpec
<1>1. MaintenanceInit => Init /\ SchedulesInit /\ RetentionInit /\ ArchiveInit
  BY DEF MaintenanceInit
<1>2. [MaintenanceNext]_maintenanceVars
        => /\ [Next]_vars /\ [SchedulesNext]_schedulesVars
           /\ [RetentionNext]_retentionVars /\ [ArchiveNext]_archiveVars
  BY DEF MaintenanceNext, maintenanceVars
<1> QED
  BY <1>1, <1>2, PTL DEF MaintenanceSpec, Spec, SchedulesSpec, RetentionSpec, ArchiveSpec

\* Deliveries, schedules, sweeps and archives, run side by side by the maintenance of the
\* Workers, keep the types of their rows and memories; no delivery is claimed more often
\* than max_attempts allows (net/inspections/worker.py: one cycle runs them one after the
\* other, and they share no rows).
THEOREM MaintenanceIsTyped == MaintenanceSpec => []MaintenanceTypeOK
<1>1. TypeOK /\ SchedulesTypeOK /\ RetentionTypeOK /\ ArchiveTypeOK => MaintenanceTypeOK
  BY DEF MaintenanceTypeOK
<1> QED
  BY <1>1, PartsOfMaintenance, OutboxTyped, OccurrencesRunOnce, RetentionTakesNothingNeeded,
     ArchivingLosesNothing, PTL
=============================================================================
