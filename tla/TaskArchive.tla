---------------------------- MODULE TaskArchive -----------------------------
(***************************************************************************)
(* The maintenance command that archives the results of old tasks          *)
(* (net/management/commands/archive_task_results.py) and, when asked to,   *)
(* takes the details out of the archived rows that a record repeats.  An   *)
(* operator goes through the results page after page, each page into a new *)
(* file, with the cursor of the page before; commands of several operators *)
(* overlap, fail and are killed, and retention removes records and tasks   *)
(* meanwhile.                                                              *)
(***************************************************************************)
EXTENDS Naturals, FiniteSets, Sequences

CONSTANTS
  Results,          \* targets that ended before the cutoff, numbered in the cursor's order
  Operators,
  PageLimit,        \* --limit
  MaxCommands,      \* bound on the commands that are run
  MaxHistoryEvents  \* bound on what retention removes

ASSUME ArchiveAssumption ==
  /\ Results \subseteq Nat \ {0} /\ IsFiniteSet(Results)
  /\ PageLimit \in Nat \ {0} /\ MaxCommands \in Nat /\ MaxHistoryEvents \in Nat

VARIABLES
  snapshot,         \* the snapshot of each row: with details, compact, or no row
  evidence,         \* the results whose stored record repeats the details
  command,          \* the running command of each operator
  archives,         \* the files of each operator, in the order they were completed
  archived_after,   \* the cursor each operator goes on from
  commands, history_events    \* bound the model

archiveVars == <<snapshot, evidence, command, archives, archived_after, commands,
                 history_events>>

NoRows    == [t \in {} |-> "full"]
NoCommand == [stage |-> "idle", compact |-> FALSE, rows |-> NoRows, left |-> {}]

\* A result may have lost its record before anybody archives it.
ArchiveInit ==
  /\ snapshot = [t \in Results |-> "full"]
  /\ evidence \in SUBSET Results
  /\ command = [o \in Operators |-> NoCommand]
  /\ archives = [o \in Operators |-> << >>]
  /\ archived_after = [o \in Operators |-> 0]
  /\ commands = 0 /\ history_events = 0

Rows == {t \in Results : snapshot[t] # "gone"}

-----------------------------------------------------------------------------
(* handle: list, write, sync, compact.                                     *)

\* The first rows after the cursor.
candidates(o) ==
  LET after == {t \in Rows : t > archived_after[o]}
  IN {t \in after : Cardinality({u \in after : u < t}) < PageLimit}

\* The page is read in one query and written to a new file.
ReadPage(o, compact) ==
  /\ command[o].stage = "idle" /\ commands < MaxCommands /\ commands' = commands + 1
  /\ command' = [command EXCEPT ![o] =
       [stage |-> "writing", compact |-> compact, left |-> candidates(o),
        rows |-> [t \in candidates(o) |-> snapshot[t]]]]
  /\ UNCHANGED <<snapshot, evidence, archives, archived_after, history_events>>

\* Rows and trailer are flushed and synced: from here on the file is an archive.
CompleteArchive(o) ==
  /\ command[o].stage = "writing"
  /\ archives' = [archives EXCEPT ![o] = Append(@, command[o].rows)]
  /\ command' = [command EXCEPT ![o].stage = IF command[o].compact
                                             THEN "compacting" ELSE "reporting"]
  /\ UNCHANGED <<snapshot, evidence, archived_after, commands, history_events>>

\* Mutant: the rows are compacted while the file is being written.
is_synced_Written(o) == command[o].stage \in {"writing", "compacting"} /\ command[o].compact

is_synced(o) == command[o].stage = "compacting"

\* compaction_plan, under the lock of the record: there is something to take out, and
\* the record has it.
is_compactable(t) == snapshot[t] = "full" /\ t \in evidence

\* compact_archived_target: one row in its transaction, if it is as it was archived.
CompactRow(o) ==
  \E t \in command[o].left :
    /\ is_synced(o) /\ \A u \in command[o].left : t <= u
    /\ command' = [command EXCEPT ![o].left = @ \ {t}]
    /\ snapshot' = IF snapshot[t] = command[o].rows[t] /\ is_compactable(t)
                   THEN [snapshot EXCEPT ![t] = "compact"] ELSE snapshot
    /\ UNCHANGED <<evidence, archives, archived_after, commands, history_events>>

\* The summary tells the operator the cursor of the next page.
Report(o) ==
  /\ \/ command[o].stage = "reporting"
     \/ command[o].stage = "compacting" /\ command[o].left = {}
  /\ command' = [command EXCEPT ![o] = NoCommand]
  /\ IF DOMAIN command[o].rows = {} THEN UNCHANGED archived_after
     ELSE \E last \in DOMAIN command[o].rows :
            /\ \A t \in DOMAIN command[o].rows : t <= last
            /\ archived_after' = [archived_after EXCEPT ![o] = last]
  /\ UNCHANGED <<snapshot, evidence, archives, commands, history_events>>

\* The disk is full, the database is away, the process is killed: what was not synced
\* is lost, and the page is done again into another file.
CommandFails(o) ==
  /\ command[o].stage # "idle"
  /\ command' = [command EXCEPT ![o] = NoCommand]
  /\ UNCHANGED <<snapshot, evidence, archives, archived_after, commands, history_events>>

-----------------------------------------------------------------------------
(* Retention: records expire, and then the tasks that had them.            *)

HistoryEvent == history_events < MaxHistoryEvents /\ history_events' = history_events + 1

RecordExpires(t) ==
  /\ HistoryEvent /\ t \in evidence /\ evidence' = evidence \ {t}
  /\ UNCHANGED <<snapshot, command, archives, archived_after, commands>>

TaskExpires(t) ==
  /\ HistoryEvent /\ t \in Rows \ evidence /\ snapshot' = [snapshot EXCEPT ![t] = "gone"]
  /\ UNCHANGED <<evidence, command, archives, archived_after, commands>>

ArchiveNext ==
  \/ \E o \in Operators :
       \/ \E compact \in BOOLEAN : ReadPage(o, compact)
       \/ CompleteArchive(o) \/ CompactRow(o) \/ Report(o) \/ CommandFails(o)
  \/ \E t \in Results : RecordExpires(t) \/ TaskExpires(t)

ArchiveSpec == ArchiveInit /\ [][ArchiveNext]_archiveVars

-----------------------------------------------------------------------------
(* Properties.                                                             *)

Pages == UNION {[page -> {"full", "compact"}] : page \in SUBSET Results}

\* Rows, files and cursors keep their types.
ArchiveTypeOK ==
  /\ snapshot \in [Results -> {"full", "compact", "gone"}] /\ evidence \subseteq Results
  /\ \A o \in Operators :
       /\ command[o].stage \in {"idle", "writing", "compacting", "reporting"}
       /\ command[o].compact \in BOOLEAN /\ command[o].rows \in Pages
       /\ command[o].left \subseteq DOMAIN command[o].rows
       /\ \A i \in DOMAIN archives[o] : archives[o][i] \in Pages
       /\ archived_after[o] \in Results \cup {0}
  /\ commands \in 0 .. MaxCommands /\ history_events \in 0 .. MaxHistoryEvents

HoldsRow(o, t, forms) == \E i \in DOMAIN archives[o] :
                           t \in DOMAIN archives[o][i] /\ archives[o][i][t] \in forms

\* Details that were taken out of a row are in a complete archive, whatever happens to
\* the command, to the record that repeats them, or to another operator's file.
DetailsAreArchived ==
  \A t \in Results : snapshot[t] = "compact" => \E o \in Operators : HoldsRow(o, t, {"full"})

\* An operator who goes on from the cursors of his pages leaves no row behind, although
\* rows disappear between his pages and pages are done again.
NoRowBehindPage ==
  \A o \in Operators : \A t \in Rows :
    t <= archived_after[o] => HoldsRow(o, t, {"full", "compact"})

\* Both: archiving loses nothing.
ArchiveLosesNothing == DetailsAreArchived /\ NoRowBehindPage
=============================================================================
