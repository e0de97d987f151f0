---------------------------- MODULE AccessSync -----------------------------
(***************************************************************************)
(* Access control records (net/access/tasks.py, net/access/executor.py,    *)
(* the event query of net/access/adapters.py, and the form that edits a    *)
(* platform).  A synchronisation asks one platform for the events of a     *)
(* window that starts at the cursor; the publication is fenced by the      *)
(* claim, inserts the new records and moves the cursor to the end of the   *)
(* window.  Times are ticks, a second is TicksPerSecond of them: the       *)
(* platform keeps and compares whole seconds, the cursor does not.         *)
(***************************************************************************)
EXTENDS Naturals, FiniteSets

CONSTANTS
  Doors,            \* each can report one event per tick
  TicksPerSecond,
  MaxSyncWindow,    \* MAX_SYNC_WINDOW, in ticks
  MaxEventsPerSync, \* MAX_EVENTS_PER_SYNC
  Lookback,         \* default_lookback_minutes, in ticks
  MaxAccessAttempts,
  AccessDuration,   \* the clock stops here
  MaxAccessSyncs,   \* bound on the tasks
  MaxAccessEvents   \* bound on the events

ASSUME AccessAssumption ==
  /\ TicksPerSecond \in Nat \ {0} /\ MaxSyncWindow \in Nat \ {0}
  /\ Lookback \in 1 .. MaxSyncWindow /\ MaxAccessAttempts \in Nat \ {0}
  /\ MaxEventsPerSync \in Nat /\ MaxAccessSyncs \in Nat /\ MaxAccessEvents \in Nat
  /\ AccessDuration \in Nat /\ TicksPerSecond <= AccessDuration

VARIABLES
  access_clock,
  events,          \* what has happened at the doors: [door, at]
  access_source,   \* the AccessRecordSource row; the settings are its identity
  records,         \* AccessRecord rows, by the identifiers of their events
  access_task,     \* the active task of the source, or the last one
  access_thread,   \* the thread of each attempt of that task
  access_form,     \* an open platform form: the row its request has read
  access_syncs,    \* bounds the model
  first_start      \* start of the first window published since the cursor was null (history)

accessVars == <<access_clock, events, access_source, records, access_task, access_thread,
                access_form, access_syncs, first_start>>

NoCursor == AccessDuration + 1    \* stands for a null time
NoForm == [open |-> FALSE, cursor_at |-> NoCursor]
NoAccessThread == [stage |-> "idle", events |-> {}]

AccessInit ==
  /\ access_clock = TicksPerSecond
  /\ events = {} /\ records = {}
  /\ access_source = [is_enabled |-> TRUE, identity |-> 0, cursor_at |-> NoCursor]
  /\ access_task = [status |-> "none", attempt |-> 0, identity |-> 0, window |-> <<0, 0>>]
  /\ access_thread = [a \in 1 .. MaxAccessAttempts |-> NoAccessThread]
  /\ access_form = NoForm
  /\ access_syncs = 0
  /\ first_start = NoCursor

-----------------------------------------------------------------------------
\* strftime without fractions.
second(t) == t \div TicksPerSecond

access_source_matches_task ==
  access_source.is_enabled /\ access_source.identity = access_task.identity

\* The start of the next window: the cursor, or some time back the first time.
window_start ==
  IF access_source.cursor_at # NoCursor THEN access_source.cursor_at
  ELSE access_clock - (IF Lookback <= access_clock THEN Lookback ELSE access_clock)

\* An administrator asks for a synchronisation; one at a time per source, of a
\* window that is not empty and not too long.
EnqueueAccess ==
  /\ access_task.status \notin {"queued", "running"}
  /\ access_source.is_enabled
  /\ window_start < access_clock /\ access_clock - window_start <= MaxSyncWindow
  /\ access_syncs < MaxAccessSyncs /\ access_syncs' = access_syncs + 1
  /\ access_task' = [status |-> "queued", attempt |-> 0, identity |-> access_source.identity,
                     window |-> <<window_start, access_clock>>]
  /\ access_thread' = [a \in 1 .. MaxAccessAttempts |-> NoAccessThread]
  /\ UNCHANGED <<access_clock, events, access_source, records, access_form, first_start>>

BeginAccess ==
  /\ access_task.status = "queued"
  /\ access_task' = [access_task EXCEPT !.status = "running", !.attempt = @ + 1]
  /\ access_thread' = [access_thread EXCEPT ![access_task.attempt + 1].stage = "begun"]
  /\ UNCHANGED <<access_clock, events, access_source, records, access_form, access_syncs,
                 first_start>>

recovered_access_status ==
  IF access_task.attempt < MaxAccessAttempts THEN "queued" ELSE "failed"

RecoverAccess ==
  /\ access_task.status = "running"
  /\ access_task' = [access_task EXCEPT !.status = recovered_access_status]
  /\ UNCHANGED <<access_clock, events, access_source, records, access_thread, access_form,
                 access_syncs, first_start>>

CancelAccess ==
  /\ access_task.status \in {"queued", "running"}
  /\ access_task' = [access_task EXCEPT !.status = "cancelled"]
  /\ UNCHANGED <<access_clock, events, access_source, records, access_thread, access_form,
                 access_syncs, first_start>>

\* Mutant: the window does not include its first second.
in_window_Open(e, window) == second(window[1]) < second(e.at) /\ second(e.at) <= second(window[2])

\* The platform compares whole seconds and includes both ends.
in_window(e, window) == second(window[1]) <= second(e.at) /\ second(e.at) <= second(window[2])

\* fetch_events, outside any transaction: the events of the window that the platform
\* knows by now.  A refusal, too many events or a bad page is an error.
FetchEvents(a) ==
  LET found == {e \in events : in_window(e, access_task.window)}
  IN /\ access_thread[a].stage = "begun"
     /\ \/ /\ access_source_matches_task /\ Cardinality(found) <= MaxEventsPerSync
           /\ access_thread' = [access_thread EXCEPT ![a] =
                                  [stage |-> "fetched", events |-> found]]
        \/ access_thread' = [access_thread EXCEPT ![a].stage = "failing"]
     /\ UNCHANGED <<access_clock, events, access_source, records, access_task, access_form,
                    access_syncs, first_start>>

\* The fence of _publish.
may_publish(a) == access_task.status = "running" /\ access_task.attempt = a

\* The cursor never goes back and stays where it is after a failure.
cursor_after(success) ==
  IF ~ success THEN access_source.cursor_at
  ELSE IF access_source.cursor_at # NoCursor /\ access_source.cursor_at > access_task.window[2]
  THEN access_source.cursor_at
  ELSE access_task.window[2]

PublishAccess(a) ==
  LET success == access_thread[a].stage = "fetched" /\ access_source_matches_task
  IN /\ access_thread[a].stage \in {"fetched", "failing"}
     /\ access_thread' = [access_thread EXCEPT ![a] = NoAccessThread]
     /\ IF may_publish(a)
        THEN /\ access_task' = [access_task EXCEPT !.status =
                                  IF success THEN "success" ELSE "failed"]
             /\ records' = IF success THEN records \cup access_thread[a].events ELSE records
             /\ access_source' = [access_source EXCEPT !.cursor_at = cursor_after(success)]
             /\ first_start' = IF success /\ first_start = NoCursor
                               THEN access_task.window[1] ELSE first_start
        ELSE UNCHANGED <<access_task, records, access_source, first_start>>
     /\ UNCHANGED <<access_clock, events, access_form, access_syncs>>

\* The request of the platform form reads the row.  It counts in the bound.
OpenPlatform ==
  /\ ~ access_form.open
  /\ access_syncs < MaxAccessSyncs /\ access_syncs' = access_syncs + 1
  /\ access_form' = [open |-> TRUE, cursor_at |-> access_source.cursor_at]
  /\ UNCHANGED <<access_clock, events, access_source, records, access_task, access_thread,
                 first_start>>

\* The form saves the whole row without a lock: the cursor is the one it has read.
SavePlatform(on, identity) ==
  /\ access_form.open /\ access_form' = NoForm
  /\ access_source' = [is_enabled |-> on, identity |-> identity,
                       cursor_at |-> access_form.cursor_at]
  /\ first_start' = IF access_form.cursor_at = NoCursor THEN NoCursor ELSE first_start
  /\ UNCHANGED <<access_clock, events, records, access_task, access_thread, access_syncs>>

\* Someone passes a door; the platform knows it at once.
PassDoor(d) ==
  /\ Cardinality(events) < MaxAccessEvents
  /\ [door |-> d, at |-> access_clock] \notin events
  /\ events' = events \cup {[door |-> d, at |-> access_clock]}
  /\ UNCHANGED <<access_clock, access_source, records, access_task, access_thread,
                 access_form, access_syncs, first_start>>

AccessTick ==
  /\ access_clock < AccessDuration
  /\ access_clock' = access_clock + 1
  /\ UNCHANGED <<events, access_source, records, access_task, access_thread, access_form,
                 access_syncs, first_start>>

AccessThreadStep(a) == FetchEvents(a) \/ PublishAccess(a)

AccessNext ==
  \/ EnqueueAccess \/ BeginAccess \/ RecoverAccess \/ CancelAccess \/ AccessTick
  \/ \E a \in 1 .. MaxAccessAttempts : AccessThreadStep(a)
  \/ OpenPlatform
  \/ \E on \in BOOLEAN, identity \in {0, 1} : SavePlatform(on, identity)
  \/ \E d \in Doors : PassDoor(d)

AccessSpec == AccessInit /\ [][AccessNext]_accessVars

\* An administrator who asks whenever it is possible, Workers that run and a
\* platform that answers.
AccessFairness ==
  /\ WF_accessVars(EnqueueAccess) /\ WF_accessVars(BeginAccess)
  /\ \A a \in 1 .. MaxAccessAttempts : WF_accessVars(AccessThreadStep(a))

FairAccessSpec == AccessSpec /\ AccessFairness

-----------------------------------------------------------------------------
(* Properties.                                                             *)

\* Source, records and task keep their types, and a record is an event.
AccessTypeOK ==
  /\ access_clock \in Nat
  /\ events \subseteq [door : Doors, at : Nat] /\ records \subseteq events
  /\ access_source \in [is_enabled : BOOLEAN, identity : {0, 1}, cursor_at : Nat]
  /\ access_task \in [status : {"none", "queued", "running", "success", "failed", "cancelled"},
                      attempt : 0 .. MaxAccessAttempts, identity : {0, 1}, window : Nat \X Nat]
  /\ access_thread \in [1 .. MaxAccessAttempts ->
                          [stage : {"idle", "begun", "fetched", "failing"}, events : SUBSET events]]
  /\ access_form \in [open : BOOLEAN, cursor_at : Nat]
  /\ access_syncs \in Nat /\ first_start \in Nat

\* Nothing is lost behind the cursor: between the start of the first window and the
\* cursor every event is recorded, although windows are cut to whole seconds, some
\* fail, an event may happen in a second that was already asked for, and a form may
\* write an old cursor over a new one.  Only a form that has read a null cursor makes
\* the synchronisation start again: the promise then starts with its next window.
NoGapBehindCursor ==
  access_source.cursor_at # NoCursor
    => \A e \in events : first_start <= e.at /\ e.at < access_source.cursor_at => e \in records

\* README.md:132 offers a synchronisation "by time period" and the error at
\* net/access/executor.py:77 asks for a smaller range.  The page sends no range, so a
\* window always starts at the cursor: when that is more than MAX_SYNC_WINDOW ago,
\* or there are too many events behind it, no synchronisation is ever possible again.
SourceIsCollectedAgain ==
  access_source.cursor_at # NoCursor /\ access_clock - access_source.cursor_at > 0
    ~> access_source.cursor_at = access_clock \/ ~ access_source.is_enabled
       \/ access_syncs = MaxAccessSyncs
=============================================================================
