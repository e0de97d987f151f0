--------------------------- MODULE TaskLifecycle ---------------------------
(***************************************************************************)
(* What the task queue promises to whoever looks at the rows: the states a *)
(* task and its targets go through, without Workers, leases, threads or    *)
(* the order of claims.  One step may move several tasks, as one recovery  *)
(* transaction does, so each task makes a step of its own or stays put.    *)
(***************************************************************************)
EXTENDS Naturals

CONSTANTS Tasks, Targets, MAX_TASK_ATTEMPTS

VARIABLES
  task_of,     \* the task of each target, an immutable column
  abortable,   \* the tasks that their executor may break off, fixed as well
  status, attempt_count, target_status

lifecycleVars == <<task_of, abortable, status, attempt_count, target_status>>

Final == {"success", "partial", "failed", "cancelled"}

Own(t) == {x \in Targets : task_of[x] = t}

Init ==
  /\ task_of \in [Targets -> Tasks] /\ abortable \subseteq Tasks
  /\ status = [t \in Tasks |-> "absent"]
  /\ attempt_count = [t \in Tasks |-> 0]
  /\ target_status = [x \in Targets |-> "absent"]

Becomes(t, before, after) == status[t] = before /\ status'[t] = after

Untouched(t) ==
  /\ status'[t] = status[t]
  /\ attempt_count'[t] = attempt_count[t]
  /\ \A x \in Own(t) : target_status'[x] = target_status[x]

Admit(t) ==
  /\ Becomes(t, "absent", "queued")
  /\ attempt_count'[t] = attempt_count[t]
  /\ \A x \in Own(t) : target_status'[x] = "queued"

\* A claim counts as an attempt and finds no target running.
Take(t) ==
  /\ Becomes(t, "queued", "running")
  /\ attempt_count[t] < MAX_TASK_ATTEMPTS
  /\ attempt_count'[t] = attempt_count[t] + 1
  /\ \A x \in Own(t) : /\ target_status[x] # "running"
                       /\ target_status'[x] = target_status[x]

\* One target of a running task is started, or gets its one result.
Work(t) ==
  /\ Becomes(t, "running", "running")
  /\ attempt_count'[t] = attempt_count[t]
  /\ \E x \in Own(t) :
       /\ \/ target_status[x] = "queued" /\ target_status'[x] = "running"
          \/ /\ target_status[x] = "running"
             /\ target_status'[x] \in {"success", "partial", "failed"}
       /\ \A y \in Own(t) \ {x} : target_status'[y] = target_status[y]

\* The executor gives up what has no result, for this attempt and every later one.
Abort(t) ==
  /\ t \in abortable
  /\ Becomes(t, "running", "running")
  /\ attempt_count'[t] = attempt_count[t]
  /\ \A x \in Own(t) : target_status'[x] =
       IF target_status[x] \in Final THEN target_status[x] ELSE "failed"

\* A lost attempt is given back: results stay, the rest starts again.
Reset(t) ==
  \A x \in Own(t) : target_status'[x] =
    IF target_status[x] \in Final THEN target_status[x] ELSE "queued"

GiveBack(t) ==
  /\ Becomes(t, "running", "queued")
  /\ attempt_count[t] < MAX_TASK_ATTEMPTS
  /\ attempt_count'[t] = attempt_count[t]
  /\ Reset(t)

\* Given back and taken again by one transaction.
Retake(t) ==
  /\ Becomes(t, "running", "running")
  /\ attempt_count[t] < MAX_TASK_ATTEMPTS
  /\ attempt_count'[t] = attempt_count[t] + 1
  /\ Reset(t)

\* A running task ends: what has no result fails, which is allowed only when no
\* attempt is left, and the status is the verdict on the results.
Verdict(t) ==
  /\ status'[t] = "success" <=> \A x \in Own(t) : target_status'[x] = "success"
  /\ status'[t] = "failed"  <=> \A x \in Own(t) : target_status'[x] = "failed"

Close(t) ==
  /\ status[t] = "running" /\ status'[t] \in {"success", "partial", "failed"}
  /\ attempt_count'[t] = attempt_count[t]
  /\ \A x \in Own(t) : target_status'[x] =
       IF target_status[x] \in Final THEN target_status[x] ELSE "failed"
  /\ \/ attempt_count[t] = MAX_TASK_ATTEMPTS
     \/ \A x \in Own(t) : target_status[x] \in Final
  /\ Verdict(t)

Cancel(t) ==
  /\ status[t] \in {"queued", "running"} /\ status'[t] = "cancelled"
  /\ attempt_count'[t] = attempt_count[t]
  /\ \A x \in Own(t) : target_status'[x] =
       IF target_status[x] \in Final THEN target_status[x] ELSE "cancelled"

Step(t) ==
  \/ Untouched(t) \/ Admit(t) \/ Take(t) \/ Work(t) \/ Abort(t) \/ GiveBack(t)
  \/ Retake(t) \/ Close(t) \/ Cancel(t)

Next ==
  /\ UNCHANGED <<task_of, abortable>>
  /\ \A t \in Tasks : Step(t)

Spec == Init /\ [][Next]_lifecycleVars
=============================================================================
