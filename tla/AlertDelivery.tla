--------------------------- MODULE AlertDelivery ---------------------------
(***************************************************************************)
(* The outbox of task summaries (net/alerts/service.py, the rows created   *)
(* by net/alerts/task_summaries.py).                                       *)
(*                                                                         *)
(* A summary event has one AlertDelivery row per channel.  Every Worker    *)
(* process claims a batch of due rows in one transaction, sends them one   *)
(* after the other outside any transaction, and records each answer in a   *)
(* transaction that is fenced by the token of the claim.  A row whose      *)
(* lease has run out may be claimed by somebody else while its sender is   *)
(* still busy.                                                             *)
(***************************************************************************)
EXTENDS Naturals, FiniteSets

CONSTANTS
  Events,         \* summary events
  Deliveries,     \* rows that may be created, one per event and channel
  EventOf,        \* the event of each row
  Workers,        \* processes that run deliver_due_alerts
  MaxAttempts,    \* AlertDelivery.max_attempts
  Limit,          \* rows one call claims, TaskWorker.threads
  NoAnswer

ASSUME AlertDeliveryAssumption ==
  /\ IsFiniteSet(Deliveries)
  /\ EventOf \in [Deliveries -> Events]
  /\ MaxAttempts \in Nat \ {0}
  /\ Limit \in Nat \ {0}

VARIABLES
  \* AlertDelivery columns.  lease_token is the number of the claim that drew
  \* it (uuid4 never repeats, and neither does attempt_count); 0 is the empty
  \* token.  due says that next_attempt_at has passed.
  status, attempt_count, lease, lease_token, due,
  created,        \* order of created_at
  event_status,   \* AlertEvent.status
  \* each Worker's memory: what it has claimed and not sent, the answer it has
  \* not recorded
  batch, answer,
  inbox           \* messages the channel has accepted for the row (external)

rowVars    == <<status, attempt_count, lease, lease_token, due, created>>
workerVars == <<batch, answer>>
vars       == <<rowVars, event_status, workerVars, inbox>>

Status      == {"pending", "sending", "sent", "retry", "failed"}
EventStatus == {"pending", "sending", "delivered", "partial", "failed"}
RowsOf(e)   == {d \in Deliveries : EventOf[d] = e /\ status[d] # "absent"}

Claimed == [delivery : Deliveries, token : 1 .. MaxAttempts]
Answer  == [delivery : Deliveries, token : 1 .. MaxAttempts,
            success : BOOLEAN, retryable : BOOLEAN]

Init ==
  /\ status = [d \in Deliveries |-> "absent"]
  /\ attempt_count = [d \in Deliveries |-> 0]
  /\ lease = [d \in Deliveries |-> "none"]
  /\ lease_token = [d \in Deliveries |-> 0]
  /\ due = [d \in Deliveries |-> FALSE]
  /\ created = [d \in Deliveries |-> 0]
  /\ event_status = [e \in Events |-> "absent"]
  /\ batch = [w \in Workers |-> {}]
  /\ answer = [w \in Workers |-> NoAnswer]
  /\ inbox = [d \in Deliveries |-> 0]

-----------------------------------------------------------------------------
\* process_task_summary: the event and a row for each channel that the routing
\* selects and that is enabled; an event without any channel has failed.
CreateSummary(e, rows) ==
  /\ event_status[e] = "absent"
  /\ rows \subseteq {d \in Deliveries : EventOf[d] = e}
  /\ status' = [d \in Deliveries |-> IF d \in rows THEN "pending" ELSE status[d]]
  /\ \E order \in [rows -> 1 .. Cardinality(rows)] :
       /\ \A c, d \in rows : order[c] = order[d] => c = d
       /\ created' = [d \in Deliveries |->
                        IF d \in rows
                        THEN Cardinality({c \in Deliveries : status[c] # "absent"})
                             + order[d]
                        ELSE created[d]]
  /\ event_status' = [event_status EXCEPT ![e] =
                        IF rows = {} THEN "failed" ELSE "pending"]
  /\ UNCHANGED <<attempt_count, lease, lease_token, due, workerVars, inbox>>

-----------------------------------------------------------------------------
(* _claim_deliveries.                                                      *)

\* Mutant: a claim that was lost with its process is never taken over.
IsDue_NoTakeover(d) ==
  status[d] = "pending" \/ (status[d] = "retry" /\ due[d])

IsDue(d) ==
  \/ status[d] = "pending"
  \/ status[d] = "retry" /\ due[d]
  \/ status[d] = "sending" /\ lease[d] = "expired"

\* Mutant: the lost final attempt is not given up but sent again.
Exhausted_Off(d) == FALSE

\* The lease of the final attempt ran out: the row is given up, not claimed.
Exhausted(d) == status[d] = "sending" /\ attempt_count[d] >= MaxAttempts

\* The first Limit due rows by created_at.
Selected ==
  LET ready == {d \in Deliveries : IsDue(d)}
  IN {d \in ready : Cardinality({c \in ready : created[c] < created[d]}) < Limit}

\* Mutant: a row that was given up does not count against the event.
event_status_of_SkipFailed(e, st) ==
  LET rows == {d \in RowsOf(e) : st[d] # "failed"}
  IN IF rows # {} /\ \A d \in rows : st[d] = "sent" THEN "delivered"
     ELSE IF \E d \in rows : st[d] = "sent" THEN "partial"
     ELSE IF rows = {} THEN "failed"
     ELSE IF \E d \in rows : st[d] = "sending" THEN "sending"
     ELSE "pending"

\* _event_status: the status of an event whose rows have the statuses st.
event_status_of(e, st) ==
  IF \A d \in RowsOf(e) : st[d] = "sent" THEN "delivered"
  ELSE IF \E d \in RowsOf(e) : st[d] = "sent" THEN "partial"
  ELSE IF \A d \in RowsOf(e) : st[d] = "failed" THEN "failed"
  ELSE IF \E d \in RowsOf(e) : st[d] = "sending" THEN "sending"
  ELSE "pending"

\* Mutant: taking over a lost claim does not count as an attempt.
next_attempt_Takeover(d) ==
  IF status[d] = "sending" THEN attempt_count[d] ELSE attempt_count[d] + 1

next_attempt(d) == attempt_count[d] + 1

\* The event is refreshed in the middle of the loop over the batch: it sees the
\* new status of the rows up to the last one of its rows that is given up.
SeenInLoop(e, lost, st) ==
  [d \in Deliveries |->
     IF \E l \in lost : EventOf[l] = e /\ created[d] <= created[l]
     THEN st[d] ELSE status[d]]

\* One transaction: the exhausted rows among the selected ones fail and their
\* events are refreshed, the others start an attempt under a new token.
Claim(w) ==
  LET lost  == {d \in Selected : Exhausted(d)}
      taken == Selected \ lost
  IN /\ batch[w] = {} /\ answer[w] = NoAnswer
     /\ Selected # {}
     /\ status' = [d \in Deliveries |-> IF d \in lost THEN "failed"
                                        ELSE IF d \in taken THEN "sending"
                                        ELSE status[d]]
     /\ attempt_count' = [d \in Deliveries |-> IF d \in taken THEN next_attempt(d)
                                               ELSE attempt_count[d]]
     /\ lease' = [d \in Deliveries |-> IF d \in lost THEN "none"
                                       ELSE IF d \in taken THEN "live"
                                       ELSE lease[d]]
     /\ lease_token' = [d \in Deliveries |-> IF d \in lost THEN 0
                                             ELSE IF d \in taken
                                             THEN attempt_count'[d]
                                             ELSE lease_token[d]]
     /\ due' = [d \in Deliveries |-> d \notin taken /\ due[d]]
     /\ event_status' = [e \in Events |->
                           IF \E d \in lost : EventOf[d] = e
                           THEN event_status_of(e, SeenInLoop(e, lost, status'))
                           ELSE event_status[e]]
     /\ batch' = [batch EXCEPT ![w] =
                    {[delivery |-> d, token |-> attempt_count'[d]] : d \in taken}]
     /\ UNCHANGED <<created, answer, inbox>>

-----------------------------------------------------------------------------
(* deliver_due_alerts: send in the order of the batch, then record.        *)

\* send_alert.  A message may be accepted although its answer is a failure (a
\* timeout, a mail some recipients of which were refused), never the reverse.
Send(w, c, accepted, success, retryable) ==
  /\ answer[w] = NoAnswer
  /\ c \in batch[w]
  /\ \A b \in batch[w] : created[c.delivery] <= created[b.delivery]
  /\ success => accepted /\ ~retryable
  /\ inbox' = [inbox EXCEPT ![c.delivery] = @ + IF accepted THEN 1 ELSE 0]
  /\ batch' = [batch EXCEPT ![w] = @ \ {c}]
  /\ answer' = [answer EXCEPT ![w] =
                  [delivery |-> c.delivery, token |-> c.token,
                   success |-> success, retryable |-> retryable]]
  /\ UNCHANGED <<rowVars, event_status>>

\* Mutant: the token of the claim is not compared.
StillHeld_AnyToken(a) == status[a.delivery] = "sending"

StillHeld(a) == /\ status[a.delivery] = "sending"
                /\ lease_token[a.delivery] = a.token

\* Mutant: a failure that could be retried is given up.
finished_status_NoRetry(a) == IF a.success THEN "sent" ELSE "failed"

finished_status(a) ==
  IF a.success THEN "sent"
  ELSE IF a.retryable /\ attempt_count[a.delivery] < MaxAttempts THEN "retry"
  ELSE "failed"

\* _finish_delivery
Finish(w) ==
  LET a == answer[w]
      d == a.delivery
  IN /\ answer[w] # NoAnswer
     /\ IF StillHeld(a)
        THEN /\ status' = [status EXCEPT ![d] = finished_status(a)]
             /\ lease' = [lease EXCEPT ![d] = "none"]
             /\ lease_token' = [lease_token EXCEPT ![d] = 0]
             /\ due' = [due EXCEPT ![d] = FALSE]
             /\ event_status' = [event_status EXCEPT ![EventOf[d]] =
                                   event_status_of(EventOf[d], status')]
        ELSE UNCHANGED <<status, lease, lease_token, due, event_status>>
     /\ answer' = [answer EXCEPT ![w] = NoAnswer]
     /\ UNCHANGED <<attempt_count, created, batch, inbox>>

-----------------------------------------------------------------------------
(* Time and process death.                                                 *)

LeaseExpires(d) ==
  /\ status[d] = "sending" /\ lease[d] = "live"
  /\ lease' = [lease EXCEPT ![d] = "expired"]
  /\ UNCHANGED <<status, attempt_count, lease_token, due, created, event_status,
                 workerVars, inbox>>

RetryFallsDue(d) ==
  /\ status[d] = "retry" /\ ~due[d]
  /\ due' = [due EXCEPT ![d] = TRUE]
  /\ UNCHANGED <<status, attempt_count, lease, lease_token, created,
                 event_status, workerVars, inbox>>

\* The process dies and comes back with an empty memory.
Crash(w) ==
  /\ batch[w] # {} \/ answer[w] # NoAnswer
  /\ batch' = [batch EXCEPT ![w] = {}]
  /\ answer' = [answer EXCEPT ![w] = NoAnswer]
  /\ UNCHANGED <<rowVars, event_status, inbox>>

-----------------------------------------------------------------------------
SendAny(w) ==
  \E c \in batch[w], accepted, success, retryable \in BOOLEAN :
    Send(w, c, accepted, success, retryable)

Next ==
  \/ \E e \in Events : \E rows \in SUBSET Deliveries : CreateSummary(e, rows)
  \/ \E w \in Workers : Claim(w) \/ SendAny(w) \/ Finish(w) \/ Crash(w)
  \/ \E d \in Deliveries : LeaseExpires(d) \/ RetryFallsDue(d)

Spec == Init /\ [][Next]_vars

\* Every call of send_alert is bounded by a transport timeout and Workers poll;
\* a process that dies is started again.  Time passes.
FairSpec ==
  /\ Spec
  /\ \A w \in Workers : WF_vars(Claim(w)) /\ WF_vars(SendAny(w)) /\ WF_vars(Finish(w))
  /\ \A d \in Deliveries : WF_vars(LeaseExpires(d)) /\ WF_vars(RetryFallsDue(d))

\* The refinement mapping: a row that is pending, being sent or waiting for a retry
\* is open, and so is a summary whose status does not say how it ended.
outcome_of(st)  == IF st \in {"pending", "sending", "retry"} THEN "open" ELSE st
verdict_of(st)  == IF st \in {"pending", "sending"} THEN "open" ELSE st

Outbox == INSTANCE SummaryOutbox
            WITH outcome  <- [d \in Deliveries |-> outcome_of(status[d])],
                 attempts <- attempt_count, messages <- inbox,
                 verdict  <- [e \in Events |-> verdict_of(event_status[e])]

-----------------------------------------------------------------------------
(* Properties.                                                             *)

\* Columns and memories keep their types; the attempt counter stays within
\* max_attempts, which the table's check constraint would otherwise refuse.
TypeOK ==
  /\ status \in [Deliveries -> Status \cup {"absent"}]
  /\ attempt_count \in [Deliveries -> 0 .. MaxAttempts]
  /\ lease \in [Deliveries -> {"none", "live", "expired"}]
  /\ lease_token \in [Deliveries -> 0 .. MaxAttempts]
  /\ due \in [Deliveries -> BOOLEAN]
  /\ created \in [Deliveries -> Nat]
  /\ event_status \in [Events -> EventStatus \cup {"absent"}]
  /\ batch \in [Workers -> SUBSET Claimed]
  /\ answer \in [Workers -> Answer \cup {NoAnswer}]
  /\ inbox \in [Deliveries -> Nat]

\* The messages a channel has accepted, plus those a Worker is still about to
\* send, never exceed the attempts of the row: crashes, overlapping claims and
\* late senders cost at most max_attempts messages per channel and summary.
InFlight(d) == {w \in Workers : \E c \in batch[w] : c.delivery = d}

MessagesBounded ==
  \A d \in Deliveries : inbox[d] + Cardinality(InFlight(d)) <= attempt_count[d]

\* An answer that belongs to the latest claim of its row still finds the row
\* open, so _finish_delivery records it, whatever slower senders of earlier
\* claims have reported in between.  The exception is the final attempt, which
\* a later claim may have given up when its lease ran out.
LatestAnswerCounts ==
  \A w \in Workers :
    answer[w] # NoAnswer =>
      LET d == answer[w].delivery
      IN answer[w].token = attempt_count[d] =>
           \/ status[d] = "sending" /\ lease_token[d] = answer[w].token
           \/ status[d] = "failed" /\ attempt_count[d] = MaxAttempts

\* What Workers hold of a row neither exceeds its attempts nor comes to nothing.
HeldRowsCount == MessagesBounded /\ LatestAnswerCounts

\* The station's view of a summary never contradicts its rows: delivered means
\* every channel accepted it and failed that none did and no row is open; once
\* every row is closed the event is closed too.
EventMatchesRows ==
  \A e \in Events :
    LET rows == RowsOf(e)
        sent == {d \in rows : status[d] = "sent"}
    IN event_status[e] # "absent" =>
         /\ event_status[e] = "delivered" <=> rows # {} /\ sent = rows
         /\ event_status[e] = "partial" <=> sent # {} /\ sent # rows
         /\ event_status[e] = "failed" <=> \A d \in rows : status[d] = "failed"
         /\ \A d \in sent : inbox[d] > 0

\* A row that was sent or given up is never touched again, and a row with an
\* attempt left is given up only by a Worker whose answer of the latest claim
\* forbids a retry.
GivesUpOnlyWhenTold ==
  \A d \in Deliveries :
    /\ status[d] \in {"sent", "failed"} =>
         status'[d] = status[d] /\ attempt_count'[d] = attempt_count[d]
    /\ status[d] # "failed" /\ status'[d] = "failed" /\ attempt_count[d] < MaxAttempts
         => \E w \in Workers : /\ answer[w] # NoAnswer
                               /\ answer[w].delivery = d
                               /\ answer[w].token = attempt_count[d]
                               /\ ~answer[w].success /\ ~answer[w].retryable

\* The verdict on a summary is as final: delivered and failed stay, and one channel
\* that was served is never forgotten.
KeepsVerdicts ==
  \A e \in Events :
    /\ event_status[e] \in {"delivered", "failed"} => event_status'[e] = event_status[e]
    /\ event_status[e] = "partial" => event_status'[e] \in {"partial", "delivered"}

\* What is closed stays closed, for the rows and for the summary (_finish_delivery,
\* _claim_deliveries).
ClosedRowsStay == [][GivesUpOnlyWhenTold /\ KeepsVerdicts]_vars

\* Whoever reads the rows and the status of a summary sees what SummaryOutbox
\* promises, step by step: attempts that are counted, a message at most for each,
\* rows that close once and for a reason, and a verdict that always fits the rows,
\* also when _claim_deliveries computes it in the middle of its batch.
ImplementsOutbox == Outbox!Spec

\* Every row is sent or given up in the end, also when processes keep dying in
\* the middle of their batches.
DeliveryEnds ==
  \A d \in Deliveries : status[d] = "pending" ~> status[d] \in {"sent", "failed"}

-----------------------------------------------------------------------------
(* The parts of the inductive invariant that the proofs rest on.           *)

\* An event that was not created has no rows; a row that can be claimed has an
\* attempt left, and the token of a row that is being sent is that of its latest
\* claim.
RowsAgree ==
  \A d \in Deliveries :
    /\ event_status[EventOf[d]] = "absent" => status[d] = "absent"
    /\ status[d] \in {"absent", "pending"} => attempt_count[d] = 0
    /\ status[d] = "retry" => attempt_count[d] < MaxAttempts
    /\ status[d] = "sending" => lease_token[d] = attempt_count[d]

\* The row d is as the holder of its claim number token expects it.
Expected(d, token) ==
  /\ token <= attempt_count[d]
  /\ token = attempt_count[d] =>
       \/ status[d] = "sending" /\ lease_token[d] = token
       \/ status[d] = "failed" /\ attempt_count[d] = MaxAttempts

\* No Worker holds a claim from the future, and the latest claim of a row is open
\* or was given up, whether its holder has yet to send or yet to record.
HeldClaims ==
  \A w \in Workers :
    /\ \A c \in batch[w] : Expected(c.delivery, c.token)
    /\ answer[w] # NoAnswer => Expected(answer[w].delivery, answer[w].token)

\* A claim is held once: by one Worker, unsent or unrecorded.
HeldOnce ==
  \A v, w \in Workers :
    /\ \A c \in batch[v], b \in batch[w] : c = b => v = w
    /\ answer[w] # NoAnswer =>
         \A c \in batch[v] : ~ (/\ c.delivery = answer[w].delivery
                                /\ c.token = answer[w].token)
    /\ answer[v] # NoAnswer /\ answer[w] # NoAnswer /\ v # w =>
         ~ (/\ answer[v].delivery = answer[w].delivery
            /\ answer[v].token = answer[w].token)

IInv == TypeOK /\ RowsAgree /\ HeldClaims /\ HeldOnce

\* A batch holds a row once: it was claimed by one call that started from nothing.
BatchOnce ==
  \A w \in Workers : \A b, c \in batch[w] : b.delivery = c.delivery => b = c

\* MessagesBounded, for any number of Workers: only finitely many hold a row.
FlightBound ==
  \A d \in Deliveries :
    /\ IsFiniteSet(InFlight(d))
    /\ inbox[d] + Cardinality(InFlight(d)) <= attempt_count[d]

SendInv == BatchOnce /\ FlightBound
=============================================================================
