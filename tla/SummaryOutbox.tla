--------------------------- MODULE SummaryOutbox ---------------------------
(***************************************************************************)
(* What the outbox promises to whoever looks at a summary and its rows:    *)
(* what becomes of each channel and the verdict on the summary, without    *)
(* Workers, batches, leases, tokens or the order of rows.  One step may    *)
(* move several rows, as one claim does, and rows of several summaries.    *)
(***************************************************************************)
EXTENDS Naturals

CONSTANTS Events, Deliveries, EventOf, MaxAttempts

VARIABLES
  outcome,    \* of a row: absent, open, sent or failed
  attempts,   \* attempts the row has used
  messages,   \* messages its channel has accepted
  verdict     \* on the summary: absent, open, delivered, partial or failed

outboxVars == <<outcome, attempts, messages, verdict>>

Init ==
  /\ outcome = [d \in Deliveries |-> "absent"]
  /\ attempts = [d \in Deliveries |-> 0]
  /\ messages = [d \in Deliveries |-> 0]
  /\ verdict = [e \in Events |-> "absent"]

-----------------------------------------------------------------------------
(* One row.                                                                *)

Becomes(d, before, after) == outcome[d] = before /\ outcome'[d] = after

Untouched(d) == outcome'[d] = outcome[d] /\ attempts'[d] = attempts[d] /\ messages'[d] = messages[d]

Add(d) ==
  /\ Becomes(d, "absent", "open")
  /\ attempts'[d] = attempts[d] /\ messages'[d] = messages[d]

\* A first attempt, a retry or the takeover of a lost one.
Attempt(d) ==
  /\ Becomes(d, "open", "open")
  /\ attempts[d] < MaxAttempts /\ attempts'[d] = attempts[d] + 1
  /\ messages'[d] = messages[d]

\* An attempt brings one message at most, which may come when the row is closed.
Accept(d) ==
  /\ outcome'[d] = outcome[d] /\ attempts'[d] = attempts[d]
  /\ messages[d] < attempts[d] /\ messages'[d] = messages[d] + 1

\* Sent only when a message was accepted, given up only after an attempt.
Close(d) ==
  /\ \/ Becomes(d, "open", "sent") /\ messages[d] > 0
     \/ Becomes(d, "open", "failed") /\ attempts[d] > 0
  /\ attempts'[d] = attempts[d] /\ messages'[d] = messages[d]

-----------------------------------------------------------------------------
(* One summary: its verdict changes in the step that changes its rows.     *)

Channels(e) == {d \in Deliveries : EventOf[d] = e}

\* The verdict on rows with the outcomes out; a summary without a row has failed.
VerdictOn(e, out) ==
  LET rows == {d \in Channels(e) : out[d] # "absent"}
  IN IF \A d \in rows : out[d] = "failed" THEN "failed"
     ELSE IF \A d \in rows : out[d] = "sent" THEN "delivered"
     ELSE IF \E d \in rows : out[d] = "sent" THEN "partial"
     ELSE "open"

Rest(e) ==
  /\ verdict'[e] = verdict[e]
  /\ \A d \in Channels(e) : Untouched(d)

Announce(e) ==
  /\ verdict[e] = "absent" /\ verdict'[e] = VerdictOn(e, outcome')
  /\ \A d \in Channels(e) : Untouched(d) \/ Add(d)

Deliver(e) ==
  /\ verdict[e] # "absent" /\ verdict'[e] = VerdictOn(e, outcome')
  /\ \A d \in Channels(e) : Untouched(d) \/ Attempt(d) \/ Accept(d) \/ Close(d)

Next == \A e \in Events : Rest(e) \/ Announce(e) \/ Deliver(e)

Spec == Init /\ [][Next]_outboxVars
=============================================================================
