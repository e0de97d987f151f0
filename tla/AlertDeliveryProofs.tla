------------------------ MODULE AlertDeliveryProofs ------------------------
(***************************************************************************)
(* The outbox keeps its types, records the answer of the latest claim and  *)
(* never reopens a closed row, for every number of events, channels and    *)
(* Workers, every batch size and every max_attempts.                       *)
(***************************************************************************)
EXTENDS AlertDelivery, FiniteSetTheorems, TLAPS

\* A batch is made of rows that are due.
LEMMA SelectedIsDue == Selected \subseteq {d \in Deliveries : IsDue(d)}
  BY DEF Selected

\* An event that is refreshed has one of the five statuses of AlertEvent.
LEMMA RefreshedEvent ==
  ASSUME NEW e, NEW st PROVE event_status_of(e, st) \in EventStatus
  BY DEF event_status_of, EventStatus

\* The number of rows is a number.
LEMMA RowsAreFinite ==
  ASSUME AlertDeliveryAssumption, NEW S \in SUBSET Deliveries
  PROVE  Cardinality(S) \in Nat
<1>1. IsFiniteSet(S)
  BY FS_Subset DEF AlertDeliveryAssumption
<1> QED
  BY <1>1, FS_CardinalityType

LEMMA InitHolds == Init => IInv
  BY AlertDeliveryAssumption
  DEF Init, IInv, TypeOK, RowsAgree, HeldClaims, HeldOnce, Status, EventStatus,
      AlertDeliveryAssumption

\* A summary is created with rows nobody has claimed.
LEMMA CreateKeeps ==
  ASSUME IInv, NEW e \in Events, NEW rows \in SUBSET Deliveries, CreateSummary(e, rows)
  PROVE  IInv'
<1> USE AlertDeliveryAssumption DEF AlertDeliveryAssumption
<1>1. \A d \in rows : status[d] = "absent" /\ EventOf[d] = e
  BY DEF IInv, RowsAgree, CreateSummary
<1>2. TypeOK'
  <2>1. created' \in [Deliveries -> Nat]
    <3>1. Cardinality(rows) \in Nat
      BY RowsAreFinite
    <3>2. Cardinality({c \in Deliveries : status[c] # "absent"}) \in Nat
      BY RowsAreFinite
    <3> QED
      BY <3>1, <3>2 DEF IInv, TypeOK, CreateSummary
  <2> QED
    BY <2>1 DEF IInv, TypeOK, CreateSummary, workerVars, Status, EventStatus
<1>3. RowsAgree'
  BY <1>1 DEF IInv, TypeOK, RowsAgree, CreateSummary
<1>4. HeldClaims'
  BY <1>1 DEF IInv, TypeOK, RowsAgree, HeldClaims, Expected, CreateSummary, workerVars,
     Claimed, Answer
<1>5. HeldOnce'
  BY DEF IInv, HeldOnce, CreateSummary, workerVars
<1> QED
  BY <1>2, <1>3, <1>4, <1>5 DEF IInv

\* A claim numbers the attempts of its rows above every claim held so far.
LEMMA ClaimKeeps ==
  ASSUME IInv, NEW w \in Workers, Claim(w)
  PROVE  IInv'
<1> USE AlertDeliveryAssumption DEF AlertDeliveryAssumption
<1> DEFINE lost  == {d \in Selected : Exhausted(d)}
           taken == Selected \ lost
<1>1. /\ batch[w] = {} /\ answer[w] = NoAnswer
      /\ status' = [d \in Deliveries |-> IF d \in lost THEN "failed"
                                         ELSE IF d \in taken THEN "sending"
                                         ELSE status[d]]
      /\ attempt_count' = [d \in Deliveries |-> IF d \in taken THEN attempt_count[d] + 1
                                                ELSE attempt_count[d]]
      /\ lease' = [d \in Deliveries |-> IF d \in lost THEN "none"
                                        ELSE IF d \in taken THEN "live" ELSE lease[d]]
      /\ lease_token' = [d \in Deliveries |-> IF d \in lost THEN 0
                                              ELSE IF d \in taken
                                              THEN attempt_count'[d]
                                              ELSE lease_token[d]]
      /\ due' = [d \in Deliveries |-> d \notin taken /\ due[d]]
      /\ batch' = [batch EXCEPT ![w] =
                     {[delivery |-> d, token |-> attempt_count'[d]] : d \in taken}]
      /\ created' = created /\ answer' = answer /\ inbox' = inbox
  BY DEF Claim, next_attempt
<1>2. event_status' \in [Events -> EventStatus \cup {"absent"}]
      /\ \A e \in Events : event_status'[e] = "absent" => event_status[e] = "absent"
  BY RefreshedEvent DEF IInv, TypeOK, Claim, EventStatus
<1>3. \A d \in taken : /\ d \in Deliveries
                       /\ status[d] \in {"pending", "retry", "sending"}
                       /\ attempt_count[d] \in 0 .. (MaxAttempts - 1)
  BY SelectedIsDue DEF IInv, TypeOK, RowsAgree, IsDue, Exhausted
<1>4. \A d \in lost : /\ d \in Deliveries
                      /\ status[d] = "sending" /\ attempt_count[d] = MaxAttempts
  BY SelectedIsDue DEF IInv, TypeOK, Exhausted
<1>a. lost \cap taken = {}
  OBVIOUS
<1> HIDE DEF lost, taken
<1>5. TypeOK'
  <2>1. attempt_count' \in [Deliveries -> 0 .. MaxAttempts]
    BY <1>1, <1>3 DEF IInv, TypeOK
  <2>2. batch' \in [Workers -> SUBSET Claimed]
    <3>1. \A d \in taken : attempt_count'[d] \in 1 .. MaxAttempts
      BY <1>1, <1>3 DEF IInv, TypeOK
    <3> QED
      BY <1>1, <1>3, <3>1 DEF IInv, TypeOK, Claimed
  <2>3. lease_token' \in [Deliveries -> 0 .. MaxAttempts]
    BY <1>1, <2>1 DEF IInv, TypeOK
  <2>4. status' \in [Deliveries -> Status \cup {"absent"}]
    BY <1>1 DEF IInv, TypeOK, Status
  <2>5. due' \in [Deliveries -> BOOLEAN]
    BY <1>1 DEF IInv, TypeOK
  <2> QED
    BY <1>1, <1>2, <2>1, <2>2, <2>3, <2>4, <2>5 DEF IInv, TypeOK
<1>6. RowsAgree'
  BY <1>1, <1>2, <1>3, <1>4 DEF IInv, TypeOK, RowsAgree
<1>7. HeldClaims'
  <2> DEFINE Then(d, token) ==
        /\ token <= attempt_count'[d]
        /\ token = attempt_count'[d] =>
             \/ status'[d] = "sending" /\ lease_token'[d] = token
             \/ status'[d] = "failed" /\ attempt_count'[d] = MaxAttempts
  <2>1. \A d \in Deliveries, token \in 1 .. MaxAttempts : Expected(d, token) => Then(d, token)
    BY <1>1, <1>3, <1>4 DEF IInv, TypeOK, RowsAgree, Expected
  <2>2. \A d \in taken : Then(d, attempt_count'[d])
    BY <1>1, <1>3, <1>a DEF IInv, TypeOK
  <2> HIDE DEF Then
  <2>3. ASSUME NEW v \in Workers, NEW c \in batch'[v]
        PROVE  Then(c.delivery, c.token)
    <3>1. CASE v = w
      <4>1. PICK d \in taken : c = [delivery |-> d, token |-> attempt_count'[d]]
        BY <3>1, <1>1 DEF IInv, TypeOK
      <4> QED
        BY <4>1, <2>2
    <3>2. CASE v # w
      <4>1. c \in batch[v] /\ c \in Claimed
        BY <3>2, <1>1 DEF IInv, TypeOK
      <4> QED
        BY <4>1, <2>1 DEF IInv, HeldClaims, Claimed
    <3> QED
      BY <3>1, <3>2
  <2>4. ASSUME NEW v \in Workers, answer[v] # NoAnswer
        PROVE  Then(answer[v].delivery, answer[v].token)
    BY <2>4, <2>1 DEF IInv, TypeOK, HeldClaims, Answer
  <2>5. answer' = answer
    BY <1>1
  <2> QED
    BY <2>3, <2>4, <2>5 DEF HeldClaims, Expected, Then
<1>8. HeldOnce'
  <2>1. \A c \in batch'[w] : c.token > attempt_count[c.delivery] /\ c.delivery \in taken
    BY <1>1, <1>3 DEF IInv, TypeOK
  <2>2. \A v \in Workers : \A c \in batch[v] : c.token <= attempt_count[c.delivery]
    BY DEF IInv, HeldClaims, Expected
  <2>3. \A v \in Workers : answer[v] # NoAnswer =>
          answer[v].token <= attempt_count[answer[v].delivery]
    BY DEF IInv, HeldClaims, Expected
  <2>4. \A v \in Workers : v # w => batch'[v] = batch[v]
    BY <1>1 DEF IInv, TypeOK
  <2>5. \A v \in Workers : \A c \in batch'[v] :
          /\ c.token \in Nat /\ c.delivery \in Deliveries
          /\ attempt_count[c.delivery] \in Nat
    BY <1>5 DEF IInv, TypeOK, Claimed
  <2>6. \A v \in Workers : answer[v] # NoAnswer =>
          /\ answer[v].token \in Nat /\ answer[v].delivery \in Deliveries
          /\ attempt_count[answer[v].delivery] \in Nat
    BY DEF IInv, TypeOK, Answer
  <2>7. \A u, v \in Workers : \A c \in batch'[u], b \in batch'[v] : c = b => u = v
    BY <2>1, <2>2, <2>4, <2>5 DEF IInv, HeldOnce
  <2>8. \A u, v \in Workers : answer[v] # NoAnswer =>
          \A c \in batch'[u] : ~ (/\ c.delivery = answer[v].delivery
                                  /\ c.token = answer[v].token)
    BY <2>1, <2>3, <2>4, <2>5, <2>6 DEF IInv, HeldOnce
  <2>9. \A u, v \in Workers : answer[u] # NoAnswer /\ answer[v] # NoAnswer /\ u # v =>
          ~ (answer[u].delivery = answer[v].delivery /\ answer[u].token = answer[v].token)
    BY DEF IInv, HeldOnce
  <2>10. answer' = answer
    BY <1>1
  <2> QED
    BY <2>7, <2>8, <2>9, <2>10 DEF HeldOnce
<1> QED
  BY <1>5, <1>6, <1>7, <1>8 DEF IInv

\* The Worker that sends exchanges the claim for the answer to it.
LEMMA SendKeeps ==
  ASSUME IInv, NEW w \in Workers, NEW c \in batch[w],
         NEW accepted \in BOOLEAN, NEW success \in BOOLEAN, NEW retryable \in BOOLEAN,
         Send(w, c, accepted, success, retryable)
  PROVE  IInv'
<1> DEFINE a == [delivery |-> c.delivery, token |-> c.token,
                 success |-> success, retryable |-> retryable]
<1>1. /\ answer[w] = NoAnswer /\ c \in Claimed
      /\ inbox' = [inbox EXCEPT ![c.delivery] = @ + IF accepted THEN 1 ELSE 0]
      /\ batch' = [batch EXCEPT ![w] = @ \ {c}]
      /\ answer' = [answer EXCEPT ![w] = a]
      /\ UNCHANGED <<rowVars, event_status>>
  BY DEF Send, IInv, TypeOK
<1>2. a \in Answer /\ a.delivery = c.delivery /\ a.token = c.token
  BY <1>1 DEF Claimed, Answer
<1>3. \A v \in Workers : answer'[v] = IF v = w THEN a ELSE answer[v]
  BY <1>1 DEF IInv, TypeOK
<1>4. \A v \in Workers : batch'[v] = IF v = w THEN batch[v] \ {c} ELSE batch[v]
  BY <1>1 DEF IInv, TypeOK
<1> HIDE DEF a
<1>5. TypeOK'
  <2>1. inbox' \in [Deliveries -> Nat]
    BY <1>1 DEF IInv, TypeOK, Claimed
  <2>2. batch' \in [Workers -> SUBSET Claimed]
    BY <1>1 DEF IInv, TypeOK
  <2>3. answer' \in [Workers -> Answer \cup {NoAnswer}]
    BY <1>1, <1>2 DEF IInv, TypeOK
  <2> QED
    BY <1>1, <2>1, <2>2, <2>3 DEF IInv, TypeOK, rowVars
<1>6. RowsAgree'
  BY <1>1 DEF IInv, RowsAgree, rowVars
<1>7. HeldClaims'
  BY <1>1, <1>2, <1>3, <1>4 DEF IInv, HeldClaims, Expected, rowVars
<1>8. HeldOnce'
  <2>1. \A u, v \in Workers : \A x \in batch'[u], y \in batch'[v] : x = y => u = v
    <3>1. \A v \in Workers : batch'[v] \subseteq batch[v]
      BY <1>4
    <3> QED
      BY <3>1 DEF IInv, HeldOnce
  <2>2. \A u, v \in Workers : answer'[v] # NoAnswer =>
          \A x \in batch'[u] : ~ (x.delivery = answer'[v].delivery
                                  /\ x.token = answer'[v].token)
    <3>1. \A u \in Workers : \A x \in batch'[u] : x \in Claimed /\ x # c
      BY <1>4 DEF IInv, TypeOK, HeldOnce
    <3>2. \A x \in Claimed : x.delivery = c.delivery /\ x.token = c.token => x = c
      BY <1>1 DEF Claimed
    <3>3. ASSUME NEW u \in Workers, NEW v \in Workers, v # w, answer[v] # NoAnswer,
                 NEW x \in batch'[u]
          PROVE  ~ (x.delivery = answer[v].delivery /\ x.token = answer[v].token)
      <4>1. x \in batch[u]
        BY <1>4
      <4> QED
        BY <3>3, <4>1 DEF IInv, HeldOnce
    <3> QED
      BY <3>1, <3>2, <3>3, <1>2, <1>3
  <2>3. \A u, v \in Workers : answer'[u] # NoAnswer /\ answer'[v] # NoAnswer /\ u # v =>
          ~ (answer'[u].delivery = answer'[v].delivery
             /\ answer'[u].token = answer'[v].token)
    BY <1>2, <1>3 DEF IInv, HeldOnce
  <2> QED
    BY <2>1, <2>2, <2>3 DEF HeldOnce
<1> QED
  BY <1>5, <1>6, <1>7, <1>8 DEF IInv

\* An answer is recorded only by the holder of the latest claim, and then nobody
\* else holds that claim.
LEMMA FinishKeeps ==
  ASSUME IInv, NEW w \in Workers, Finish(w)
  PROVE  IInv'
<1> USE AlertDeliveryAssumption DEF AlertDeliveryAssumption
<1> DEFINE a == answer[w]
           d == a.delivery
<1>1. /\ a \in Answer /\ a # NoAnswer /\ d \in Deliveries /\ EventOf[d] \in Events
      /\ attempt_count' = attempt_count /\ created' = created /\ batch' = batch
      /\ inbox' = inbox
      /\ answer' = [answer EXCEPT ![w] = NoAnswer]
  BY DEF Finish, IInv, TypeOK, Answer
<1>2. \A v \in Workers : answer'[v] = IF v = w THEN NoAnswer ELSE answer[v]
  BY <1>1 DEF IInv, TypeOK
<1>3. HeldOnce'
  BY <1>1, <1>2 DEF IInv, HeldOnce
<1>4. CASE ~ StillHeld(a)
  <2>1. UNCHANGED <<status, lease, lease_token, due, event_status>>
    BY <1>4 DEF Finish
  <2>2. answer' \in [Workers -> Answer \cup {NoAnswer}]
    BY <1>1 DEF IInv, TypeOK
  <2>3. TypeOK'
    BY <1>1, <2>1, <2>2 DEF IInv, TypeOK
  <2>4. RowsAgree'
    BY <1>1, <2>1 DEF IInv, RowsAgree
  <2>5. HeldClaims'
    BY <1>1, <1>2, <2>1 DEF IInv, HeldClaims, Expected
  <2> QED
    BY <1>3, <2>3, <2>4, <2>5 DEF IInv
<1>5. CASE StillHeld(a)
  <2>1. /\ status' = [status EXCEPT ![d] = finished_status(a)]
        /\ lease' = [lease EXCEPT ![d] = "none"]
        /\ lease_token' = [lease_token EXCEPT ![d] = 0]
        /\ due' = [due EXCEPT ![d] = FALSE]
        /\ event_status' = [event_status EXCEPT ![EventOf[d]] =
                              event_status_of(EventOf[d], status')]
    BY <1>5 DEF Finish
  <2>2. /\ finished_status(a) \in {"sent", "retry", "failed"}
        /\ finished_status(a) = "retry" => attempt_count[d] < MaxAttempts
    BY DEF finished_status
  <2>3. a.token = attempt_count[d] /\ status[d] = "sending"
    BY <1>1, <1>5 DEF IInv, TypeOK, RowsAgree, StillHeld
  <2>4. event_status_of(EventOf[d], status') \in EventStatus
    BY RefreshedEvent
  <2> HIDE DEF a, d
  <2>5. TypeOK'
    <3>1. answer' \in [Workers -> Answer \cup {NoAnswer}]
      BY <1>1 DEF IInv, TypeOK
    <3>2. event_status' \in [Events -> EventStatus \cup {"absent"}]
      BY <1>1, <2>1, <2>4 DEF IInv, TypeOK
    <3>3. /\ status' \in [Deliveries -> Status \cup {"absent"}]
          /\ lease' \in [Deliveries -> {"none", "live", "expired"}]
          /\ lease_token' \in [Deliveries -> 0 .. MaxAttempts]
      BY <1>1, <2>1, <2>2 DEF IInv, TypeOK, Status
    <3>4. due' \in [Deliveries -> BOOLEAN]
      BY <1>1, <2>1 DEF IInv, TypeOK
    <3> QED
      BY <1>1, <3>1, <3>2, <3>3, <3>4 DEF IInv, TypeOK
  <2>6. RowsAgree'
    <3>1. \A e \in Events : event_status'[e] = "absent" => event_status[e] = "absent"
      BY <1>1, <2>1, <2>4 DEF IInv, TypeOK, EventStatus
    <3>2. \A c \in Deliveries : status'[c] = IF c = d THEN finished_status(a) ELSE status[c]
      BY <1>1, <2>1 DEF IInv, TypeOK
    <3>3. \A c \in Deliveries : c # d => lease_token'[c] = lease_token[c]
      BY <1>1, <2>1 DEF IInv, TypeOK
    <3>4. \A c \in Deliveries : EventOf[c] \in Events
      OBVIOUS
    <3> QED
      BY <1>1, <2>2, <2>3, <3>1, <3>2, <3>3, <3>4 DEF IInv, RowsAgree
  <2>7. HeldClaims'
    <3> DEFINE Then(c, token) ==
          /\ token <= attempt_count'[c]
          /\ token = attempt_count'[c] =>
               \/ status'[c] = "sending" /\ lease_token'[c] = token
               \/ status'[c] = "failed" /\ attempt_count'[c] = MaxAttempts
    <3>1. \A c \in Deliveries, token \in 1 .. MaxAttempts :
            ~ (c = d /\ token = a.token) /\ Expected(c, token) => Then(c, token)
      BY <1>1, <2>1, <2>3 DEF IInv, TypeOK, Expected
    <3> HIDE DEF Then
    <3>2. ASSUME NEW v \in Workers, NEW c \in batch[v]
          PROVE  Then(c.delivery, c.token)
      <4>1. c \in Claimed /\ ~ (c.delivery = d /\ c.token = a.token)
        BY <1>1 DEF IInv, TypeOK, HeldOnce, a, d
      <4> QED
        BY <4>1, <3>1 DEF IInv, HeldClaims, Claimed
    <3>3. ASSUME NEW v \in Workers, v # w, answer[v] # NoAnswer
          PROVE  Then(answer[v].delivery, answer[v].token)
      <4>1. answer[v] \in Answer
            /\ ~ (answer[v].delivery = d /\ answer[v].token = a.token)
        BY <1>1, <3>3 DEF IInv, TypeOK, HeldOnce, a, d
      <4> QED
        BY <3>3, <4>1, <3>1 DEF IInv, HeldClaims, Answer
    <3>4. batch' = batch
      BY <1>1
    <3> QED
      BY <3>2, <3>3, <3>4, <1>2 DEF HeldClaims, Expected, Then
  <2> QED
    BY <1>3, <2>5, <2>6, <2>7 DEF IInv
<1> QED
  BY <1>4, <1>5

\* The passing of time and the death of a process take nothing from the invariant.
LEMMA RestKeeps ==
  ASSUME IInv,
         \/ \E d \in Deliveries : LeaseExpires(d) \/ RetryFallsDue(d)
         \/ \E w \in Workers : Crash(w)
         \/ UNCHANGED vars
  PROVE  IInv'
<1>1. CASE \E d \in Deliveries : LeaseExpires(d) \/ RetryFallsDue(d)
  <2>1. /\ UNCHANGED <<status, attempt_count, lease_token, created, event_status,
                       batch, answer, inbox>>
        /\ lease' \in [Deliveries -> {"none", "live", "expired"}]
        /\ due' \in [Deliveries -> BOOLEAN]
    BY <1>1 DEF LeaseExpires, RetryFallsDue, workerVars, IInv, TypeOK
  <2> QED
    BY <2>1 DEF IInv, TypeOK, RowsAgree, HeldClaims, Expected, HeldOnce
<1>2. CASE \E w \in Workers : Crash(w)
  <2> PICK w \in Workers : Crash(w)
    BY <1>2
  <2>1. /\ batch' \in [Workers -> SUBSET Claimed]
        /\ answer' \in [Workers -> Answer \cup {NoAnswer}]
    BY DEF Crash, IInv, TypeOK
  <2>2. /\ \A v \in Workers : batch'[v] = IF v = w THEN {} ELSE batch[v]
        /\ \A v \in Workers : answer'[v] = IF v = w THEN NoAnswer ELSE answer[v]
    BY DEF Crash, IInv, TypeOK
  <2>3. UNCHANGED <<rowVars, event_status, inbox>>
    BY DEF Crash
  <2>4. TypeOK' /\ RowsAgree'
    BY <2>1, <2>3 DEF IInv, TypeOK, RowsAgree, rowVars
  <2>5. HeldClaims'
    BY <2>2, <2>3 DEF IInv, HeldClaims, Expected, rowVars
  <2>6. HeldOnce'
    BY <2>2 DEF IInv, HeldOnce
  <2> QED
    BY <2>4, <2>5, <2>6 DEF IInv
<1>3. CASE UNCHANGED vars
  BY <1>3 DEF vars, rowVars, workerVars, IInv, TypeOK, RowsAgree, HeldClaims, Expected,
     HeldOnce
<1> QED
  BY <1>1, <1>2, <1>3

\* IInv is inductive.
LEMMA StepKeeps == IInv /\ [Next]_vars => IInv'
  BY CreateKeeps, ClaimKeeps, SendKeeps, FinishKeeps, RestKeeps DEF Next, SendAny

LEMMA OutboxInvariant == Spec => []IInv
  BY InitHolds, StepKeeps, PTL DEF Spec

\* Columns and memories keep their types and attempt_count never passes
\* max_attempts, however often claims are lost and taken over
\* (_claim_deliveries, _finish_delivery).
THEOREM OutboxTyped == Spec => []TypeOK
<1>1. IInv => TypeOK
  BY DEF IInv
<1> QED
  BY <1>1, OutboxInvariant, PTL

\* The answer of the latest claim of a row always finds the row open, or given up
\* after its final attempt, so _finish_delivery never drops it.
THEOREM LatestAnswerIsRecorded == Spec => []LatestAnswerCounts
<1>1. IInv => LatestAnswerCounts
  BY DEF IInv, HeldClaims, Expected, LatestAnswerCounts
<1> QED
  BY <1>1, OutboxInvariant, PTL

\* A row that was sent or given up is closed for good, and a row with an attempt
\* left is given up only on a final answer to its latest claim.
LEMMA GivenUpWhenTold == IInv /\ Next => GivesUpOnlyWhenTold
<1> SUFFICES ASSUME IInv, Next PROVE GivesUpOnlyWhenTold
  OBVIOUS
<1> USE AlertDeliveryAssumption DEF AlertDeliveryAssumption
<1>1. ASSUME NEW e \in Events, NEW rows \in SUBSET Deliveries, CreateSummary(e, rows)
      PROVE  GivesUpOnlyWhenTold
  <2>1. \A d \in rows : status[d] = "absent"
    BY <1>1 DEF IInv, RowsAgree, CreateSummary
  <2> QED
    BY <1>1, <2>1 DEF CreateSummary, GivesUpOnlyWhenTold
<1>2. ASSUME NEW w \in Workers, Claim(w)
      PROVE  GivesUpOnlyWhenTold
  <2>1. \A d \in Selected : d \in Deliveries /\ status[d] \in {"pending", "retry", "sending"}
    BY SelectedIsDue DEF IsDue
  <2>2. \A d \in Selected : Exhausted(d) => ~ (attempt_count[d] < MaxAttempts)
    BY <2>1 DEF IInv, TypeOK, Exhausted
  <2>3. \A d \in Deliveries :
          /\ status'[d] = IF d \in Selected
                          THEN IF Exhausted(d) THEN "failed" ELSE "sending"
                          ELSE status[d]
          /\ d \notin Selected => attempt_count'[d] = attempt_count[d]
    BY <1>2 DEF Claim
  <2> QED
    BY <2>1, <2>2, <2>3 DEF GivesUpOnlyWhenTold
<1>3. ASSUME NEW w \in Workers, Finish(w)
      PROVE  GivesUpOnlyWhenTold
  <2> DEFINE a == answer[w]
  <2>1. CASE StillHeld(a)
    <3>1. /\ status' = [status EXCEPT ![a.delivery] = finished_status(a)]
          /\ attempt_count' = attempt_count /\ a # NoAnswer
      BY <1>3, <2>1 DEF Finish
    <3>2. a \in Answer /\ status[a.delivery] = "sending" /\ a.token = attempt_count[a.delivery]
      BY <3>1, <2>1 DEF IInv, TypeOK, RowsAgree, StillHeld, Answer
    <3>3. finished_status(a) = "failed" /\ attempt_count[a.delivery] < MaxAttempts
            => ~ a.success /\ ~ a.retryable
      BY <3>2 DEF finished_status, Answer
    <3> QED
      BY <3>1, <3>2, <3>3 DEF IInv, TypeOK, GivesUpOnlyWhenTold
  <2>2. CASE ~ StillHeld(a)
    BY <1>3, <2>2 DEF Finish, GivesUpOnlyWhenTold
  <2> QED
    BY <2>1, <2>2
<1>4. CASE \/ \E w \in Workers : SendAny(w) \/ Crash(w)
           \/ \E d \in Deliveries : LeaseExpires(d) \/ RetryFallsDue(d)
  <2>1. status' = status /\ attempt_count' = attempt_count
    BY <1>4 DEF SendAny, Send, Crash, LeaseExpires, RetryFallsDue, rowVars
  <2> QED
    BY <2>1 DEF GivesUpOnlyWhenTold
<1> QED
  BY <1>1, <1>2, <1>3, <1>4 DEF Next

-----------------------------------------------------------------------------
(* The number of messages.                                                 *)

\* Nobody holds a row before the first claim.
LEMMA InitBounded == Init => SendInv
<1> SUFFICES ASSUME Init PROVE SendInv
  OBVIOUS
<1>1. \A d \in Deliveries : InFlight(d) = {}
  BY DEF Init, InFlight
<1>2. IsFiniteSet({}) /\ Cardinality({}) = 0
  BY FS_EmptySet
<1> QED
  BY <1>1, <1>2 DEF Init, SendInv, BatchOnce, FlightBound

\* A Worker that stops holding a row makes one less.
LEMMA OneLess ==
  ASSUME NEW S, IsFiniteSet(S), NEW x
  PROVE  /\ IsFiniteSet(S \ {x})
         /\ Cardinality(S) \in Nat
         /\ Cardinality(S \ {x}) \in Nat
         /\ Cardinality(S \ {x}) <= Cardinality(S)
         /\ x \in S => Cardinality(S \ {x}) = Cardinality(S) - 1
<1>1. Cardinality(S) \in Nat
  BY FS_CardinalityType
<1>2. IsFiniteSet(S \ {x})
      /\ Cardinality(S \ {x}) = IF x \in S THEN Cardinality(S) - 1 ELSE Cardinality(S)
  BY FS_RemoveElement
<1>3. Cardinality(S \ {x}) \in Nat
  BY <1>2, FS_CardinalityType
<1> QED
  BY <1>1, <1>2, <1>3

\* A Worker that claims a row makes at most one more.
LEMMA OneMore ==
  ASSUME NEW S, IsFiniteSet(S), NEW x
  PROVE  /\ IsFiniteSet(S \cup {x})
         /\ Cardinality(S) \in Nat
         /\ Cardinality(S \cup {x}) \in Nat
         /\ Cardinality(S \cup {x}) <= Cardinality(S) + 1
<1>1. Cardinality(S) \in Nat
  BY FS_CardinalityType
<1>2. IsFiniteSet(S \cup {x})
      /\ Cardinality(S \cup {x}) = IF x \in S THEN Cardinality(S) ELSE Cardinality(S) + 1
  BY FS_AddElement
<1> QED
  BY <1>1, <1>2

\* A claim adds its Worker to the holders of the rows whose attempts it counts.
LEMMA ClaimBounded ==
  ASSUME IInv, SendInv, NEW w \in Workers, Claim(w)
  PROVE  SendInv'
<1> USE AlertDeliveryAssumption DEF AlertDeliveryAssumption
<1> DEFINE taken == Selected \ {d \in Selected : Exhausted(d)}
           claim(d) == [delivery |-> d, token |-> attempt_count'[d]]
<1>1. /\ batch[w] = {} /\ inbox' = inbox
      /\ attempt_count' = [d \in Deliveries |-> IF d \in taken THEN attempt_count[d] + 1
                                                ELSE attempt_count[d]]
      /\ batch' = [batch EXCEPT ![w] = {claim(d) : d \in taken}]
  BY DEF Claim, next_attempt
<1>2. taken \subseteq Deliveries
  BY SelectedIsDue
<1> HIDE DEF taken
<1>3. batch'[w] = {claim(d) : d \in taken} /\ \A v \in Workers : v # w => batch'[v] = batch[v]
  BY <1>1 DEF IInv, TypeOK
<1>4. BatchOnce'
  BY <1>3 DEF SendInv, BatchOnce
<1>5. ASSUME NEW d \in Deliveries
      PROVE  /\ IsFiniteSet(InFlight(d)')
             /\ inbox'[d] + Cardinality(InFlight(d)') <= attempt_count'[d]
  <2>1. IsFiniteSet(InFlight(d)) /\ inbox[d] + Cardinality(InFlight(d)) <= attempt_count[d]
    BY DEF SendInv, FlightBound
  <2>2. inbox[d] \in Nat /\ attempt_count[d] \in Nat
    BY DEF IInv, TypeOK
  <2>3. CASE d \in taken
    <3>1. InFlight(d)' = InFlight(d) \cup {w}
      <4>1. claim(d) \in batch'[w] /\ claim(d).delivery = d
        BY <2>3, <1>3
      <4> HIDE DEF claim
      <4>2. \E c \in batch'[w] : c.delivery = d
        BY <4>1
      <4> QED
        BY <4>2, <1>3 DEF InFlight
    <3>2. attempt_count'[d] = attempt_count[d] + 1
      BY <2>3, <1>1
    <3>3. IsFiniteSet(InFlight(d) \cup {w})
          /\ Cardinality(InFlight(d)) \in Nat
          /\ Cardinality(InFlight(d) \cup {w}) \in Nat
          /\ Cardinality(InFlight(d) \cup {w}) <= Cardinality(InFlight(d)) + 1
      BY <2>1, OneMore
    <3>4. inbox'[d] = inbox[d]
      BY <1>1
    <3> QED
      BY <3>1, <3>2, <3>3, <3>4, <2>1, <2>2
  <2>4. CASE d \notin taken
    <3>1. InFlight(d)' = InFlight(d)
      BY <2>4, <1>1, <1>3 DEF InFlight
    <3>2. attempt_count'[d] = attempt_count[d]
      BY <2>4, <1>1
    <3> QED
      BY <3>1, <3>2, <2>1, <1>1
  <2> QED
    BY <2>3, <2>4
<1> QED
  BY <1>4, <1>5 DEF SendInv, FlightBound

\* A send takes its Worker off the holders before a message can be counted.
LEMMA SendBounded ==
  ASSUME IInv, SendInv, NEW w \in Workers, NEW c \in batch[w],
         NEW accepted \in BOOLEAN, NEW success \in BOOLEAN, NEW retryable \in BOOLEAN,
         Send(w, c, accepted, success, retryable)
  PROVE  SendInv'
<1>1. /\ inbox' = [inbox EXCEPT ![c.delivery] = @ + IF accepted THEN 1 ELSE 0]
      /\ batch' = [batch EXCEPT ![w] = @ \ {c}]
      /\ attempt_count' = attempt_count
  BY DEF Send, rowVars
<1>2. \A v \in Workers : batch'[v] = IF v = w THEN batch[v] \ {c} ELSE batch[v]
  BY <1>1 DEF IInv, TypeOK
<1>3. BatchOnce'
  BY <1>2 DEF SendInv, BatchOnce
<1>4. ASSUME NEW d \in Deliveries
      PROVE  /\ IsFiniteSet(InFlight(d)')
             /\ inbox'[d] + Cardinality(InFlight(d)') <= attempt_count'[d]
  <2>1. IsFiniteSet(InFlight(d)) /\ inbox[d] + Cardinality(InFlight(d)) <= attempt_count[d]
    BY DEF SendInv, FlightBound
  <2>2. inbox[d] \in Nat /\ attempt_count[d] \in Nat
    BY DEF IInv, TypeOK
  <2>3. CASE d = c.delivery
    <3>1. w \in InFlight(d)
      BY <2>3 DEF InFlight
    <3>2. InFlight(d)' = InFlight(d) \ {w}
      BY <2>3, <1>2 DEF InFlight, SendInv, BatchOnce
    <3>3. inbox'[d] \in Nat /\ inbox'[d] <= inbox[d] + 1
      BY <2>2, <2>3, <1>1 DEF IInv, TypeOK
    <3> QED
      BY <3>1, <3>2, <3>3, <2>1, <2>2, <1>1, OneLess
  <2>4. CASE d # c.delivery
    <3>1. InFlight(d)' = InFlight(d)
      BY <2>4, <1>2 DEF InFlight
    <3>2. inbox'[d] = inbox[d]
      BY <2>4, <1>1 DEF IInv, TypeOK
    <3> QED
      BY <3>1, <3>2, <2>1, <1>1
  <2> QED
    BY <2>3, <2>4
<1> QED
  BY <1>3, <1>4 DEF SendInv, FlightBound

\* A process that dies forgets what it held.
LEMMA CrashBounded ==
  ASSUME IInv, SendInv, NEW w \in Workers, Crash(w)
  PROVE  SendInv'
<1>1. /\ \A v \in Workers : batch'[v] = IF v = w THEN {} ELSE batch[v]
      /\ inbox' = inbox /\ attempt_count' = attempt_count
  BY DEF Crash, rowVars, IInv, TypeOK
<1>2. BatchOnce'
  BY <1>1 DEF SendInv, BatchOnce
<1>3. ASSUME NEW d \in Deliveries
      PROVE  /\ IsFiniteSet(InFlight(d)')
             /\ inbox'[d] + Cardinality(InFlight(d)') <= attempt_count'[d]
  <2>1. IsFiniteSet(InFlight(d)) /\ inbox[d] + Cardinality(InFlight(d)) <= attempt_count[d]
    BY DEF SendInv, FlightBound
  <2>2. inbox[d] \in Nat /\ attempt_count[d] \in Nat
    BY DEF IInv, TypeOK
  <2>3. InFlight(d)' = InFlight(d) \ {w}
    BY <1>1 DEF InFlight
  <2>4. IsFiniteSet(InFlight(d) \ {w})
        /\ Cardinality(InFlight(d)) \in Nat
        /\ Cardinality(InFlight(d) \ {w}) \in Nat
        /\ Cardinality(InFlight(d) \ {w}) <= Cardinality(InFlight(d))
    BY <2>1, OneLess
  <2>5. inbox'[d] = inbox[d] /\ attempt_count'[d] = attempt_count[d]
    BY <1>1
  <2> QED
    BY <2>1, <2>2, <2>3, <2>4, <2>5
<1> QED
  BY <1>2, <1>3 DEF SendInv, FlightBound

\* The other steps neither claim nor send.
LEMMA OthersBounded ==
  ASSUME SendInv, UNCHANGED <<batch, inbox, attempt_count>>
  PROVE  SendInv'
<1>1. \A d \in Deliveries : InFlight(d)' = InFlight(d)
  BY DEF InFlight
<1> QED
  BY <1>1 DEF SendInv, BatchOnce, FlightBound

LEMMA StepBounded == IInv /\ SendInv /\ [Next]_vars => SendInv'
<1> SUFFICES ASSUME IInv, SendInv, [Next]_vars PROVE SendInv'
  OBVIOUS
<1>1. CASE \E w \in Workers : Claim(w)
  BY <1>1, ClaimBounded
<1>2. CASE \E w \in Workers : SendAny(w)
  BY <1>2, SendBounded DEF SendAny
<1>3. CASE \E w \in Workers : Crash(w)
  BY <1>3, CrashBounded
<1>4. CASE \/ \E e \in Events : \E rows \in SUBSET Deliveries : CreateSummary(e, rows)
           \/ \E w \in Workers : Finish(w)
           \/ \E d \in Deliveries : LeaseExpires(d) \/ RetryFallsDue(d)
           \/ UNCHANGED vars
  <2>1. UNCHANGED <<batch, inbox, attempt_count>>
    BY <1>4 DEF CreateSummary, Finish, LeaseExpires, RetryFallsDue, vars, rowVars, workerVars
  <2> QED
    BY <2>1, OthersBounded
<1> QED
  BY <1>1, <1>2, <1>3, <1>4 DEF Next

\* Crashes, overlapping claims and late senders cost a channel at most as many
\* messages of one summary as the row has attempts (deliver_due_alerts).
THEOREM MessagesAreBounded == Spec => []MessagesBounded
<1>1. SendInv => MessagesBounded
  BY DEF SendInv, FlightBound, MessagesBounded
<1>2. Spec => [](IInv /\ SendInv)
  BY InitHolds, InitBounded, StepKeeps, StepBounded, PTL DEF Spec
<1> QED
  BY <1>1, <1>2, PTL
-----------------------------------------------------------------------------
(* The event and its rows.                                                 *)

\* The verdict v on the event e fits rows that have the statuses st.
Fits(v, e, st) ==
  /\ v = "delivered" <=> RowsOf(e) # {} /\ \A d \in RowsOf(e) : st[d] = "sent"
  /\ v = "partial" <=> /\ \E d \in RowsOf(e) : st[d] = "sent"
                       /\ \E d \in RowsOf(e) : st[d] # "sent"
  /\ v = "failed" <=> \A d \in RowsOf(e) : st[d] = "failed"

EventsFit ==
  \A e \in Events : event_status[e] # "absent" => Fits(event_status[e], e, status)

\* A success is reported, and a row closed as sent, for a message that was accepted.
Accepted ==
  /\ \A d \in Deliveries : status[d] = "sent" => inbox[d] > 0
  /\ \A w \in Workers : answer[w] # NoAnswer /\ answer[w].success
                          => inbox[answer[w].delivery] > 0

\* _event_status gives the verdict that fits the statuses it is shown.
LEMMA RefreshFits ==
  ASSUME NEW e, NEW st, RowsOf(e) # {}
  PROVE  Fits(event_status_of(e, st), e, st)
  BY DEF event_status_of, Fits

\* A verdict looks at closed rows only.
LEMMA FitsSame ==
  ASSUME NEW v, NEW e, NEW st, NEW su, Fits(v, e, st),
         \A d \in RowsOf(e) : \/ su[d] = st[d]
                              \/ {st[d], su[d]} \cap {"sent", "failed"} = {}
  PROVE  Fits(v, e, su)
<1>1. \A d \in RowsOf(e) : /\ su[d] = "sent" <=> st[d] = "sent"
                           /\ su[d] = "failed" <=> st[d] = "failed"
  OBVIOUS
<1> QED
  BY <1>1 DEF Fits

LEMMA EventFollows ==
  ASSUME EventsFit, Accepted
  PROVE  EventMatchesRows
<1> SUFFICES ASSUME NEW e \in Events, event_status[e] # "absent"
             PROVE  LET rows == RowsOf(e)
                        sent == {d \in rows : status[d] = "sent"}
                    IN /\ event_status[e] = "delivered" <=> rows # {} /\ sent = rows
                       /\ event_status[e] = "partial" <=> sent # {} /\ sent # rows
                       /\ event_status[e] = "failed" <=> \A d \in rows : status[d] = "failed"
                       /\ \A d \in sent : inbox[d] > 0
  BY DEF EventMatchesRows
<1> DEFINE sent == {d \in RowsOf(e) : status[d] = "sent"}
<1>1. Fits(event_status[e], e, status)
  BY DEF EventsFit
<1>2. /\ sent = RowsOf(e) <=> \A d \in RowsOf(e) : status[d] = "sent"
      /\ sent # {} <=> \E d \in RowsOf(e) : status[d] = "sent"
  OBVIOUS
<1>3. \A d \in sent : inbox[d] > 0
  BY DEF Accepted, RowsOf
<1> QED
  BY <1>1, <1>2, <1>3 DEF Fits

\* Statuses that leave every row open or closed as it was leave every event alone.
LEMMA EventsUntouched ==
  ASSUME EventsFit, UNCHANGED event_status,
         \A d \in Deliveries : /\ status'[d] = "absent" <=> status[d] = "absent"
                               /\ \/ status'[d] = status[d]
                                  \/ {status[d], status'[d]} \cap {"sent", "failed"} = {}
  PROVE  EventsFit'
<1> SUFFICES ASSUME NEW e \in Events, event_status[e] # "absent"
             PROVE  Fits(event_status[e], e, status)'
  BY DEF EventsFit
<1>1. RowsOf(e)' = RowsOf(e)
  BY DEF RowsOf
<1>2. Fits(event_status[e], e, status')
  BY FitsSame DEF EventsFit, RowsOf
<1> QED
  BY <1>1, <1>2 DEF Fits

\* An event is created with open rows or, without any channel, as failed.
LEMMA CreateFits ==
  ASSUME IInv, EventsFit, Accepted,
         NEW e \in Events, NEW rows \in SUBSET Deliveries, CreateSummary(e, rows)
  PROVE  EventsFit' /\ Accepted'
<1> USE AlertDeliveryAssumption DEF AlertDeliveryAssumption
<1>1. \A d \in Deliveries : EventOf[d] = e => status[d] = "absent"
  BY DEF IInv, RowsAgree, CreateSummary
<1>2. /\ rows \subseteq {d \in Deliveries : EventOf[d] = e}
      /\ status' = [d \in Deliveries |-> IF d \in rows THEN "pending" ELSE status[d]]
      /\ event_status' = [event_status EXCEPT ![e] = IF rows = {} THEN "failed" ELSE "pending"]
      /\ UNCHANGED <<inbox, answer>>
  BY DEF CreateSummary, workerVars
<1>3. RowsOf(e)' = rows
  BY <1>1, <1>2 DEF RowsOf
<1>4. \A f \in Events \ {e} : /\ RowsOf(f)' = RowsOf(f)
                              /\ \A d \in RowsOf(f) : status'[d] = status[d]
                              /\ event_status'[f] = event_status[f]
  BY <1>2 DEF RowsOf, IInv, TypeOK
<1>5. Fits(event_status[e], e, status)'
  BY <1>2, <1>3 DEF Fits, IInv, TypeOK
<1>6. EventsFit'
  BY <1>4, <1>5 DEF EventsFit, Fits
<1>7. Accepted'
  BY <1>2 DEF Accepted
<1> QED
  BY <1>6, <1>7

\* The refresh in the middle of the loop over a batch sees every row that the batch
\* gives up, and the open ones as open.
LEMMA ClaimFits ==
  ASSUME IInv, EventsFit, Accepted, NEW w \in Workers, Claim(w)
  PROVE  EventsFit' /\ Accepted'
<1> USE AlertDeliveryAssumption DEF AlertDeliveryAssumption
<1> DEFINE lost  == {d \in Selected : Exhausted(d)}
           taken == Selected \ lost
<1>1. /\ status' = [d \in Deliveries |-> IF d \in lost THEN "failed"
                                         ELSE IF d \in taken THEN "sending"
                                         ELSE status[d]]
      /\ event_status' = [e \in Events |->
                            IF \E d \in lost : EventOf[d] = e
                            THEN event_status_of(e, SeenInLoop(e, lost, status'))
                            ELSE event_status[e]]
      /\ UNCHANGED <<inbox, answer>>
  BY DEF Claim
<1>2. /\ lost \subseteq Deliveries /\ taken \subseteq Deliveries
      /\ \A d \in taken \cup lost : status[d] \in {"pending", "retry", "sending"}
  BY SelectedIsDue DEF IsDue
<1> HIDE DEF lost, taken
<1>3. \A d \in Deliveries : /\ status'[d] = "absent" <=> status[d] = "absent"
                            /\ status'[d] = "sent" => status[d] = "sent"
                            /\ d \notin lost =>
                                 \/ status'[d] = status[d]
                                 \/ {status[d], status'[d]} \cap {"sent", "failed"} = {}
  BY <1>1, <1>2
<1>4. \A e \in Events : RowsOf(e)' = RowsOf(e)
  BY <1>3 DEF RowsOf
<1>5. ASSUME NEW e \in Events, event_status'[e] # "absent"
      PROVE  Fits(event_status'[e], e, status')
  <2>1. CASE \E d \in lost : EventOf[d] = e
    <3> DEFINE seen == SeenInLoop(e, lost, status')
    <3>1. RowsOf(e) # {}
      BY <2>1, <1>2 DEF RowsOf
    <3>2. Fits(event_status'[e], e, seen)
      BY <1>1, <2>1, <3>1, RefreshFits
    <3>3. \A d \in RowsOf(e) : seen[d] \in {status[d], status'[d]}
      BY DEF SeenInLoop, RowsOf
    <3>4. \A d \in RowsOf(e) : d \in lost => seen[d] = status'[d]
      <4>1. \A d \in Deliveries : created[d] <= created[d]
        BY DEF IInv, TypeOK
      <4> QED
        BY <4>1 DEF SeenInLoop, RowsOf
    <3> HIDE DEF seen
    <3>5. \A d \in RowsOf(e) : \/ status'[d] = seen[d]
                               \/ {seen[d], status'[d]} \cap {"sent", "failed"} = {}
      BY <1>3, <3>3, <3>4 DEF RowsOf
    <3> QED
      BY <3>2, <3>5, FitsSame
  <2>2. CASE ~ \E d \in lost : EventOf[d] = e
    <3>1. event_status'[e] = event_status[e]
      BY <1>1, <2>2
    <3>2. \A d \in RowsOf(e) : d \notin lost
      BY <2>2 DEF RowsOf
    <3>3. Fits(event_status[e], e, status)
      BY <1>5, <3>1 DEF EventsFit
    <3> QED
      BY <1>3, <3>1, <3>2, <3>3, FitsSame DEF RowsOf
  <2> QED
    BY <2>1, <2>2
<1>6. EventsFit'
  BY <1>4, <1>5 DEF EventsFit, Fits
<1>7. Accepted'
  BY <1>1, <1>3 DEF Accepted
<1> QED
  BY <1>6, <1>7

\* The transaction that records an answer refreshes the event of its row.
LEMMA FinishFits ==
  ASSUME IInv, EventsFit, Accepted, NEW w \in Workers, Finish(w)
  PROVE  EventsFit' /\ Accepted'
<1> USE AlertDeliveryAssumption DEF AlertDeliveryAssumption
<1> DEFINE a == answer[w]
           d == a.delivery
<1>1. /\ a \in Answer /\ d \in Deliveries /\ EventOf[d] \in Events /\ a # NoAnswer
      /\ inbox' = inbox /\ answer' = [answer EXCEPT ![w] = NoAnswer]
  BY DEF Finish, IInv, TypeOK, Answer
<1>2. CASE ~ StillHeld(a)
  <2>1. UNCHANGED <<status, event_status>>
    BY <1>2 DEF Finish
  <2>2. EventsFit'
    BY <2>1, EventsUntouched
  <2> QED
    BY <1>1, <2>1, <2>2 DEF Accepted, IInv, TypeOK
<1>3. CASE StillHeld(a)
  <2>1. /\ status' = [status EXCEPT ![d] = finished_status(a)]
        /\ event_status' = [event_status EXCEPT ![EventOf[d]] =
                              event_status_of(EventOf[d], status')]
        /\ status[d] = "sending"
    BY <1>3 DEF Finish, StillHeld
  <2>2. /\ finished_status(a) \in {"sent", "retry", "failed"}
        /\ finished_status(a) = "sent" => a.success
    BY DEF finished_status
  <2> HIDE DEF a, d
  <2>3. \A c \in Deliveries : status'[c] = IF c = d THEN finished_status(a) ELSE status[c]
    BY <1>1, <2>1 DEF IInv, TypeOK
  <2>4. \A e \in Events : RowsOf(e)' = RowsOf(e)
    BY <2>1, <2>2, <2>3 DEF RowsOf
  <2>5. RowsOf(EventOf[d]) # {}
    BY <1>1, <2>1 DEF RowsOf
  <2>6. Fits(event_status'[EventOf[d]], EventOf[d], status')
    BY <1>1, <2>1, <2>5, RefreshFits DEF IInv, TypeOK
  <2>7. ASSUME NEW e \in Events, e # EventOf[d], event_status'[e] # "absent"
        PROVE  Fits(event_status'[e], e, status')
    <3>1. event_status'[e] = event_status[e]
      BY <1>1, <2>1, <2>7 DEF IInv, TypeOK
    <3>2. \A c \in RowsOf(e) : status'[c] = status[c]
      BY <2>3, <2>7 DEF RowsOf
    <3> QED
      BY <2>7, <3>1, <3>2, FitsSame DEF EventsFit
  <2>8. EventsFit'
    BY <2>4, <2>6, <2>7 DEF EventsFit, Fits
  <2>9. Accepted'
    BY <1>1, <2>2, <2>3 DEF Accepted, IInv, TypeOK, a, d
  <2> QED
    BY <2>8, <2>9
<1> QED
  BY <1>2, <1>3

\* A success is answered only for an accepted message; no message is taken back.
LEMMA SendFits ==
  ASSUME IInv, EventsFit, Accepted, NEW w \in Workers, NEW c \in batch[w],
         NEW accepted \in BOOLEAN, NEW success \in BOOLEAN, NEW retryable \in BOOLEAN,
         Send(w, c, accepted, success, retryable)
  PROVE  EventsFit' /\ Accepted'
<1> DEFINE a == [delivery |-> c.delivery, token |-> c.token,
                 success |-> success, retryable |-> retryable]
<1>1. /\ c.delivery \in Deliveries
      /\ success => accepted
      /\ inbox' = [inbox EXCEPT ![c.delivery] = @ + IF accepted THEN 1 ELSE 0]
      /\ answer' = [answer EXCEPT ![w] = a]
      /\ UNCHANGED <<status, event_status>>
  BY DEF Send, rowVars, IInv, TypeOK, Claimed
<1>2. a.delivery = c.delivery /\ (a.success => accepted)
  BY <1>1
<1> HIDE DEF a
<1>3. \A d \in Deliveries : /\ inbox[d] \in Nat /\ inbox'[d] \in Nat /\ inbox'[d] >= inbox[d]
                            /\ d = c.delivery /\ accepted => inbox'[d] > 0
  BY <1>1 DEF IInv, TypeOK
<1>4. \A v \in Workers : answer'[v] = IF v = w THEN a ELSE answer[v]
  BY <1>1 DEF IInv, TypeOK
<1>5. \A v \in Workers : answer[v] # NoAnswer => answer[v].delivery \in Deliveries
  BY DEF IInv, TypeOK, Answer
<1>6. \A d \in Deliveries : inbox[d] > 0 => inbox'[d] > 0
  BY <1>3
<1>7. Accepted'
  <2>1. \A d \in Deliveries : status'[d] = "sent" => inbox'[d] > 0
    BY <1>1, <1>6 DEF Accepted
  <2>2. ASSUME NEW v \in Workers, answer'[v] # NoAnswer, answer'[v].success
        PROVE  inbox'[answer'[v].delivery] > 0
    <3>1. CASE v = w
      <4>1. answer'[v].delivery = c.delivery /\ accepted
        BY <1>2, <1>4, <2>2, <3>1
      <4> QED
        BY <1>1, <1>3, <4>1
    <3>2. CASE v # w
      BY <1>4, <1>5, <1>6, <2>2, <3>2 DEF Accepted
    <3> QED
      BY <3>1, <3>2
  <2> QED
    BY <2>1, <2>2 DEF Accepted
<1>8. EventsFit'
  BY <1>1, EventsUntouched
<1> QED
  BY <1>7, <1>8

LEMMA StepFits == IInv /\ EventsFit /\ Accepted /\ [Next]_vars => (EventsFit /\ Accepted)'
<1> SUFFICES ASSUME IInv, EventsFit, Accepted, [Next]_vars PROVE (EventsFit /\ Accepted)'
  OBVIOUS
<1>1. CASE \/ \E d \in Deliveries : LeaseExpires(d) \/ RetryFallsDue(d)
           \/ \E w \in Workers : Crash(w)
           \/ UNCHANGED vars
  <2>1. /\ UNCHANGED <<status, event_status, inbox>>
        /\ \A w \in Workers : answer'[w] \in {answer[w], NoAnswer}
    BY <1>1 DEF LeaseExpires, RetryFallsDue, Crash, vars, rowVars, workerVars, IInv, TypeOK
  <2>2. EventsFit'
    BY <2>1, EventsUntouched
  <2> QED
    BY <2>1, <2>2 DEF Accepted
<1>2. CASE \E w \in Workers : SendAny(w)
  BY <1>2, SendFits DEF SendAny
<1> QED
  BY <1>1, <1>2, CreateFits, ClaimFits, FinishFits DEF Next

\* The status of a summary event never contradicts its rows, also when it was computed
\* in the middle of a batch (_claim_deliveries, _finish_delivery, _event_status).
THEOREM EventsMatchRows == Spec => []EventMatchesRows
<1>1. Init => EventsFit /\ Accepted
  BY DEF Init, EventsFit, Accepted
<1>2. Spec => [](EventsFit /\ Accepted)
  BY <1>1, OutboxInvariant, StepFits, PTL DEF Spec
<1> QED
  BY <1>2, EventFollows, PTL

-----------------------------------------------------------------------------
(* The refinement of SummaryOutbox.                                        *)

\* A row makes a step of SummaryOutbox; it is added only with its summary.
RowStep(d) ==
  \/ Outbox!Untouched(d) \/ Outbox!Attempt(d) \/ Outbox!Accept(d) \/ Outbox!Close(d)
  \/ Outbox!Add(d) /\ event_status[EventOf[d]] = "absent"

\* The step of a row, read off the columns.
LEMMA RowStepIs ==
  ASSUME NEW d \in Deliveries
  PROVE  /\ /\ outcome_of(status'[d]) = outcome_of(status[d])
            /\ attempt_count'[d] = attempt_count[d] /\ inbox'[d] = inbox[d]
            => Outbox!Untouched(d)
         /\ /\ status[d] = "absent" /\ status'[d] = "pending"
            /\ attempt_count'[d] = attempt_count[d] /\ inbox'[d] = inbox[d]
            => Outbox!Add(d)
         /\ /\ outcome_of(status[d]) = "open" /\ status'[d] = "sending"
            /\ attempt_count[d] < MaxAttempts /\ attempt_count'[d] = attempt_count[d] + 1
            /\ inbox'[d] = inbox[d]
            => Outbox!Attempt(d)
         /\ /\ status'[d] = status[d] /\ attempt_count'[d] = attempt_count[d]
            /\ inbox[d] < attempt_count[d] /\ inbox'[d] = inbox[d] + 1
            => Outbox!Accept(d)
         /\ /\ status[d] = "sending"
            /\ \/ status'[d] = "sent" /\ inbox[d] > 0
               \/ status'[d] = "failed" /\ attempt_count[d] > 0
            /\ attempt_count'[d] = attempt_count[d] /\ inbox'[d] = inbox[d]
            => Outbox!Close(d)
<1>1. Outbox!Untouched(d) <=> /\ outcome_of(status'[d]) = outcome_of(status[d])
                              /\ attempt_count'[d] = attempt_count[d]
                              /\ inbox'[d] = inbox[d]
  BY DEF Outbox!Untouched, outcome_of
<1>2. \A before, after : Outbox!Becomes(d, before, after) <=>
                           outcome_of(status[d]) = before /\ outcome_of(status'[d]) = after
  BY DEF Outbox!Becomes, outcome_of
<1>3. Outbox!Accept(d) <=> /\ outcome_of(status'[d]) = outcome_of(status[d])
                           /\ attempt_count'[d] = attempt_count[d]
                           /\ inbox[d] < attempt_count[d] /\ inbox'[d] = inbox[d] + 1
  BY DEF Outbox!Accept, outcome_of
<1>4. /\ outcome_of("absent") = "absent" /\ outcome_of("pending") = "open"
      /\ outcome_of("sending") = "open" /\ outcome_of("sent") = "sent"
      /\ outcome_of("failed") = "failed"
  BY DEF outcome_of
<1> QED
  BY <1>1, <1>2, <1>3, <1>4 DEF Outbox!Add, Outbox!Attempt, Outbox!Close

LEMMA CreateRow ==
  ASSUME IInv, NEW e \in Events, NEW rows \in SUBSET Deliveries, CreateSummary(e, rows),
         NEW d \in Deliveries
  PROVE  RowStep(d)
<1>1. /\ status'[d] = IF d \in rows THEN "pending" ELSE status[d]
      /\ attempt_count' = attempt_count /\ inbox' = inbox
  BY DEF CreateSummary
<1>2. d \in rows => EventOf[d] = e /\ event_status[EventOf[d]] = "absent" /\ status[d] = "absent"
  BY DEF CreateSummary, IInv, RowsAgree
<1> QED
  BY <1>1, <1>2, RowStepIs DEF RowStep

LEMMA ClaimRow ==
  ASSUME IInv, NEW w \in Workers, Claim(w), NEW d \in Deliveries
  PROVE  RowStep(d)
<1> USE AlertDeliveryAssumption DEF AlertDeliveryAssumption
<1> DEFINE lost  == {r \in Selected : Exhausted(r)}
           taken == Selected \ lost
<1>1. /\ status'[d] = IF d \in lost THEN "failed" ELSE IF d \in taken THEN "sending"
                      ELSE status[d]
      /\ attempt_count'[d] = IF d \in taken THEN attempt_count[d] + 1 ELSE attempt_count[d]
      /\ inbox' = inbox
  BY DEF Claim, next_attempt
<1>2. d \in lost => status[d] = "sending" /\ attempt_count[d] > 0
  BY DEF Exhausted, IInv, TypeOK
<1>3. d \in taken => status[d] \in {"pending", "retry", "sending"}
                     /\ attempt_count[d] < MaxAttempts
  BY SelectedIsDue DEF IsDue, Exhausted, IInv, TypeOK, RowsAgree
<1>4. ~ (d \in lost /\ d \in taken)
  OBVIOUS
<1> HIDE DEF lost, taken
<1>5. CASE d \in lost
  BY <1>1, <1>2, <1>4, <1>5, RowStepIs DEF RowStep
<1>6. CASE d \in taken
  <2>1. outcome_of(status[d]) = "open"
    BY <1>3, <1>6 DEF outcome_of
  <2> QED
    BY <1>1, <1>3, <1>4, <1>6, <2>1, RowStepIs DEF RowStep
<1>7. CASE d \notin lost /\ d \notin taken
  BY <1>1, <1>7, RowStepIs DEF RowStep
<1> QED
  BY <1>5, <1>6, <1>7

\* The sender of a message still counts among those who hold its row.
LEMMA SendRow ==
  ASSUME IInv, SendInv, NEW w \in Workers, NEW c \in batch[w],
         NEW accepted \in BOOLEAN, NEW success \in BOOLEAN, NEW retryable \in BOOLEAN,
         Send(w, c, accepted, success, retryable), NEW d \in Deliveries
  PROVE  RowStep(d)
<1>1. /\ UNCHANGED <<status, attempt_count>>
      /\ inbox'[d] = IF c.delivery = d /\ accepted THEN inbox[d] + 1 ELSE inbox[d]
  BY DEF Send, rowVars, IInv, TypeOK
<1>2. c.delivery = d => inbox[d] < attempt_count[d]
  <2> SUFFICES ASSUME c.delivery = d PROVE inbox[d] < attempt_count[d]
    OBVIOUS
  <2>1. w \in InFlight(d)
    BY DEF InFlight
  <2>2. IsFiniteSet(InFlight(d)) /\ inbox[d] + Cardinality(InFlight(d)) <= attempt_count[d]
    BY DEF SendInv, FlightBound
  <2>3. Cardinality(InFlight(d)) \in Nat /\ Cardinality(InFlight(d)) # 0
    BY <2>1, <2>2, FS_EmptySet, FS_CardinalityType
  <2>4. inbox[d] \in Nat /\ attempt_count[d] \in Nat
    BY DEF IInv, TypeOK
  <2> QED
    BY <2>2, <2>3, <2>4
<1> QED
  BY <1>1, <1>2, RowStepIs DEF RowStep

LEMMA FinishRow ==
  ASSUME IInv, Accepted, NEW w \in Workers, Finish(w), NEW d \in Deliveries
  PROVE  RowStep(d)
<1> DEFINE a == answer[w]
<1>1. /\ a \in Answer /\ a # NoAnswer
      /\ UNCHANGED <<attempt_count, inbox>>
      /\ \/ status' = status
         \/ StillHeld(a) /\ status' = [status EXCEPT ![a.delivery] = finished_status(a)]
  BY DEF Finish, IInv, TypeOK
<1>2. a.delivery \in Deliveries /\ a.token \in 1 .. MaxAttempts
  BY <1>1 DEF Answer
<1>3. a.success => inbox[a.delivery] > 0
  BY <1>1 DEF Accepted
<1> HIDE DEF a
<1>4. CASE status'[d] = status[d]
  BY <1>1, <1>4, RowStepIs DEF RowStep
<1>5. CASE status'[d] # status[d]
  <2>1. d = a.delivery /\ StillHeld(a) /\ status'[d] = finished_status(a)
    BY <1>1, <1>2, <1>5 DEF IInv, TypeOK
  <2>2. status[d] = "sending" /\ attempt_count[d] > 0
    <3>1. status[d] = "sending" /\ lease_token[d] = a.token
      BY <2>1 DEF StillHeld
    <3>2. attempt_count[d] = a.token
      BY <3>1 DEF IInv, RowsAgree
    <3> QED
      BY <1>2, <3>1, <3>2, AlertDeliveryAssumption DEF AlertDeliveryAssumption
  <2>3. \/ status'[d] = "sent" /\ inbox[d] > 0
        \/ status'[d] = "retry"
        \/ status'[d] = "failed"
    BY <1>3, <2>1 DEF finished_status
  <2>4. status'[d] = "retry" => outcome_of(status'[d]) = outcome_of(status[d])
    BY <2>2 DEF outcome_of
  <2> QED
    BY <1>1, <2>2, <2>3, <2>4, RowStepIs DEF RowStep
<1> QED
  BY <1>4, <1>5

LEMMA EveryRowSteps ==
  ASSUME IInv, SendInv, Accepted, [Next]_vars, NEW d \in Deliveries
  PROVE  RowStep(d)
<1>1. CASE \/ \E r \in Deliveries : LeaseExpires(r) \/ RetryFallsDue(r)
           \/ \E w \in Workers : Crash(w)
           \/ UNCHANGED vars
  <2>1. UNCHANGED <<status, attempt_count, inbox>>
    BY <1>1 DEF LeaseExpires, RetryFallsDue, Crash, vars, rowVars
  <2> QED
    BY <2>1, RowStepIs DEF RowStep
<1>2. CASE \E w \in Workers : SendAny(w)
  BY <1>2, SendRow DEF SendAny
<1> QED
  BY <1>1, <1>2, CreateRow, ClaimRow, FinishRow DEF Next

\* A status that fits the rows of its event maps to SummaryOutbox's verdict on them.
LEMMA FittingVerdict ==
  ASSUME NEW v \in EventStatus, NEW e, NEW st, Fits(v, e, st),
         \A d \in RowsOf(e) : st[d] \in Status,
         \A d \in Deliveries : EventOf[d] = e /\ d \notin RowsOf(e) => st[d] = "absent"
  PROVE  verdict_of(v) = Outbox!VerdictOn(e, [d \in Deliveries |-> outcome_of(st[d])])
<1> DEFINE out == [d \in Deliveries |-> outcome_of(st[d])]
<1>1. RowsOf(e) = {d \in Outbox!Channels(e) : out[d] # "absent"}
  BY DEF RowsOf, Outbox!Channels, outcome_of, Status
<1>2. \A d \in RowsOf(e) : /\ out[d] = "sent" <=> st[d] = "sent"
                           /\ out[d] = "failed" <=> st[d] = "failed"
  BY DEF RowsOf, outcome_of, Status
<1> HIDE DEF out
<1>3. CASE \A d \in RowsOf(e) : st[d] = "failed"
  <2>1. v = "failed"
    BY <1>3 DEF Fits
  <2> QED
    BY <1>1, <1>2, <1>3, <2>1 DEF Outbox!VerdictOn, verdict_of, out
<1>4. CASE /\ ~ \A d \in RowsOf(e) : st[d] = "failed"
           /\ \A d \in RowsOf(e) : st[d] = "sent"
  <2>1. v = "delivered"
    BY <1>4 DEF Fits
  <2> QED
    BY <1>1, <1>2, <1>4, <2>1 DEF Outbox!VerdictOn, verdict_of, out
<1>5. CASE /\ \E d \in RowsOf(e) : st[d] = "sent"
           /\ ~ \A d \in RowsOf(e) : st[d] = "sent"
  <2>1. v = "partial"
    BY <1>5 DEF Fits
  <2> QED
    BY <1>1, <1>2, <1>5, <2>1 DEF Outbox!VerdictOn, verdict_of, out
<1>6. CASE /\ ~ \A d \in RowsOf(e) : st[d] = "failed"
           /\ ~ \E d \in RowsOf(e) : st[d] = "sent"
  <2>1. v \in {"pending", "sending"}
    BY <1>6 DEF Fits, EventStatus
  <2> QED
    BY <1>1, <1>2, <1>6, <2>1 DEF Outbox!VerdictOn, verdict_of, out
<1> QED
  BY <1>3, <1>4, <1>5, <1>6

\* What SummaryOutbox says of a summary is the mapped status of its event.
VerdictsFit ==
  \A e \in Events : event_status[e] # "absent" =>
    verdict_of(event_status[e])
      = Outbox!VerdictOn(e, [d \in Deliveries |-> outcome_of(status[d])])

LEMMA VerdictsAre == IInv /\ EventsFit => VerdictsFit
<1> SUFFICES ASSUME IInv, EventsFit, NEW e \in Events, event_status[e] # "absent"
             PROVE  verdict_of(event_status[e])
                      = Outbox!VerdictOn(e, [d \in Deliveries |-> outcome_of(status[d])])
  BY DEF VerdictsFit
<1>1. event_status[e] \in EventStatus /\ Fits(event_status[e], e, status)
  BY DEF IInv, TypeOK, EventsFit
<1>2. /\ \A d \in RowsOf(e) : status[d] \in Status
      /\ \A d \in Deliveries : EventOf[d] = e /\ d \notin RowsOf(e) => status[d] = "absent"
  BY DEF IInv, TypeOK, RowsOf
<1> QED
  BY <1>1, <1>2, FittingVerdict

\* A summary that was created stays.
LEMMA SummariesStay ==
  ASSUME IInv, [Next]_vars, NEW e \in Events, event_status[e] # "absent"
  PROVE  event_status'[e] # "absent"
<1>1. CASE \E w \in Workers : Claim(w)
  BY <1>1, RefreshedEvent DEF Claim, EventStatus
<1>2. CASE \E w \in Workers : Finish(w)
  BY <1>2, RefreshedEvent DEF Finish, EventStatus, IInv, TypeOK
<1>3. CASE \E f \in Events : \E rows \in SUBSET Deliveries : CreateSummary(f, rows)
  BY <1>3 DEF CreateSummary, IInv, TypeOK
<1>4. CASE \/ \E d \in Deliveries : LeaseExpires(d) \/ RetryFallsDue(d)
           \/ \E w \in Workers : SendAny(w) \/ Crash(w)
           \/ UNCHANGED vars
  BY <1>4 DEF LeaseExpires, RetryFallsDue, SendAny, Send, Crash, vars
<1> QED
  BY <1>1, <1>2, <1>3, <1>4 DEF Next

\* Before its summary is created a row can only be added.
LEMMA AbsentRow ==
  ASSUME IInv, NEW d \in Deliveries, event_status[EventOf[d]] = "absent", RowStep(d)
  PROVE  Outbox!Untouched(d) \/ Outbox!Add(d)
<1>1. status[d] = "absent" /\ attempt_count[d] = 0 /\ inbox[d] \in Nat
  BY DEF IInv, TypeOK, RowsAgree
<1>2. outcome_of(status[d]) = "absent"
  BY <1>1 DEF outcome_of
<1>3. ~ Outbox!Attempt(d) /\ ~ Outbox!Close(d)
  BY <1>2 DEF Outbox!Attempt, Outbox!Close, Outbox!Becomes
<1>4. ~ Outbox!Accept(d)
  BY <1>1 DEF Outbox!Accept
<1> QED
  BY <1>3, <1>4 DEF RowStep

\* Every step of the outbox is, for each summary, a step that SummaryOutbox allows.
LEMMA StepRefines ==
  ASSUME IInv, SendInv, EventsFit, Accepted, [Next]_vars, IInv', VerdictsFit'
  PROVE  Outbox!Next
<1> DEFINE shown   == [e \in Events |-> verdict_of(event_status[e])]
           outcome == [d \in Deliveries |-> outcome_of(status[d])]
<1>1. ASSUME NEW e \in Events
      PROVE  Outbox!Rest(e) \/ Outbox!Announce(e) \/ Outbox!Deliver(e)
  <2>1. \A d \in Outbox!Channels(e) : d \in Deliveries /\ EventOf[d] = e /\ RowStep(d)
    BY EveryRowSteps DEF Outbox!Channels
  <2>2. /\ shown[e] = verdict_of(event_status[e])
        /\ shown'[e] = verdict_of(event_status'[e])
        /\ \A v : verdict_of(v) = "absent" <=> v = "absent"
    BY DEF verdict_of
  <2>3. event_status'[e] # "absent" => shown'[e] = Outbox!VerdictOn(e, outcome')
    BY <2>2 DEF VerdictsFit
  <2>4. CASE event_status[e] = "absent" /\ event_status'[e] = "absent"
    <3>1. \A d \in Outbox!Channels(e) : status'[d] = "absent"
      BY <2>1, <2>4 DEF IInv, RowsAgree
    <3>2. \A d \in Outbox!Channels(e) : ~ Outbox!Add(d)
      <4>1. outcome_of("absent") # "open"
        BY DEF outcome_of
      <4> QED
        BY <2>1, <3>1, <4>1 DEF Outbox!Add, Outbox!Becomes
    <3>3. \A d \in Outbox!Channels(e) : Outbox!Untouched(d)
      BY <2>1, <2>4, <3>2, AbsentRow
    <3> QED
      BY <2>2, <2>4, <3>3 DEF Outbox!Rest
  <2>5. CASE event_status[e] = "absent" /\ event_status'[e] # "absent"
    <3>1. \A d \in Outbox!Channels(e) : Outbox!Untouched(d) \/ Outbox!Add(d)
      BY <2>1, <2>5, AbsentRow
    <3> QED
      BY <2>2, <2>3, <2>5, <3>1 DEF Outbox!Announce
  <2>6. CASE event_status[e] # "absent"
    <3>1. event_status'[e] # "absent"
      BY <2>6, SummariesStay
    <3>2. \A d \in Outbox!Channels(e) :
            \/ Outbox!Untouched(d) \/ Outbox!Attempt(d) \/ Outbox!Accept(d) \/ Outbox!Close(d)
      BY <2>1, <2>6 DEF RowStep
    <3> QED
      BY <2>2, <2>3, <2>6, <3>1, <3>2 DEF Outbox!Deliver
  <2> QED
    BY <2>4, <2>5, <2>6
<1> QED
  BY <1>1 DEF Outbox!Next

LEMMA InitRefines == Init => Outbox!Init
  BY AlertDeliveryAssumption
  DEF Init, Outbox!Init, outcome_of, verdict_of, AlertDeliveryAssumption

\* The outbox keeps what SummaryOutbox promises of every summary, for any number of
\* summaries, channels and Workers (_claim_deliveries, send_alert, _finish_delivery).
THEOREM OutboxKeepsItsPromise == Spec => ImplementsOutbox
<1>1. Spec => [](IInv /\ SendInv /\ EventsFit /\ Accepted /\ VerdictsFit)
  <2>1. Init => EventsFit /\ Accepted
    BY DEF Init, EventsFit, Accepted
  <2> QED
    BY <2>1, InitHolds, InitBounded, StepKeeps, StepBounded, StepFits, VerdictsAre, PTL DEF Spec
<1>2. (IInv /\ SendInv /\ EventsFit /\ Accepted /\ VerdictsFit) /\ [Next]_vars
      /\ (IInv /\ SendInv /\ EventsFit /\ Accepted /\ VerdictsFit)'
      => [Outbox!Next]_(Outbox!outboxVars)
  BY StepRefines
<1> QED
  BY <1>1, <1>2, InitRefines, PTL DEF Spec, ImplementsOutbox, Outbox!Spec

\* The verdict on a summary is kept once it is known: its rows are closed and no row
\* is added.
LEMMA VerdictsStay ==
  ASSUME IInv, SendInv, EventsFit, Accepted, [Next]_vars, EventsFit'
  PROVE  KeepsVerdicts
<1> SUFFICES ASSUME NEW e \in Events
             PROVE  /\ event_status[e] \in {"delivered", "failed"} =>
                         event_status'[e] = event_status[e]
                    /\ event_status[e] = "partial" =>
                         event_status'[e] \in {"partial", "delivered"}
  BY DEF KeepsVerdicts
<1>1. CASE event_status[e] = "absent"
  BY <1>1
<1>2. CASE event_status[e] # "absent"
  <2>1. ASSUME NEW d \in Deliveries, EventOf[d] = e
        PROVE  /\ status'[d] = "absent" <=> status[d] = "absent"
               /\ status[d] \in {"sent", "failed"} => status'[d] = status[d]
    <3>1. RowStep(d)
      BY EveryRowSteps
    <3>2. /\ \A before, after : Outbox!Becomes(d, before, after) <=>
               outcome_of(status[d]) = before /\ outcome_of(status'[d]) = after
          /\ Outbox!Untouched(d) => outcome_of(status'[d]) = outcome_of(status[d])
          /\ Outbox!Accept(d) => outcome_of(status'[d]) = outcome_of(status[d])
      BY DEF Outbox!Becomes, Outbox!Untouched, Outbox!Accept, outcome_of
    <3>3. \/ outcome_of(status'[d]) = outcome_of(status[d])
          \/ outcome_of(status[d]) = "open" /\ outcome_of(status'[d]) \in {"open", "sent", "failed"}
      BY <1>2, <2>1, <3>1, <3>2 DEF RowStep, Outbox!Attempt, Outbox!Close
    <3> QED
      BY <3>3 DEF outcome_of
  <2>2. RowsOf(e)' = RowsOf(e)
    BY <2>1 DEF RowsOf
  <2>3. \A d \in RowsOf(e) : status[d] \in {"sent", "failed"} => status'[d] = status[d]
    BY <2>1 DEF RowsOf
  <2>4. event_status'[e] # "absent"
    BY <1>2, SummariesStay
  <2>5. Fits(event_status[e], e, status) /\ Fits(event_status'[e], e, status')
    <3>1. Fits(event_status[e], e, status)'
      BY <2>4 DEF EventsFit
    <3> QED
      BY <1>2, <2>2, <3>1 DEF EventsFit, Fits
  <2>6. CASE event_status[e] = "delivered"
    BY <2>3, <2>5, <2>6 DEF Fits
  <2>7. CASE event_status[e] = "failed"
    BY <2>3, <2>5, <2>7 DEF Fits
  <2>8. CASE event_status[e] = "partial"
    <3>1. \E d \in RowsOf(e) : status'[d] = "sent"
      BY <2>3, <2>5, <2>8 DEF Fits
    <3> QED
      BY <2>5, <2>8, <3>1 DEF Fits
  <2> QED
    BY <2>6, <2>7, <2>8
<1> QED
  BY <1>1, <1>2

\* Rows that were sent or given up stay so, a row with an attempt left is given up
\* only on a final answer to its latest claim, and a summary that was delivered or
\* has failed keeps its verdict (_finish_delivery, _claim_deliveries, _event_status).
THEOREM ClosedRowsAreFinal == Spec => ClosedRowsStay
<1>1. Spec => [](IInv /\ SendInv /\ EventsFit /\ Accepted)
  <2>1. Init => EventsFit /\ Accepted
    BY DEF Init, EventsFit, Accepted
  <2> QED
    BY <2>1, InitHolds, InitBounded, StepKeeps, StepBounded, StepFits, PTL DEF Spec
<1>2. (IInv /\ SendInv /\ EventsFit /\ Accepted) /\ [Next]_vars
      /\ (IInv /\ SendInv /\ EventsFit /\ Accepted)'
      => [GivesUpOnlyWhenTold /\ KeepsVerdicts]_vars
  BY GivenUpWhenTold, VerdictsStay
<1> QED
  BY <1>1, <1>2, PTL DEF Spec, ClosedRowsStay

\* What Workers hold of a row: their messages fit the attempts of the row, and the
\* answer of its latest claim will be recorded (deliver_due_alerts).
THEOREM HeldRowsAreAccounted == Spec => []HeldRowsCount
  BY MessagesAreBounded, LatestAnswerIsRecorded, PTL DEF HeldRowsCount
=============================================================================
