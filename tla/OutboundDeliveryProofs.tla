------------------------- MODULE OutboundDeliveryProofs -------------------------
(***************************************************************************)
(* LoopInv is an invariant of OutboundDelivery for every retry limit, base *)
(* delay and set of Retry-After values; what it says of the requests, of   *)
(* the copies and of the caller's view follows.                            *)
(***************************************************************************)
EXTENDS OutboundDelivery, TLAPS

LEMMA InitLoopInv == SendInit => LoopInv
<1>. SUFFICES ASSUME SendInit PROVE LoopInv
  OBVIOUS
<1>1. SendTypeOK
  BY DEF SendInit, SendTypeOK
<1>2. CopiesAreDoubtful
  BY DEF SendInit, CopiesAreDoubtful
<1>. QED  BY <1>1, <1>2, DeliveryAssumption DEF SendInit, LoopInv, DeliveryAssumption

\* What a retry adds to the total of the waits.
LEMMA RetryWaits ==
  ASSUME SendTypeOK, NEW answer \in GraphAnswer, Resend(answer)
  PROVE  /\ slept' \in Nat /\ asked' \in Nat
         /\ slept' + asked <= slept + asked' + 60
<1>1. CASE \E delay \in Backoff(sendAttempt) : slept' = slept + delay /\ UNCHANGED asked
  <2>1. PICK delay \in 0..60 : slept' = slept + delay /\ asked' = asked
    BY <1>1 DEF Backoff
  <2>. QED  BY <2>1 DEF SendTypeOK
<1>2. CASE \E delay \in RetryAfters \ {0} : slept' = slept + delay /\ asked' = asked + delay
  BY <1>2, DeliveryAssumption DEF SendTypeOK, DeliveryAssumption
<1>. QED  BY <1>1, <1>2 DEF Resend

\* A minute more for one attempt more stays within a minute per retry.
LEMMA WaitBudget ==
  ASSUME NEW s \in Nat, NEW a \in Nat, NEW s1 \in Nat, NEW a1 \in Nat,
         NEW n \in Nat, NEW max \in Nat,
         s <= a + 60 * n, s1 + a <= s + a1 + 60, n < max
  PROVE  s1 <= a1 + 60 * n + 60 /\ s1 <= a1 + 60 * max
OBVIOUS

\* An answer pays for the copy it leaves in doubt.
LEMMA Copies ==
  ASSUME SendTypeOK, CopiesAreDoubtful, NEW answer \in GraphAnswer, Answered(answer)
  PROVE  doubtful' \in Nat /\ CopiesAreDoubtful'
<1>1. CASE answer \in Doubtful
  BY <1>1 DEF SendTypeOK, CopiesAreDoubtful, Answered
<1>2. CASE answer \notin Doubtful
  BY <1>2 DEF SendTypeOK, CopiesAreDoubtful, Answered
<1>. QED  BY <1>1, <1>2

LEMMA StepLoopInv == LoopInv /\ [SendNext]_sendVars => LoopInv'
<1>. SUFFICES ASSUME LoopInv, [SendNext]_sendVars PROVE LoopInv'
  OBVIOUS
<1>. USE DeliveryAssumption DEF LoopInv, SendTypeOK, CopiesAreDoubtful, DeliveryAssumption
<1>1. CASE Accepted
  BY <1>1 DEF Accepted
<1>2. CASE TakenUnheard
  BY <1>2 DEF TakenUnheard
<1>3. ASSUME NEW answer \in GraphAnswer, Resend(answer) PROVE LoopInv'
  <2>1. slept' \in Nat /\ asked' \in Nat /\ slept' + asked <= slept + asked' + 60
    BY <1>3, RetryWaits
  <2>2. Answered(answer) /\ sendAttempt < MaxResends /\ phase' = "wait"
    BY <1>3 DEF Resend, MayRetry
  <2>3. answer \in WaitsAfter
    BY <1>3 DEF Resend, GraphAnswer, ErrorOf, Retryable, WaitsAfter
  <2>4. phase = "call" /\ took' = FALSE /\ last' = answer
        /\ UNCHANGED <<sendAttempt, requests, taken, result>>
    BY <2>2 DEF Answered
  <2>5. doubtful' \in Nat /\ CopiesAreDoubtful'
    BY <1>3, <2>2, Copies
  <2>6. slept <= asked + 60 * sendAttempt
    BY <2>4
  <2>7. slept' <= asked' + 60 * sendAttempt + 60 /\ slept' <= asked' + 60 * MaxResends
    <3>1. PICK s \in Nat, a \in Nat : s = slept' /\ a = asked'
      BY <2>1
    <3>2. s + asked <= slept + a + 60
      BY <2>1, <3>1
    <3>3. s <= a + 60 * sendAttempt + 60 /\ s <= a + 60 * MaxResends
      BY <2>2, <2>6, <3>2, WaitBudget
    <3>. QED  BY <3>1, <3>3
  <2>8. SendTypeOK'
    BY <2>1, <2>2, <2>4, <2>5
  <2>. QED  BY <2>2, <2>3, <2>4, <2>5, <2>7, <2>8
<1>4. ASSUME NEW answer \in GraphAnswer, GiveUp(answer) PROVE LoopInv'
  <2>1. ErrorOf[answer] \in Retryable => sendAttempt = MaxResends
    BY <1>4 DEF GiveUp, MayRetry
  <2>2. doubtful' \in Nat /\ CopiesAreDoubtful'
    BY <1>4, Copies DEF GiveUp
  <2>3. phase = "call" /\ phase' = "raise" /\ took' = FALSE /\ last' = answer
        /\ UNCHANGED <<sendAttempt, requests, taken, result, slept, asked>>
    BY <1>4 DEF GiveUp, Answered
  <2>. QED  BY <2>1, <2>2, <2>3
<1>5. CASE Wake
  BY <1>5 DEF Wake
<1>6. CASE RaiseLast
  BY <1>6 DEF RaiseLast
<1>7. CASE UNCHANGED sendVars
  BY <1>7 DEF sendVars
<1>. QED  BY <1>1, <1>2, <1>3, <1>4, <1>5, <1>6, <1>7 DEF SendNext, Returned

\* The loop's bookkeeping holds in every execution of a call (the for loop of
\* OutboundMessageService.send_message).
THEOREM LoopInvariant == SendSpec => []LoopInv
<1>. QED  BY InitLoopInv, StepLoopInv, PTL DEF SendSpec

\* A reply reaches the user more often than once only through answers that
\* left its fate open, for every retry limit (outbound.py, meta/client.py).
THEOREM CopiesOnlyFromDoubt == SendSpec => []CopiesAreDoubtful
<1>1. LoopInv => CopiesAreDoubtful
  BY DEF LoopInv
<1>. QED  BY <1>1, LoopInvariant, PTL

\* At most max_retries + 1 requests, and no retryable error surfaces before
\* the last of them (the "attempt >= max_retries" breaks of outbound.py).
THEOREM RetriesBounded == SendSpec => []RetriesSpent
<1>1. LoopInv => RetriesSpent
  BY DeliveryAssumption DEF LoopInv, SendTypeOK, RetriesSpent, DeliveryAssumption
<1>. QED  BY <1>1, LoopInvariant, PTL

\* No request follows a refusal: the except clauses of outbound.py that raise
\* at once get every error _map_http_error makes of one.
THEOREM RefusalsNeverRetried == SendSpec => RefusalsAreFinal
<1>1. LoopInv /\ [SendNext]_sendVars => [requests' # requests => last \in WaitsAfter]_sendVars
  BY DEF LoopInv, SendNext, Accepted, TakenUnheard, Resend, GiveUp, Answered, Wake,
         RaiseLast, Returned, sendVars
<1>. QED  BY <1>1, LoopInvariant, PTL DEF SendSpec, RefusalsAreFinal

\* However the provider answers, the webhook request is held up for at most a
\* minute per retry, and for what the provider asked on top (_backoff).
THEOREM DelaysBounded == SendSpec => []HeldUpBriefly
<1>1. LoopInv => HeldUpBriefly
  BY DeliveryAssumption DEF LoopInv, SendTypeOK, HeldUpBriefly, DeliveryAssumption
<1>. QED  BY <1>1, LoopInvariant, PTL

\* The call implements the abstract one its caller reasons with.
THEOREM DeliveryImplementsReplySend == SendSpec => ImplementsReplySend
<1>1. SendInit => Call!Init
  BY DEF SendInit, Call!Init
<1>2. LoopInv /\ [SendNext]_sendVars => [Call!Next]_Call!vars
  <2>. SUFFICES ASSUME LoopInv, [SendNext]_sendVars PROVE [Call!Next]_Call!vars
    OBVIOUS
  <2>. USE DEF Call!Next, Call!vars, LoopInv
  <2>1. CASE Accepted
    BY <2>1 DEF Accepted, Call!Succeed
  <2>2. CASE TakenUnheard
    BY <2>2 DEF TakenUnheard, Call!TakenUnheard
  <2>3. ASSUME NEW answer \in GraphAnswer, Resend(answer) \/ GiveUp(answer)
        PROVE  UNCHANGED Call!vars
    BY <2>3 DEF Resend, GiveUp, Answered
  <2>4. CASE Wake
    BY <2>4 DEF Wake
  <2>5. CASE RaiseLast
    BY <2>5 DEF RaiseLast, Call!RaiseError
  <2>6. CASE UNCHANGED sendVars
    BY <2>6 DEF sendVars
  <2>. QED  BY <2>1, <2>2, <2>3, <2>4, <2>5, <2>6 DEF SendNext, Returned
<1>. QED  BY <1>1, <1>2, LoopInvariant, PTL DEF SendSpec, ImplementsReplySend, Call!Spec
=============================================================================
