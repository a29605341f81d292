---------------------------- MODULE OutboundDelivery ----------------------------
(***************************************************************************)
(* One call of OutboundMessageService.send_message over MetaWhatsAppClient *)
(* and the Graph API: requests, what their answers are taken for, waits,   *)
(* and the error the caller finally sees.  WebhookPipeline takes such a    *)
(* call for what ReplySend says of it; this module is the call itself.     *)
(* Delays are in whole seconds; the jitter is any of them up to the base.  *)
(*                                                                         *)
(* As in WebhookPipeline, a definition marked as a seeded error is used by *)
(* no action.                                                              *)
(***************************************************************************)
EXTENDS Naturals

CONSTANTS
  MaxResends,    \* whatsapp_outbound_max_retries
  BaseDelay,     \* whatsapp_outbound_retry_base_delay
  RetryAfters    \* values of a numeric Retry-After header

ASSUME DeliveryAssumption ==
  /\ MaxResends \in Nat
  /\ BaseDelay \in Nat
  /\ RetryAfters \subseteq Nat

VARIABLES
  phase,      \* "call": a request is out; "wait": asleep; "raise"; "over"
  sendAttempt,    \* the loop variable
  requests,      \* requests made
  taken,      \* times the provider has taken the message
  took,       \* it took the request that is out and will not confirm it
  doubtful,   \* answers that leave open whether it took the message
  last,       \* the last answer, "none" before the first
  slept,      \* total of the delays asked for
  asked,      \* the part of them a Retry-After imposed
  result      \* "pending", "ok", or what the error is to the caller

sendVars == <<phase, sendAttempt, requests, taken, took, doubtful, last, slept, asked, result>>

(* The exception an answer that is no success raises.  "badHeader" has a   *)
(* status of 400 or more and a Retry-After that float() cannot read (an    *)
(* HTTP date): the ValueError comes before the status is looked at.        *)
(* (ErrorOfRefusalsTemporary: seeded error.)                               *)
ErrorOfRefusalsTemporary ==
  [ timeout |-> "temporary", transport |-> "temporary",
    s5xx    |-> "temporary", noId      |-> "temporary",
    s429    |-> "rateLimit", s401      |-> "authentication",
    s4xx    |-> "temporary", badHeader |-> "valueError" ]
ErrorOf ==
  [ timeout |-> "temporary", transport |-> "temporary",
    s5xx    |-> "temporary", noId      |-> "temporary",
    s429    |-> "rateLimit", s401      |-> "authentication",
    s4xx    |-> "permanent", badHeader |-> "valueError" ]

GraphAnswer == {"timeout", "transport", "s5xx", "noId", "s429", "s401", "s4xx", "badHeader"}
Doubtful == {"timeout", "transport", "s5xx", "noId", "badHeader"}

\* The except clauses of the loop, and of the caller (message_processor.py).
Retryable == {"rateLimit", "temporary"}
CaughtByProcessor == {"temporary", "permanent"}

\* Four times longer after each attempt, at most a minute.
\* (BackoffUncapped: seeded error.)
BackoffUncapped(n) == { BaseDelay * 4^n + jitter : jitter \in 0..BaseDelay }
Backoff(n) ==
  { delay \in 0..60 : \E d \in BackoffUncapped(n) : delay = IF d > 60 THEN 60 ELSE d }

SendInit ==
  /\ phase = "call" /\ sendAttempt = 0 /\ requests = 1
  /\ taken = 0 /\ took = FALSE /\ doubtful = 0
  /\ last = "none" /\ slept = 0 /\ asked = 0 /\ result = "pending"

\* 2xx with a message id.  (AcceptedAgain: seeded error, the loop goes on.)
AcceptedAgain ==
  /\ phase = "call" /\ ~took /\ sendAttempt < MaxResends
  /\ taken' = taken + 1
  /\ sendAttempt' = sendAttempt + 1 /\ requests' = requests + 1
  /\ UNCHANGED <<phase, took, doubtful, last, slept, asked, result>>

Accepted ==
  /\ phase = "call" /\ ~took
  /\ taken' = taken + 1
  /\ phase' = "over" /\ result' = "ok"
  /\ UNCHANGED <<sendAttempt, requests, took, doubtful, last, slept, asked>>

\* The provider takes the message; no confirmation will reach the client.
TakenUnheard ==
  /\ phase = "call" /\ ~took
  /\ taken' = taken + 1 /\ took' = TRUE
  /\ UNCHANGED <<phase, sendAttempt, requests, doubtful, last, slept, asked, result>>

\* An answer the provider can give: a refusal is not from a message it took.
Answered(answer) ==
  /\ phase = "call"
  /\ took => answer \in Doubtful
  /\ last' = answer /\ took' = FALSE
  /\ doubtful' = IF answer \in Doubtful THEN doubtful + 1 ELSE doubtful
  /\ UNCHANGED <<sendAttempt, requests, taken, result>>

\* Another attempt is left.  (OneMore: seeded error.)
OneMore(n) == n <= MaxResends
MayRetry(n) == n < MaxResends

\* "retry_after or backoff": a zero is no Retry-After, and only a rate limit
\* error carries one.
Resend(answer) ==
  /\ Answered(answer) /\ ErrorOf[answer] \in Retryable /\ MayRetry(sendAttempt)
  /\ \/ \E delay \in Backoff(sendAttempt) : slept' = slept + delay /\ UNCHANGED asked
     \/ /\ answer = "s429"
        /\ \E delay \in RetryAfters \ {0} : slept' = slept + delay /\ asked' = asked + delay
  /\ phase' = "wait"

\* Not retryable, or the last attempt: the error is raised.
GiveUp(answer) ==
  /\ Answered(answer)
  /\ ErrorOf[answer] \notin Retryable \/ ~MayRetry(sendAttempt)
  /\ phase' = "raise"
  /\ UNCHANGED <<slept, asked>>

\* asyncio.sleep returns and the loop makes its next request.
Wake ==
  /\ phase = "wait"
  /\ requests' = requests + 1 /\ sendAttempt' = sendAttempt + 1
  /\ phase' = "call"
  /\ UNCHANGED <<taken, took, doubtful, last, slept, asked, result>>

\* The exception reaches _send_responses.  (ReturnLast: seeded error, the
\* exhausted loop returns.)
ReturnLast ==
  /\ phase = "raise"
  /\ phase' = "over" /\ result' = "ok"
  /\ UNCHANGED <<sendAttempt, requests, taken, took, doubtful, last, slept, asked>>

RaiseLast ==
  /\ phase = "raise"
  /\ phase' = "over"
  /\ result' = IF ErrorOf[last] \in CaughtByProcessor THEN "provider" ELSE "other"
  /\ UNCHANGED <<sendAttempt, requests, taken, took, doubtful, last, slept, asked>>

Returned == phase = "over" /\ UNCHANGED sendVars

SendNext ==
  \/ Accepted \/ TakenUnheard
  \/ \E answer \in GraphAnswer : Resend(answer) \/ GiveUp(answer)
  \/ Wake \/ RaiseLast \/ Returned

SendSpec == SendInit /\ [][SendNext]_sendVars

-----------------------------------------------------------------------------
SendTypeOK ==
  /\ phase \in {"call", "wait", "raise", "over"}
  /\ sendAttempt \in Nat /\ requests \in Nat
  /\ taken \in Nat /\ took \in BOOLEAN /\ doubtful \in Nat
  /\ last \in GraphAnswer \cup {"none"}
  /\ slept \in Nat /\ asked \in Nat
  /\ result \in {"pending", "ok", "provider", "other"}

\* The user gets a reply more often than once only through answers that left
\* its fate open: every copy but a confirmed one is paid for by one such
\* answer, or by the request still out (the retry loop of outbound.py sends
\* the same idempotency key but does not rely on it).
CopiesAreDoubtful ==
  taken <= doubtful + (IF took THEN 1 ELSE 0) + (IF result = "ok" THEN 1 ELSE 0)

\* The service never makes more than max_retries + 1 requests, and does not
\* tell its caller of a temporary failure or a rate limit before it has made
\* them all (outbound.py, the two "attempt >= max_retries" breaks).
RetriesSpent ==
  /\ requests <= MaxResends + 1
  /\ result \in {"provider", "other"} /\ ErrorOf[last] \in Retryable => requests = MaxResends + 1

\* Answers a later request may better.
WaitsAfter == {"timeout", "transport", "s5xx", "noId", "s429"}

\* A request is repeated only after an answer that may change by waiting: a
\* refusal of the message or of the credentials is final, and so is an answer
\* the client cannot read (meta/client.py _map_http_error with the except
\* clauses of outbound.py).
RefusalsAreFinal ==
  [][requests' # requests => last \in WaitsAfter]_sendVars

\* The webhook request that waits for the reply is held up for at most a
\* minute per retry, and for as long as the provider asked on top (_backoff).
HeldUpBriefly == slept <= 60 * MaxResends + asked

\* For its caller the call is a ReplySend, as WebhookPipeline has it.
Call == INSTANCE ReplySend
ImplementsReplySend == Call!Spec

-----------------------------------------------------------------------------
(* The inductive invariant behind the others: the loop variable counts the *)
(* requests, an attempt is left while the service sleeps and none when it  *)
(* raises a retryable error, and no attempt has waited more than a minute  *)
(* of its own.                                                             *)

LoopInv ==
  /\ SendTypeOK
  /\ CopiesAreDoubtful
  /\ requests = sendAttempt + 1 /\ sendAttempt <= MaxResends
  /\ phase = "over" <=> result # "pending"
  /\ phase = "wait" => sendAttempt < MaxResends /\ last \in WaitsAfter
  /\ phase \in {"wait", "raise"} => ~took
  /\ phase = "raise" \/ result \in {"provider", "other"} =>
       last \in GraphAnswer /\ (ErrorOf[last] \in Retryable => sendAttempt = MaxResends)
  /\ slept <= asked + 60 * sendAttempt + (IF phase = "wait" THEN 60 ELSE 0)
  /\ slept <= asked + 60 * MaxResends
=============================================================================
