-------------------------------- MODULE AIReply --------------------------------
(***************************************************************************)
(* AIOrchestrator.generate_reply: the input and abuse limits, the context  *)
(* query, the provider calls with their retries, and the text the user     *)
(* gets when any of them fails.                                            *)
(*                                                                         *)
(* A request is one webhook request whose payload has some messages for    *)
(* the AI handler, handled one after the other.  create_bot_engine builds  *)
(* an orchestrator, and so a rate limiter, for each of them.               *)
(*                                                                         *)
(* A definition marked as a seeded error is used by no action.             *)
(***************************************************************************)
EXTENDS Integers, FiniteSets, Selections, AIProviders

CONSTANTS
  Request,
  Conversation,
  MessagesOf,      \* the conversations of a request's messages, in order
  MaxRequests,     \* ai_max_requests_per_conversation
  Window,          \* ai_request_window_seconds
  MaxRetries,      \* ai_max_retries
  Horizon          \* bound: the last moment of the clock

ASSUME AIAssumption ==
  /\ MessagesOf \in [Request -> Seq(Conversation)]
  /\ MaxRequests \in Nat /\ Window \in Nat /\ MaxRetries \in Nat /\ Horizon \in Nat

VARIABLES
  now,          \* time.monotonic()
  stamps,       \* _timestamps of each request's limiter, by conversation
  admitted,     \* when each request was admitted, by conversation
  calls,        \* provider calls made by a request, by conversation
  pos,          \* messages of a request that are answered
  reply,        \* the text of the last answer
  step,         \* the next step of a request
  adapter,      \* the AI provider of the settings
  attempt       \* the loop variable of _generate_with_retries

vars == <<now, stamps, admitted, calls, pos, reply, step, adapter, attempt>>

Reply == {"TEXT", "AI_INPUT_TOO_LONG", "AI_RATE_LIMITED", "AI_UNAVAILABLE", "DEFAULT"}

Cur(r) == MessagesOf[r][pos[r] + 1]
Goto(r, s) == step' = [step EXCEPT ![r] = s]

\* The message is answered and the request turns to the next one.
Answer(r, words) ==
  /\ pos' = [pos EXCEPT ![r] = @ + 1]
  /\ reply' = [reply EXCEPT ![r] = words]
  /\ Goto(r, "next")
  /\ attempt' = [attempt EXCEPT ![r] = 0]

Init ==
  /\ now = 0
  /\ stamps = [r \in Request |-> [c \in Conversation |-> <<>>]]
  /\ admitted = stamps
  /\ calls = [r \in Request |-> [c \in Conversation |-> 0]]
  /\ pos = [r \in Request |-> 0]
  /\ reply = [r \in Request |-> "none"]
  /\ step = [r \in Request |-> "next"]
  /\ adapter \in Adapter
  /\ attempt = [r \in Request |-> 0]

-----------------------------------------------------------------------------
\* The AI handler is given the next text.
NextMessage(r) ==
  /\ step[r] = "next" /\ pos[r] < Len(MessagesOf[r])
  /\ Goto(r, "limits")
  /\ UNCHANGED <<now, stamps, admitted, calls, pos, reply, attempt, adapter>>

\* _validate_user_message.
RefuseTooLong(r) ==
  /\ step[r] = "limits"
  /\ Answer(r, "AI_INPUT_TOO_LONG")
  /\ UNCHANGED <<now, stamps, admitted, calls, adapter>>

\* Admissions the window still counts.  (ForgetsEarly: seeded error.)
ForgetsEarly(times) == Only(times, { t \in Nat : t > now - Window + 1 })
Recent(times) == Only(times, { t \in Nat : t > now - Window })

\* ConversationRateLimiter.allow, both ways.  (LimitIgnored, CountsRefusals:
\* seeded errors.)
Admit(r) ==
  LET recent == Recent(stamps[r][Cur(r)])
  IN  /\ step[r] = "limits" /\ Len(recent) < MaxRequests
      /\ stamps' = [stamps EXCEPT ![r][Cur(r)] = Append(recent, now)]
      /\ admitted' = [admitted EXCEPT ![r][Cur(r)] = Append(@, now)]
      /\ Goto(r, "context")
      /\ UNCHANGED <<now, calls, pos, reply, attempt, adapter>>

LimitIgnored(r) ==
  LET recent == Recent(stamps[r][Cur(r)])
  IN  /\ step[r] = "limits" /\ Len(recent) >= MaxRequests
      /\ Goto(r, "context")
      /\ UNCHANGED <<now, stamps, admitted, calls, pos, reply, attempt, adapter>>

CountsRefusals(r) ==
  LET recent == Recent(stamps[r][Cur(r)])
  IN  /\ step[r] = "limits" /\ Len(recent) >= MaxRequests
      /\ stamps' = [stamps EXCEPT ![r][Cur(r)] = Append(recent, now)]
      /\ Answer(r, "AI_RATE_LIMITED")
      /\ UNCHANGED <<now, admitted, calls, adapter>>

RefuseRateLimited(r) ==
  LET recent == Recent(stamps[r][Cur(r)])
  IN  /\ step[r] = "limits" /\ Len(recent) >= MaxRequests
      /\ stamps' = [stamps EXCEPT ![r][Cur(r)] = recent]
      /\ Answer(r, "AI_RATE_LIMITED")
      /\ UNCHANGED <<now, admitted, calls, adapter>>

\* ConversationContextBuilder.build: a query, which may fail; the exception
\* is no AIError, so the bot engine reports a failed handler and the message
\* processor falls back to its default text.
BuildContext(r) ==
  /\ step[r] = "context"
  /\ \/ Goto(r, "call") /\ UNCHANGED <<pos, reply, attempt>>
     \/ Answer(r, "DEFAULT")
  /\ UNCHANGED <<now, stamps, admitted, calls, adapter>>

\* The last attempt.  (OneAttemptMore: seeded error.)
OneAttemptMore(n) == n > MaxRetries
LastAttempt(n) == n >= MaxRetries

\* One call of generate_response, by one of the adapter's outcomes.
Ends == { OutcomeOf(adapter, answer) : answer \in HttpAnswer }

Generate(r, outcome) ==
  /\ step[r] = "call"
  /\ calls' = [calls EXCEPT ![r][Cur(r)] = @ + 1]
  /\ \/ outcome = "text" /\ Answer(r, "TEXT")
     \/ outcome \in {"refusal", "blank"} /\ Answer(r, "AI_UNAVAILABLE")
     \/ outcome = "unexpected" /\ Answer(r, "DEFAULT")
     \/ outcome \in Transient /\ LastAttempt(attempt[r]) /\ Answer(r, "AI_UNAVAILABLE")
     \/ /\ outcome \in Transient /\ ~LastAttempt(attempt[r])
        /\ Goto(r, "wait") /\ UNCHANGED <<pos, reply, attempt>>
  /\ UNCHANGED <<now, stamps, admitted, adapter>>

\* The delay is over.
Retry(r) ==
  /\ step[r] = "wait"
  /\ attempt' = [attempt EXCEPT ![r] = @ + 1]
  /\ Goto(r, "call")
  /\ UNCHANGED <<now, stamps, admitted, calls, pos, reply, adapter>>

Tick ==
  /\ now < Horizon /\ now' = now + 1
  /\ UNCHANGED <<stamps, admitted, calls, pos, reply, step, attempt, adapter>>

AllAnswered ==
  /\ \A r \in Request : pos[r] = Len(MessagesOf[r])
  /\ UNCHANGED vars

Next ==
  \/ \E r \in Request :
       \/ NextMessage(r) \/ RefuseTooLong(r) \/ Admit(r) \/ RefuseRateLimited(r)
       \/ BuildContext(r) \/ Retry(r) \/ \E outcome \in Ends : Generate(r, outcome)
  \/ Tick \/ AllAnswered

Spec == Init /\ [][Next]_vars

-----------------------------------------------------------------------------
TypeOK ==
  /\ now \in 0..Horizon
  /\ stamps \in [Request -> [Conversation -> Seq(0..Horizon)]]
  /\ admitted \in [Request -> [Conversation -> Seq(0..Horizon)]]
  /\ calls \in [Request -> [Conversation -> Nat]]
  /\ pos \in [Request -> Nat]
  /\ reply \in [Request -> Reply \cup {"none"}]
  /\ step \in [Request -> {"next", "limits", "context", "call", "wait"}]
  /\ adapter \in Adapter
  /\ attempt \in [Request -> 0..MaxRetries]

\* How many of some times lie in the window that ends at t.
Crowd(times, t) == Cardinality({ i \in DOMAIN times : times[i] \in (t - Window + 1)..t })

\* The sliding window is never overrun by the messages one limiter sees: no
\* window of ai_request_window_seconds holds more than max_requests of its
\* admissions (the cut-off and the comparison of allow()).
WindowRespected ==
  \A r \in Request, c \in Conversation, t \in 0..Horizon : Crowd(admitted[r][c], t) <= MaxRequests

\* The provider calls that a number of admitted messages may cost.
Worth(n) == (MaxRetries + 1) * n

\* A limited user message costs no provider call, and an admitted one no
\* more than ai_max_retries + 1: the calls a conversation causes are paid for
\* by its admissions (generate_reply, _generate_with_retries).
CallsPaidFor ==
  \A r \in Request, c \in Conversation :
    calls[r][c] <= Worth(Len(admitted[r][c]))

\* The limit is never applied to a conversation that has not used it up
\* within the window: refusals do not count, nor do other conversations.
RefusalsDeserved ==
  [][\A r \in Request :
       pos'[r] > pos[r] /\ reply'[r] = "AI_RATE_LIMITED" =>
         Crowd(admitted[r][Cur(r)], now) >= MaxRequests]_vars

\* One call of a request ended in an answer to it, and the loop went on from
\* there.
Concluded(r, answer) ==
  step[r] = "call" /\ step'[r] # "call" /\ Generate(r, OutcomeOf(adapter, answer))

\* No call is repeated in vain and none is given up on lightly: the provider is
\* asked again only after an answer that may change, and always, while an
\* attempt is left, when nobody answered or the provider was in trouble (the
\* status tests and except clauses of both adapters against the except clauses
\* of _generate_with_retries).
RetriesJustified ==
  [][\A r \in Request, answer \in HttpAnswer :
       Concluded(r, answer) =>
         /\ step'[r] = "wait" => Curable(adapter, answer) /\ attempt[r] < MaxRetries
         /\ Unserved(adapter, answer) /\ attempt[r] < MaxRetries => step'[r] = "wait"]_vars

\* ai/exceptions.py:45: "Non-retryable provider client error (HTTP 4xx except
\* 429)." - a 429 is trouble that passes, too, so that the provider is asked
\* again exactly while that may help and an attempt is left, whichever it is.
RetriesWorthwhile ==
  [][\A r \in Request, answer \in HttpAnswer :
       Concluded(r, answer) =>
         (step'[r] = "wait" <=> Curable(adapter, answer) /\ attempt[r] < MaxRetries)]_vars

\* The inductive invariant behind CallsPaidFor: an admitted message that is
\* still being answered has the calls left that it may yet make.
Pending(r) == step[r] \in {"context", "call", "wait"}
Left(r, c) ==
  IF Pending(r) /\ c = Cur(r)
  THEN IF step[r] = "wait" THEN MaxRetries - attempt[r] ELSE MaxRetries + 1 - attempt[r]
  ELSE 0

CallsInv ==
  /\ now \in Nat
  /\ admitted \in [Request -> [Conversation -> Seq(Nat)]]
  /\ calls \in [Request -> [Conversation -> Nat]]
  /\ pos \in [Request -> Nat]
  /\ step \in [Request -> {"next", "limits", "context", "call", "wait"}]
  /\ attempt \in [Request -> 0..MaxRetries]
  /\ \A r \in Request :
       /\ step[r] # "next" => pos[r] < Len(MessagesOf[r])
       /\ step[r] \in {"next", "limits", "context"} => attempt[r] = 0
       /\ step[r] = "wait" => attempt[r] < MaxRetries
       /\ \A c \in Conversation :
            calls[r][c] + Left(r, c) <= Worth(Len(admitted[r][c]))

\* The inductive invariant behind WindowRespected and RefusalsDeserved: what a
\* limiter remembers is its admissions but for the first ones, and those are
\* out of every window to come.
Remembers(times, kept) ==
  LET forgotten == Len(times) - Len(kept)
  IN  /\ forgotten >= 0
      /\ kept = SubSeq(times, forgotten + 1, Len(times))
      /\ \A i \in 1..Len(times) :
           /\ times[i] <= now
           /\ i <= forgotten => times[i] <= now - Window
           /\ \A j \in 1..i : times[j] <= times[i]

WindowInv == \A r \in Request, c \in Conversation : Remembers(admitted[r][c], stamps[r][c])

\* Both invariants: what a request pays, and what its limiter remembers.
LimitsInv == CallsInv /\ WindowInv

\* ai/limits.py: "In-memory per-conversation AI request limiter." - whichever
\* requests the messages of the conversation arrive in.
ConversationLimited ==
  \A c \in Conversation, t \in 0..Horizon :
    Cardinality(UNION { { <<r, i>> : i \in { j \in DOMAIN admitted[r][c] :
                                               admitted[r][c][j] \in (t - Window + 1)..t } }
                        : r \in Request }) <= MaxRequests
=============================================================================
