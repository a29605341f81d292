# A formal model of the WhatsApp bot backend

TLA+ modules for the parts of `src/backend/app` in which order, failure and
concurrency decide whether the program is right; TLC configurations that check
them on small instances; and TLAPS proofs of the central properties for every
instance. Paths below are relative to `src/backend/app` unless they start with
`docs/`.

Contents: [the system](#the-system), [the modules](#the-modules),
[the runs](#the-runs), [fairness](#fairness), [the proofs](#the-proofs),
[what disagrees](#what-disagrees-with-the-documents),
[seeded errors](#seeded-errors), [not modelled](#not-modelled), [plan](#plan).

## The system

Meta POSTs webhooks to `/webhooks/whatsapp`. A payload carries a list of
events. The route answers 200 when every event has been dealt with and 503 when
an exception escapes; Meta redelivers what was not answered 200, and may
deliver anything twice. All state is in PostgreSQL, every service commits for
itself, and the server is one asyncio process (or several): two requests
interleave at every `await`.

| component | state | operations | interacts with |
|---|---|---|---|
| webhook route, `services/inbound.py` | none of its own | parse, dispatch the events of a payload in order, map exceptions to 503 | everything below, once per event |
| event idempotency, `services/idempotency.py` | `webhook_events.processing_status` | `register`, `should_process`, `mark_*` | the route; terminal statuses stop a redelivery |
| message repository, `services/message_repository.py` | `messages`: inbound processing status, outbound rows | `register_inbound`, `mark_*`, `create_outbound`, `get_recent_messages` | message processor, AI context |
| message processor, `services/message_processor.py` | a SQLAlchemy session per request | the sequence load, run bot, persist session, create row, send, mark | all services |
| bot engine, `bot/*` | `conversation_sessions.state, state_data` (through the processor) | registry, router, handlers, `ConversationStateMachine` | a pure function of text and loaded session |
| identity, `services/phone_number.py`, `contact.py`, `conversation.py` | `phone_numbers`, `contacts`, `conversations`, `conversation_sessions` | find or create, in the transaction `register_inbound` commits | message processor |
| outbound delivery, `services/outbound.py`, `whatsapp/meta/client.py` | the loop of one call | send, classify the answer, wait, retry, raise | the Graph API (external) |
| AI orchestration, `ai/orchestrator.py`, `ai/limits.py` | time stamps in the memory of one orchestrator | limits, context query, provider call with retries, fallbacks | bot engine's default handler |
| AI context, `ai/context.py` | none | choose and truncate the turns that accompany a text | message repository |
| AI providers, `ai/openai/`, `ai/ollama/` | none | one HTTP request, its answer classified | AI orchestration |
| webhook parser, `whatsapp/parser.py` | none | a payload to a list of events | the route |
| administration, `services/admin_*.py`, `api/` | `admin_users`; the token is the client's | login, the check of each request, listings | reads the tables above |
| signature, mock provider, prompts, configuration, migrations, frontend | none that changes | pure functions, wiring | |

What is hard about it, and what must be true (the list with source lines is
under `hazards` in `PROJECT.json`):

* **Two requests at once.** Deliveries of one payload overlap, or messages of
  one conversation do. Neither layer of idempotency locks a row, and the
  session a request loaded can be stale when it writes it back. Still: no
  acknowledged message may be without an answer, a row may not claim a reply
  nobody sent, and both short cuts for duplicates must be safe.
* **A request that stops in between.** There are eight commits and one
  provider call between the delivery and the 200. The redelivery must repeat
  what was lost and no more.
* **The provider's answer.** It can be lost after the message was taken, come
  without an id, ask for a wait, or be a refusal. Retries must end, refusals
  must not be retried, copies must come from doubt only.
* **Partial failure of a batch**, and the outcome "failed", which is answered
  200.
* **Races to create** the phone number, contact, conversation and session.
* **Windows and budgets**: the rate limiter's window, the retry counts, the
  context's limits.
* **Readers beside writers**: a listing is read page by page, and each page in
  two statements, while messages are committed late and conversations move;
  an account can change while its token is valid.

## The modules

| module | models | size |
|---|---|---|
| `BotEngine` | the bot as operators: `CommandHandler`, `DemoFlow`, `DemoConfirmation`, `Route`, `Transition`, `Process` | constants only |
| `WebhookPipeline` | one webhook delivery from POST to status, many at once | 24 actions |
| `AtLeastOnceReply` | the abstract promise of the pipeline | 3 actions |
| `WebhookParser` | `parse_webhook_payload` on structured payloads, as operators | no state |
| `WebhookIntake` | `WebhookPipeline` on raw payloads | no action of its own |
| `OutboundDelivery` | one call of `send_message` | 6 actions |
| `ReplySend` | the abstract promise of such a call | 3 actions |
| `IdentityResolution` | the find-or-create transaction, statement by statement | 15 actions |
| `AtomicIdentity` | the abstract promise of that transaction | 1 action |
| `AIReply` | `generate_reply` with the limiter and a clock | 8 actions |
| `AIProviders` | what the OpenAI and Ollama adapters make of an answer, as operators | no state |
| `AIContext` | choice and truncation of turns, as operators over a growing history | 1 action |
| `AdminRead` | an administrator who pages through a listing while it changes | 12 actions |
| `Selections` | a list comprehension with a condition, as a recursive function | no state |
| `WebhookPipelineProofs`, `SerialDeliveryProofs` | theorems about `WebhookPipeline` | |
| `WebhookIntakeProofs`, `OutboundDeliveryProofs`, `IdentityResolutionProofs`, `AIReplyProofs` | theorems about the module of the name | |
| `ReadersProofs` | theorems about `AIContext` and `AdminRead` | |
| `SequenceLemmas` | induction over sets, sequences and recursive functions, for the proofs | |
| `MCWebhookPipeline`, `MCAIReply`, `MCRetryLoops`, `MCIdentityResolution`, `MCReaders` | instances for TLC | |

How they fit together. `WebhookPipeline` EXTENDS `BotEngine` and runs `Process`
in its action `RunBot`. It takes two parts as single steps and each of the two
has a module that opens it up:

* `LoadSession` and `RegisterMessage` (with the database failures of these
  steps) are the whole transaction of `IdentityResolution`: committed with a contact, conversation,
  session and message, or rolled back. That this is all others can see of it is
  what `AtomicIdentity` says; `IdentityResolution` is shown, and proved, to
  implement it.
* `SendAccepted`, `SendLost` and `SendFails` are the steps `Succeed`,
  `TakenUnheard` and `RaiseError` of `ReplySend`, and `OutboundDelivery` is
  shown, and proved, to implement `ReplySend`.

`AIReply` opens the default reply in the same way: all that the pipeline can
tell of an AI answer is that it is the text of a `DEFAULT` reply with the
session unchanged. It EXTENDS `AIProviders`, so that the outcome of a provider
call is what an adapter makes of some HTTP answer.

In front of the pipeline, `WebhookIntake` EXTENDS `WebhookPipeline` and
`WebhookParser` and asserts (`IntakeAssumption`) that the pipeline's events,
their kinds and the incomplete messages are what the parser makes of given raw
payloads. Behind it, `AIContext` and `AdminRead` read the rows it stores; the
rows come and move in whatever order concurrent transactions commit them, so
neither module assumes anything of the pipeline.

### WebhookPipeline and the code

A worker is a request. `pc` is the next commit or await, and each action ends
at one:

| action | code |
|---|---|
| `Deliver`, `NextEvent`, `Acknowledge` | Meta (external); the loop in `handle_webhook_payload`; 200 |
| `SkipDuplicateEvent`, `RegisterEvent`, `MarkEvent`, `MarkEventFailed` | `IdempotencyService.register`, `should_process`, `mark_*`, as `_process_event` calls them |
| `LoadSession` | `ConversationService.find_or_create`: the session comes with the conversation, before the transaction commits |
| `RegisterMessage`, `SkipDuplicateMessage`, `MarkProcessing` | the first half of `process_inbound_event` |
| `Refresh` | `session.refresh(conversation, ["session"])`: the session row is in the identity map, so its columns may stay as loaded or be reloaded; both are allowed |
| `RunBot`, `RefuseTransition` | `BotEngine.process_message` and `persist_session_state` with its commit; `InvalidConversationStateError` |
| `CreateOutbound`, `SendAccepted`, `SendLost`, `SendFails`, `MarkOutboundSent`, `MarkOutboundFailed` | `_send_responses` |
| `MarkMessageProcessed`, `MarkMessageFailed` | the end of `process_inbound_event`, its except clauses |
| `DatabaseFails`, `Crash` | an exception from any statement or commit; the death of the process or a cancelled request |

The tables are `evt`, `msg`, `session` and `rows`; the columns kept are the
statuses and the session's state and data. `Persist` writes what the ORM would:
the columns that differ from the loaded ones. What a request has loaded
survives its commits (`expire_on_commit=False`), from one event of a payload to
the next, but not a rollback: `held` and `snap` are that part of its identity
map. The map is weak, so a session in it may be found there or read again.
`accepted`, `rejected`, `runs`
and `acked` record what happened outside the database: replies the provider
took, refusals by the state machine, bot runs, 200s. A text is one of the
classes the router and handlers can tell apart (`TextKind`), a reply is the
name of its template, and `Announces` says which templates tell the user a
state.

### The other modules and the code

`OutboundDelivery`: `phase` is where the loop of `outbound.py` stands,
`ErrorOf` is `_map_http_error` and the exceptions of `httpx`, `Backoff` is
`_backoff` (a set, for the jitter). Its constants, loop variable and `SendSpec`
carry names of their own, so that `MCRetryLoops` can run it beside `AIReply`. The provider side is `TakenUnheard`: it
may take the message although the answer will not say so. A `Retry-After` that
`float()` cannot read raises `ValueError` before the status is classified and
is the answer `badHeader`.

`IdentityResolution`: a row is absent, committed, or some worker's uncommitted
insert; an insert that meets another's uncommitted row waits, as a unique index
makes it; an UPDATE takes a row lock until the end of the transaction.
`FindPhone`, `InsertPhone`, `PhoneTaken` are the savepoint loop of
`PhoneNumberService.resolve`; `ContactTaken` is the `IntegrityError` that
`ContactService.find_or_create` does not catch; `RegisterInbound` is
`INSERT ... ON CONFLICT DO NOTHING`.

`AIReply`: `Admit` and `RefuseRateLimited` are `ConversationRateLimiter.allow`
returning true and false, `BuildContext` may raise, `Generate` has one
alternative for each except clause of `_generate_with_retries` and of its
callers. Each request has `stamps` of its own because `create_bot_engine`
builds a limiter for each.

`AIProviders`: `OutcomeOf` is `_complete` and `_chat` with their body parsers
and `validate_ai_response`: an exception of `httpx`, the status tests in their
order, then the body. Two details survive the abstraction because a property
tells them apart: only the OpenAI adapter knows 429, and a body in the wrong
encoding (or, for OpenAI, a `usage` that is no object) raises an exception
outside the `AIError` hierarchy, which ends in the default text instead of the
apology.

`AIContext`: `Fetched`, `Turns`, `Truncated` are `get_recent_messages`,
`_load_recent_turns`, `_truncate_turns`.

`WebhookParser`: `Valid` is the schema's all-or-nothing verdict, `Parse` the
loops of `parse_webhook_payload`; ids of statuses and errors are tuples where
the code formats strings. A payload that is not valid has no events and is
acknowledged, as `handle_webhook_payload` does. In `batch` the three payloads
hold every kind of event, an incomplete message, a change of another field
between two others, and a malformed item.

`AdminRead`: `list` is what ORDER BY gives at the moment. `Arrive` inserts a row
anywhere (`created_at` is the start of its transaction, not the commit),
`Touch` moves one either way (`_touch` stores Meta's time stamp). A request is
`Check`, for messages `Lookup`, `Count`, `SelectPage`, `Answer`: two statements,
each with a snapshot of its own. The client is external: it asks for the page
after a full one, stops at a short one, and never uses `total`. `owed`,
`crossed` and `entitled` record what it should have seen and was allowed to.

## The runs

Passing runs:

| run | question | instance | distinct states |
|---|---|---|---|
| `serial` | If deliveries do not overlap, do the layers agree, are repeats paid for by failures, does the stored session follow the state machine? | 1 worker, 3 messages of one user with every mixture of demo, words, yes, no, cancel; 1 fault, 1 duplicate | 2.1 million |
| `concurrent` | What survives every interleaving? | 2 workers, 2 messages in one conversation; 1 fault, 1 duplicate, so both workers can be on one payload | 597 000 |
| `batch` | Does a batch converge after partial failure, and is nothing in it overlooked? | 1 worker; three raw payloads: every kind of event, one message in two of them, a foreign change in the middle, a malformed item | 301 000 |
| `identity` | Is identity all or nothing, do transactions deadlock? | 3 workers, 2 messages of one new user and 1 of another, new phone number; 1 crash, 1 duplicate | 456 000 |
| `retry_loops` | Are the two loops right that call an HTTP provider: is the AI limiter exact, is a provider asked again only when that may help, do retries, waits and copies stay bounded? | AI: limit 1 in a window of 2, clock to 2 (so that an admission is inside the window, at its edge, and out of it), two requests of 4 and 1 messages, 2 conversations, 1 retry; each adapter, every answer. Outbound: 3 retries, base 8 s, so the cap of a minute is passed at the third retry; `Retry-After` 0 (falsy) and 90 (over the cap) | 322 000 |
| `readers` | Is the context the newest run that fits? What can paging miss? | context: every history of up to 6 messages, limit 3, budget 5, lengths 0, 1, 2, 4; listing: up to 4 rows, pages of 2, 2 moves, any change of the account | 454 000 |

Why the bounds are enough. `MaxFaults = 1` puts the one failure at any step of
any request; properties that count (`RepeatsPaidFor`, `OrphanRowsPaidFor`) are
stated relative to `faults`, so that a larger bound asks the same question of
each further failure. Two workers are enough for the races of the pipeline:
each involves one stale reader and one writer. Three messages are the shortest
path through the demo flow and out of it. Every safety
property and refinement is also proved for every bound. Four rows in pages of
two let a reader see two full pages and an empty one, with a move across its
offset at each of them. In `identity` three workers let
two losers wait for one winner; `PhoneTries` is the code's 5.

What the properties say:

* `NoSilentLoss`, `ClosedMeansSettled`, `ImplementsAtLeastOnceReply`: a payload
  is acknowledged, and a status stops reprocessing, only when the provider took
  a reply or the bot engine refused.
* `SentRowsWereAccepted`, `OrphanRowsPaidFor`, `WriteAhead`: the outbound rows
  never claim more than was sent, stay pending only through failures, and exist
  before the provider is called.
* `RepeatsPaidFor`, `LayersAgree`, `ClosedMessagesStayClosed`: what idempotency
  is worth when deliveries do not overlap.
* `SessionCoherent`, `StoredTransitionsAllowed`, `AnnouncedStateIsDurable`: the
  stored session, across retries whose session change is already committed.
* `EveryPayloadAcked`, `EventsConverge`: the retries end.
* `CopiesAreDoubtful`, `RetriesSpent`, `RefusalsAreFinal`, `HeldUpBriefly`,
  `ImplementsReplySend`: the retry loop.
* `ImplementsAtomicIdentity`, `OnlyContactsCollide`, `EveryMessageRegistered`:
  identity is all or nothing (`AllOrNothing`, a part of `IdentityInv`), appears
  in one step, and the races to create it cost at most a redelivery.
* `NoDeadlock`: no circle of transactions in which each waits for a row or a
  lock of the next. TLC's own deadlock check is on as well, but reports such a
  circle only when nobody else is able to move.
* `WindowRespected`, `RefusalsDeserved`, `CallsPaidFor`: the limiter admits no
  more than it should and refuses nobody it should not; calls are bounded by
  admissions.
* `RetriesJustified`: a provider call is repeated only after an answer that may
  change, and always, while an attempt is left, after the provider's own trouble
  (no answer, or a 5xx). A 429 is a case of its own: `RetriesWorthwhile` demands
  that it be retried, too, and Ollama's adapter violates that (run
  `ai_rate_limit`).
* `EveryItemAccounted`: from the raw payload to the tables, nothing in an
  acknowledged payload that is valid is overlooked.
* `MissedPaidFor`, `PageAsPromised`: a reader who pages to the end has seen every
  row listed when it began but one per update that moved a row across its
  offset (in a conversation's messages nothing moves, so none is missed), and a
  page never holds fewer rows than the total beside it promises.
* `RevocationHolds`: a token does not outlive the rights of its account.
* `CurrentExcluded`, `NewestThatFit`: the AI's context.

`SettlementInv`, `LoopInv`, `IdentityInv`, `LimitsInv` and `PagingInv` are the
inductive invariants of the proofs, run as invariants so that their instances
are seen to hold. (`RowsInv`, `SerialInv`, `RecordedInv`, `PassedInv` and
`HistoryInv` are stated in the proof modules.) `SettlementInv` and `IdentityInv`
contain the `TypeOK` of their modules.

The terminal steps `Quiescent`, `AllAnswered`, `Returned` and `Full` let a
finished system stutter; deadlock is checked in every run.

## Fairness

* `WF(Proceed(w))`: a request that is in flight goes on. The event loop
  schedules every task, statements end, and the provider call ends by its
  timeout. `Proceed` has the successful outcomes only; faults and duplicates
  are owed to nobody and their number is bounded.
* `WF(p not acked and some worker can be given p)`: Meta redelivers what it has
  no 200 for. That is its documented behaviour; the code relies on it, since
  nothing in the server retries by itself.

`IdentityResolution` has the same two. No other liveness is claimed.

## The proofs

`WebhookPipelineProofs` proves, for all payloads, events, conversations, texts,
numbers of workers and bounds that satisfy `PipelineAssumption`:

* `SettlementInvariant`: `Spec => []SettlementInv`;
* `TypeCorrect`, `NoMessageSilentlyLost`, `ClosedIsSettled`: its conjuncts;
* `PipelineImplementsAtLeastOnceReply`: `Spec => Ledger!Spec`.

`NoSilentLoss` is not inductive: nothing in it says that a request about to
answer 200 has settled every event behind it. `SettlementInv` adds that
knowledge: `Placed` (a busy request is at an event of its payload and takes the
message steps for messages that need a reply only), `KnowsSettled` (the events
behind it are settled; in "sent" and "done" the provider has taken the reply;
in "finish" the verdict is already decided and deserved), `ClosedMeansSettled`
(so that the duplicate short cuts transfer one request's knowledge to another)
and `OnlyMessagesSettled` (so that refusals and answers are of messages, which
the refinement needs). The proof has one lemma per action. The key fact is that
`Settled` is stable: `accepted` and `rejected` only grow, so that no other
request can invalidate what one knows. The refinement maps `SendAccepted` and
`SendLost` to `Answer`, `RefuseTransition` to `Refuse`, `Acknowledge` to
`Acknowledge`, and everything else to a stutter.

Its second half proves `WriteAhead`, `SentRowsWereAccepted` and
`OrphanRowsPaidFor` for any number of overlapping requests, from `RowsInv`. The
two counting properties are not inductive, since a row is marked a step after
the provider took the reply and left behind a step after it was created.
`RowsInv` counts what is already decided instead: the rows marked sent or whose
request has been told so (`Claimed`) against `accepted`, and the pending rows
no request will ever mark (`Stranded`) against `faults`; `RowsOwned` says that
two requests never work on one row. Every action has one of six shapes
(`RowShape`: it leaves the rows alone, lets go of one, creates, sends, fails to
send, marks), and each shape preserves `RowsInv`.

`OutboundDeliveryProofs` proves, for any retry limit, base delay and
`Retry-After` in the naturals (`DeliveryAssumption`), `LoopInvariant`, from it
`CopiesOnlyFromDoubt`, `RetriesBounded`, `RefusalsNeverRetried` and
`DelaysBounded`, and `DeliveryImplementsReplySend`. `LoopInv` ties the loop
variable to the number of requests and says that an attempt is left while the
service sleeps and none when it raises a retryable error.

`SerialDeliveryProofs` proves the safety properties of the run `serial` under
the assumption `OneRequest` (at most one worker): for any payloads, texts,
faults and redeliveries. Without it they are false, as `duplicate_bot_run` and
`racing_transitions` show. `SerialInv` has three parts: what a request holds in
its identity map is what is stored (`SessionInv`), what it is working on is not
closed (`MessagesInv`), and the one run or reply that a message may have without
a failure is either stored as processed or still in flight (`RepeatsInv`).
`ProcessCoherent` is about the bot alone: its transitions keep state and data
together and announce only the state they move to.

`WebhookIntakeProofs` proves `EveryItemAccounted` in two parts. The one about
the parser has no state: whatever the changes of a valid payload that are about
messages report is among the events `Parse` returns, for any number of entries,
changes and items (`ChangeReports`, `EntryFindsAll`, `ParserFindsAll`, on top of
`ListsFlattened`, an induction over `FlattenSeq`). The one about the pipeline is
an invariant. `PassedInv`: the events behind a request, and those of an
answered payload, are in the table. It holds for any overlap of requests, and
with `NoSilentLoss` gives `EveryMessageIsAccountedFor` (`MessagesAccounted`).
`RecordedInv` adds that the statuses and errors behind a request are closed, and
that the one it is dealing with is still open and will be closed as processed;
it needs `OneRequest`. That is no shortcoming of the proof: with two workers
TLC finds a request that registers a status event, a second one that closes it
and answers 200, and the first failing and marking the event failed.
`EveryItemIsAccountedFor` therefore assumes `OneRequest`, as the run `batch` does.

`IdentityResolutionProofs` proves `IdentityInv` and from it `TypeOK`,
`AllOrNothing` and `OnlyContactsCollide`, for any number of transactions,
messages and users. `IdentityInv` says which statements a transaction at each
step has behind it and what that means for the rows it holds (`Reached`), that
an uncommitted row has one owner (`OneOwner`), and that a second try for the
phone number is made only when another's is committed. `NoDeadlock` follows with
`HoldersAhead`: who holds a row or a lock is past the statement that takes it, so
that a wait always leads to a transaction further on in the one order of
statements, and the furthest of any set waits for none of them. The refinement
(`TransactionImplementsAtomicIdentity`) maps the commit of a transaction that
inserted its message to `Register`; `OneOwner` is what makes the committed rows
those of one user, all three at once. The commit of a duplicate, every
statement, rollback and crash maps to a stutter.

`ReadersProofs` proves, about the AI's context, `CurrentExcluded` and
`NewestThatFit` for any conversation, limits and lengths. The helpers of
`AIContext` are recursive functions, and their lemmas are inductions:
`Truncated` returns the longest run of the newest turns within the budget, and
reading one message more than the limit makes up for the current one, because
the history holds that at most once (`HistoryInv`).
About the listings it proves `PagingInv` and from it `MissedPaidFor`,
`PageAsPromised` and `RevocationHolds`, for any page size, rows and moves.
`MissedPaidFor` is about the last page only; `PagingInv` bounds at every moment
the rows owed to the reader that lie behind its offset (`Slipped`) by the moves
across it.

`AIReplyProofs` proves `TypeOK`, `LimitsInv`, from it `CallsPaidFor`,
`WindowRespected` and `RefusalsDeserved`, and `RetriesJustified`, for any
messages, limits, windows and number of retries, and for every adapter and
answer. `RetriesWorthwhile`, which TLC refutes for Ollama's 429, is proved for
the other adapters: `TransientIsCurable` compares what an adapter takes for
transient with what may be cured, answer by answer, and that 429 is the one
difference. `LimitsInv` has two parts. `CallsInv` adds to the calls made those that
a pending message may still make (`Left`). `WindowInv` says what a limiter's list
is worth: it is a suffix of the true history of admissions, which is in the
order of time, and what it has forgotten is older than the window
(`Remembers`). So the window it counts is the real one.

`SequenceLemmas` holds what these proofs share: induction over the natural
numbers and over sequences, stated with sets because the provers cannot
instantiate a predicate, and that a recursive function exists and is what its
equations say.

Only model-checked: liveness (`EveryPayloadAcked`, `EventsConverge`,
`EveryMessageRegistered`), since temporal proofs under fairness are beyond the
prover.

## What disagrees with the documents

Each has a run in which TLC finds the counterexample.

| run | says | does |
|---|---|---|
| `duplicate_bot_run` | docs/architecture.md:149 "Two persistent layers prevent duplicate bot execution:" | overlapping deliveries both find the event pending and the message processing, and both run the bot; no failure is needed |
| `failed_events` | docs/architecture.md:151 "Failed events are retried on Meta webhook retry." | a refused transition marks the event failed and answers 200; Meta does not retry |
| `no_starts_over` | bot/responses.py:41 "Reply *yes* to confirm or *no* to start over." | the transition from DEMO_CONFIRMATION to DEMO_FLOW is not in ALLOWED_TRANSITIONS; the user gets no reply |
| `racing_transitions` | bot/state.py:45 "Validates and applies conversation state transitions." | validated against a stale session and written over a newer one; the stored state makes forbidden steps |
| `ai_rate_limit` | ai/exceptions.py:45 "Non-retryable provider client error (HTTP 4xx except 429)." | the Ollama adapter raises a client error for a 429, too (`ai/ollama/client.py:82`): the user is told at once that the AI is unavailable, however many retries are left. For the other adapters the property is proved (`RetriesAreWorthwhile`) |
| `ai_conversation_limit` | ai/limits.py:6 "In-memory per-conversation AI request limiter." | a limiter for each webhook request; messages in different requests are never counted together |

One more, seen by reading and visible in the action sequence `RunBot`,
`CreateOutbound`: docs/architecture.md:177 has the session state and the
outbound intent persisted in one commit; the code uses two
(`message_processor.py:136` and `:216`).

Two that have no run. docs/architecture.md:173 says "Database transactions are
**not** held open during outbound HTTP calls"; the refresh in
`message_processor.py:109` opens one, which is open while the bot waits for the
AI provider. `whatsapp/exceptions.py:21` calls a rate limit "HTTP 429"; a 429
whose `Retry-After` is an HTTP date raises a `ValueError` before it is
classified (`whatsapp/meta/client.py:142`) and is not retried. The model has
that answer (`badHeader`) as the code has it, and no property asks for more.

## Seeded errors

A property that no plausible bug can break says nothing. For each one a
definition beside the modelled one is what it would be with such a bug; it is
used by no action, and substituting it makes TLC report the property.

| definition | seeded error | the bug | found by |
|---|---|---|---|
| `TerminalStatuses` | `FailedIsTerminal` | failed events are skipped on redelivery | `NoSilentLoss`, `ClosedMeansSettled`, `SettlementInv`, `ImplementsAtLeastOnceReply` |
| `TerminalProcessingStatuses` | `ProcessedIsNotTerminal` | processed messages are run again | `ClosedMessagesStayClosed` |
| `NewRowStatus` | `BornSent` | the row is created as sent | `WriteAhead` |
| `SetRow` | `SetRowSent`, `SetRowForgotten` | marked sent on failure; not marked | `SentRowsWereAccepted`; `OrphanRowsPaidFor` |
| `SetEvent` | `SetEventToVerdict`, `SetEventForgotten` | the wrong value; no commit | `TypeOK`; `EventsConverge` |
| `SetMessage` | `SetMessageForgotten` | the message mark is not committed | `LayersAgree` |
| `Persist` | `PersistStateOnly`, `PersistNothing` | state_data or the whole session is not saved | `SessionCoherent`; `AnnouncedStateIsDurable` |
| `Transition` | `TransitionUnchecked` | the state machine is not asked | `StoredTransitionsAllowed` |
| `SendAccepted` | `SendAgain` | the loop does not return on success | `RepeatsPaidFor` |
| `RefuseTransition` | `RefuseAndRaise` | a refusal becomes a 503, for ever | `EveryPayloadAcked` |
| `MayRetry` | `OneMore` | off by one | `RetriesSpent`, `LoopInv` |
| `Accepted` | `AcceptedAgain` | the loop goes on after success | `CopiesAreDoubtful` |
| `Backoff` | `BackoffUncapped` | no cap | `HeldUpBriefly` |
| `ErrorOf` | `ErrorOfRefusalsTemporary` | a 4xx is retried | `RefusalsAreFinal` |
| `RaiseLast` | `ReturnLast` | the exhausted loop returns | `ImplementsReplySend` |
| `Touch` | `TouchFirst` | the contact is updated after the conversation | `NoDeadlock` |
| `InsertContact` | `CommitContact` | a commit between the find-or-creates | `ImplementsAtomicIdentity`, `OnlyContactsCollide`, `IdentityInv` |
| `PhoneTaken` | `InsertPhoneBlindly` | the retry does not look again | `EveryMessageRegistered` |
| `Recognized` | `UpToForeign` | a foreign change ends its entry | `EveryItemAccounted` |
| `PageOf` | `PageFromNext` | the offset is one too far | `PagingInv`, `MissedPaidFor` |
| `Statements` | `PageFirst` | the page is selected before the count | `PageAsPromised` |
| `Allowed` | `RoleClaimed` | the role is taken from the token | `RevocationHolds` |
| `OllamaStatus` | `OllamaStatusBroad` | the range of client errors has no end | `RetriesJustified` |
| `LastAttempt` | `OneAttemptMore` | off by one | `TypeOK` |
| `Recent` | `ForgetsEarly` | off by one at the window's edge | `WindowRespected` |
| `RefuseRateLimited` | `LimitIgnored`, `CountsRefusals` | the result is ignored; refusals use up the limit | `CallsPaidFor`, `LimitsInv`; `RefusalsDeserved` |
| `Turns` | `KeepsCurrent` | the current message is not skipped | `CurrentExcluded` |
| `Truncated` | `TruncatedSkipping` | goes on after a turn that does not fit | `NewestThatFit` |

## Not modelled

* Signature and challenge verification and the decoding of the request's JSON:
  pure functions of a request that decide before the parser is called.
* Prompt assembly and sanitization: they rewrite text, which the models do not
  look into. The tool registry is called by nothing.
* The mock providers and transports: test doubles.
* The 24-hour window, which nothing reads; the conversation's status, which
  `_touch` sets back from closed to active and nothing ever sets to closed; and
  display names.
* The filters of the listings. With one, a row can leave a listing, and a reader
  would miss rows for which no update crossed its offset; no code in the
  repository closes a conversation, so its status stays what it was at first. A client that stops by `total` instead of at a
  short page is not modelled either.
* Two rows with the same time stamp: the listings' ORDER BY does not break the
  tie, and what PostgreSQL does with it is not in the code.
* The SQLite branches of `register` and `register_inbound`: the tests' database.
* Connection pools and HTTP clients; configuration, logging, migrations, health
  checks, the frontend: I/O and wiring without a state of the program's own.

## Plan

Done: the pipeline from the raw payload to the outbound rows, with
`AtLeastOnceReply`, one send with `ReplySend`, identity with `AtomicIdentity`, AI
replies with the providers, the AI's context, and the administrator's listings;
every safety property, action property and refinement is proved.

What is left, in this order:

1. That the pipeline's two steps `LoadSession` and `RegisterMessage` are
   `AtomicIdentity`'s one, as a theorem instead of a sentence.
2. The time stamps of a conversation under redelivery, if something comes to
   read the window.
3. The filters of the listings, when something closes a conversation.
