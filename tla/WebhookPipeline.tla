---------------------------- MODULE WebhookPipeline ----------------------------
(***************************************************************************)
(* The inbound path of one webhook delivery, from POST /webhooks/whatsapp  *)
(* to its HTTP status: event registration, message registration, the bot,  *)
(* the session row, the outbound reply and the marks that close each of    *)
(* them.  A worker is one request in flight; every action ends at a commit *)
(* or an await, so the requests interleave exactly where the code yields.  *)
(*                                                                         *)
(* Meta redelivers a payload until it is answered 200 and may deliver it   *)
(* again, early or late.  Requests die (a crash or a restart of the        *)
(* server), database calls fail, and so does the provider.                 *)
(*                                                                         *)
(* Contacts, phone numbers and conversation time stamps are not part of    *)
(* this module: no step below reads them.  A failure to find or create     *)
(* those rows is one of the database failures.                             *)
(*                                                                         *)
(* A definition marked as a seeded error is used by no action: it is what  *)
(* its neighbour would be with a plausible bug, and the README says which  *)
(* property notices it.                                                    *)
(***************************************************************************)
EXTENDS Naturals, Sequences, FiniteSets, BotEngine

CONSTANTS
  Worker,          \* requests in flight at once
  Payload,         \* webhook payloads Meta delivers
  Event,           \* event ids; a message's event id is its wamid
  Conversation,
  EventsOf,        \* the events of a payload, in order
  Kind,            \* InboundEventKind of an event
  Incomplete,      \* messages without a sender or a phone_number_id
  ConvOf,          \* the conversation of an event's sender
  Texts,           \* kinds of text the users send
  MaxDuplicates,   \* bound: deliveries Meta adds to the ones it owes
  MaxFaults,       \* bound: crashes, database and provider failures
  NoPayload

ASSUME PipelineAssumption ==
  /\ EventsOf \in [Payload -> Seq(Event)]
  /\ Kind \in [Event -> {"MESSAGE", "UNSUPPORTED", "STATUS", "UNKNOWN"}]
  /\ Incomplete \subseteq Event
  /\ ConvOf \in [Event -> Conversation]
  /\ Texts \subseteq TextKind
  /\ MaxDuplicates \in Nat
  /\ MaxFaults \in Nat
  /\ NoPayload \notin Payload

VARIABLES
  evt,        \* webhook_events.processing_status by event_id
  msg,        \* messages.processing_status by wamid (inbound rows)
  session,    \* conversation_sessions by conversation
  rows,       \* delivery_status of the outbound rows of each message, oldest first
  accepted,   \* replies to each message the provider has accepted
  rejected,   \* messages whose transition the bot engine has refused
  runs,       \* bot executions that got as far as persisting, by message
  text,       \* what the user wrote
  acked,      \* payloads answered 200
  pc,         \* the next step of each request
  job,        \* the payload it handles
  pos,        \* the position of its current event, 0 before the first
  held,       \* conversations whose session its identity map may hold
  snap,       \* those sessions, as it loaded or last wrote them
  reply,      \* the bot's reply it has to deliver
  row,        \* the index in rows of the outbound row it created
  verdict,    \* the event status it has to write, or the error it carries
  dups, faults

tables == <<evt, msg, session, rows>>
world  == <<accepted, rejected, runs, text, acked>>
local  == <<job, pos, held, snap, reply, row, verdict>>
vars   == <<tables, world, pc, local, dups, faults>>

WebhookStatus == {"pending", "processed", "duplicate", "unsupported", "failed"}
MessageStatus == {"received", "processing", "processed", "failed", "ignored"}
RowStatus == {"pending", "sent", "failed"}
Step == {"idle", "register", "load", "message", "processing", "refresh", "bot", "outbound",
         "send", "sent", "sendFailed", "done", "messageFailed", "finish", "fail", "next"}

(* Statuses that are not worth processing again, and the delivery status a *)
(* new outbound row starts from.                                           *)
\* (FailedIsTerminal, ProcessedIsNotTerminal, BornSent: seeded errors.)
FailedIsTerminal == {"processed", "unsupported", "duplicate", "failed"}
TerminalStatuses == {"processed", "unsupported", "duplicate"}
ProcessedIsNotTerminal == {"ignored"}
TerminalProcessingStatuses == {"processed", "ignored"}
BornSent == "sent"
NewRowStatus == "pending"

Cur(w) == EventsOf[job[w]][pos[w]]
Conv(w) == ConvOf[Cur(w)]
Goto(w, step) == pc' = [pc EXCEPT ![w] = step]
Finish(w, status) == Goto(w, "finish") /\ verdict' = [verdict EXCEPT ![w] = status]

\* A rollback expires the identity map: what was loaded is loaded again.
NoSnap == [c \in Conversation |-> NewSession]
Expire(w) ==
  /\ held' = [held EXCEPT ![w] = {}]
  /\ snap' = [snap EXCEPT ![w] = NoSnap]

\* The request is over, answered or not: its memory is gone.
EndRequest(w) ==
  /\ Goto(w, "idle")
  /\ job' = [job EXCEPT ![w] = NoPayload]
  /\ pos' = [pos EXCEPT ![w] = 0]
  /\ Expire(w)
  /\ reply' = [reply EXCEPT ![w] = "DEFAULT"]
  /\ row' = [row EXCEPT ![w] = 0]
  /\ verdict' = [verdict EXCEPT ![w] = "pending"]

\* The ORM writes the columns that differ from the ones it loaded.
\* (PersistStateOnly, PersistNothing: seeded errors.)
PersistStateOnly(stored, loaded, new) == [stored EXCEPT !.state = new.state]
PersistNothing(stored, loaded, new) == stored
Persist(stored, loaded, new) ==
  [ state |-> IF new.state = loaded.state THEN stored.state ELSE new.state,
    data  |-> IF new.data = loaded.data THEN stored.data ELSE new.data ]

\* The status columns of the current event, of its message and of the
\* outbound row the request has created.  (The variants are seeded errors.)
SetEventToVerdict(w, status) == evt' = [evt EXCEPT ![Cur(w)] = verdict[w]]
SetEventForgotten(w, status) == evt' = evt
SetEvent(w, status) == evt' = [evt EXCEPT ![Cur(w)] = status]

SetMessageForgotten(w, status) == msg' = msg
SetMessage(w, status) == msg' = [msg EXCEPT ![Cur(w)] = status]

SetRowForgotten(w, status) == rows' = rows
SetRowSent(w, status) == rows' = [rows EXCEPT ![Cur(w)] = [@ EXCEPT ![row[w]] = "sent"]]
SetRow(w, status) == rows' = [rows EXCEPT ![Cur(w)] = [@ EXCEPT ![row[w]] = status]]

Init ==
  /\ evt = [e \in Event |-> "absent"]
  /\ msg = [e \in Event |-> "absent"]
  /\ session = [c \in Conversation |-> NewSession]
  /\ rows = [e \in Event |-> <<>>]
  /\ accepted = [e \in Event |-> 0]
  /\ rejected = {}
  /\ runs = [e \in Event |-> 0]
  /\ text \in {t \in [Event -> Texts \cup {"absent"}] :
                \A e \in Event : IF Kind[e] = "MESSAGE" THEN t[e] \in Texts ELSE t[e] = "absent"}
  /\ acked = {}
  /\ pc = [w \in Worker |-> "idle"]
  /\ job = [w \in Worker |-> NoPayload]
  /\ pos = [w \in Worker |-> 0]
  /\ held = [w \in Worker |-> {}]
  /\ snap = [w \in Worker |-> NoSnap]
  /\ reply = [w \in Worker |-> "DEFAULT"]
  /\ row = [w \in Worker |-> 0]
  /\ verdict = [w \in Worker |-> "pending"]
  /\ dups = 0
  /\ faults = 0

-----------------------------------------------------------------------------
(* Meta and the webhook route.                                             *)

\* Meta delivers a payload it has no 200 for, or spends a duplicate.
Deliver(w, p) ==
  /\ pc[w] = "idle"
  /\ \/ p \notin acked /\ (\A v \in Worker : job[v] # p) /\ UNCHANGED dups
     \/ dups < MaxDuplicates /\ dups' = dups + 1
  /\ job' = [job EXCEPT ![w] = p]
  /\ Goto(w, "next")
  /\ UNCHANGED <<tables, world, pos, held, snap, reply, row, verdict, faults>>

\* handle_webhook_payload turns to its next event.
NextEvent(w) ==
  /\ pc[w] = "next" /\ pos[w] < Len(EventsOf[job[w]])
  /\ pos' = [pos EXCEPT ![w] = @ + 1]
  /\ reply' = [reply EXCEPT ![w] = "DEFAULT"]
  /\ row' = [row EXCEPT ![w] = 0]
  /\ verdict' = [verdict EXCEPT ![w] = "pending"]
  /\ Goto(w, "register")
  /\ UNCHANGED <<tables, world, job, held, snap, dups, faults>>

\* Every event has been dealt with: 200.
Acknowledge(w) ==
  /\ pc[w] = "next" /\ pos[w] = Len(EventsOf[job[w]])
  /\ acked' = acked \cup {job[w]}
  /\ EndRequest(w)
  /\ UNCHANGED <<tables, accepted, rejected, runs, text, dups, faults>>

-----------------------------------------------------------------------------
(* InboundEventService._process_event.                                     *)

\* register() finds the event in a terminal status.
SkipDuplicateEvent(w) ==
  /\ pc[w] = "register" /\ evt[Cur(w)] \in TerminalStatuses
  /\ Goto(w, "next")
  /\ UNCHANGED <<tables, world, local, dups, faults>>

\* register(): the unique event_id decides who inserts.
Register(e, status) ==
  evt' = IF evt[e] = "absent" THEN [evt EXCEPT ![e] = status] ELSE evt

\* register() inserts the event, or finds it in a status worth processing.
RegisterEvent(w) ==
  LET e == Cur(w)
  IN  /\ pc[w] = "register" /\ evt[e] \notin TerminalStatuses
      /\ Register(e, IF Kind[e] = "UNSUPPORTED" THEN "unsupported" ELSE "pending")
      /\ \/ /\ Kind[e] = "MESSAGE" /\ e \notin Incomplete
            /\ Goto(w, "load") /\ UNCHANGED verdict
         \/ /\ Kind[e] = "MESSAGE" /\ e \in Incomplete    \* outcome "ignored"
            /\ Finish(w, "unsupported")
         \/ /\ Kind[e] = "UNSUPPORTED"
            /\ Finish(w, "unsupported")
         \/ /\ Kind[e] \in {"STATUS", "UNKNOWN"}
            /\ Finish(w, "processed")
      /\ UNCHANGED <<msg, session, rows, world, job, pos, held, snap, reply, row, dups, faults>>

MarkEvent(w) ==
  /\ pc[w] = "finish"
  /\ SetEvent(w, verdict[w])
  /\ Goto(w, "next")
  /\ UNCHANGED <<msg, session, rows, world, local, dups, faults>>

\* mark_failed, then the exception reaches the route: 503.
MarkEventFailed(w) ==
  /\ pc[w] = "fail"
  /\ SetEvent(w, "failed")
  /\ EndRequest(w)
  /\ UNCHANGED <<msg, session, rows, world, dups, faults>>

-----------------------------------------------------------------------------
(* MessageProcessingService.process_inbound_event.                         *)

\* register_inbound(): the unique wamid decides who inserts.
RegisterInbound(e) ==
  msg' = IF msg[e] = "absent" THEN [msg EXCEPT ![e] = "received"] ELSE msg

\* The session row a SELECT returns: a row the identity map holds keeps the
\* columns it has there, one that is not held (any more) comes as stored.
SessionsFound(w) ==
  {session[Conv(w)]} \cup (IF Conv(w) \in held[w] THEN {snap[w][Conv(w)]} ELSE {})

Hold(w, s) ==
  /\ held' = [held EXCEPT ![w] = @ \cup {Conv(w)}]
  /\ snap' = [snap EXCEPT ![w][Conv(w)] = s]

\* find_or_create loads the session with the conversation.
LoadSession(w) ==
  /\ pc[w] = "load"
  /\ \E s \in SessionsFound(w) : Hold(w, s)
  /\ Goto(w, "message")
  /\ UNCHANGED <<tables, world, job, pos, reply, row, verdict, dups, faults>>

\* register_inbound commits the transaction.  A message that is already
\* PROCESSING needs no UPDATE to be marked so.
RegisterMessage(w) ==
  LET e == Cur(w)
  IN  /\ pc[w] = "message"
      /\ msg[e] \notin TerminalProcessingStatuses
      /\ RegisterInbound(e)
      /\ Goto(w, IF msg[e] = "processing" THEN "refresh" ELSE "processing")
      /\ UNCHANGED <<evt, session, rows, world, local, dups, faults>>

SkipDuplicateMessage(w) ==
  /\ pc[w] = "message" /\ msg[Cur(w)] \in TerminalProcessingStatuses
  /\ Finish(w, "processed")
  /\ UNCHANGED <<tables, world, job, pos, held, snap, reply, row, dups, faults>>

MarkProcessing(w) ==
  /\ pc[w] = "processing"
  /\ SetMessage(w, "processing")
  /\ Goto(w, "refresh")
  /\ UNCHANGED <<evt, session, rows, world, local, dups, faults>>

\* session.refresh(conversation, ["session"]): the columns of the session row
\* may or may not be reloaded (it is in the identity map already).
Refresh(w) ==
  /\ pc[w] = "refresh"
  /\ \E s \in SessionsFound(w) : Hold(w, s)
  /\ Goto(w, "bot")
  /\ UNCHANGED <<tables, world, job, pos, reply, row, verdict, dups, faults>>

\* The bot answers; its session is committed before anything is sent.
RunBot(w) ==
  LET e == Cur(w)
      out == Process(text[e], snap[w][Conv(w)])
  IN  /\ pc[w] = "bot" /\ out.allowed
      /\ session' = [session EXCEPT ![Conv(w)] = Persist(@, snap[w][Conv(w)], out.session)]
      /\ Hold(w, out.session)
      /\ runs' = [runs EXCEPT ![e] = @ + 1]
      /\ reply' = [reply EXCEPT ![w] = out.reply]
      /\ Goto(w, "outbound")
      /\ UNCHANGED <<evt, msg, rows, accepted, rejected, text, acked,
                     job, pos, row, verdict, dups, faults>>

\* (Seeded error: the refusal is raised instead of returned.)
RefuseAndRaise(w) ==
  /\ pc[w] = "bot" /\ ~Process(text[Cur(w)], snap[w][Conv(w)]).allowed
  /\ rejected' = rejected \cup {Cur(w)}
  /\ Goto(w, "fail")
  /\ UNCHANGED <<tables, accepted, runs, text, acked, local, dups, faults>>

\* InvalidConversationStateError: rollback, outcome "failed".
RefuseTransition(w) ==
  /\ pc[w] = "bot" /\ ~Process(text[Cur(w)], snap[w][Conv(w)]).allowed
  /\ rejected' = rejected \cup {Cur(w)}
  /\ Finish(w, "failed")
  /\ Expire(w)
  /\ UNCHANGED <<tables, accepted, runs, text, acked, job, pos, reply, row, dups, faults>>

MarkMessageProcessed(w) ==
  /\ pc[w] = "done"
  /\ SetMessage(w, "processed")
  /\ Finish(w, "processed")
  /\ UNCHANGED <<evt, session, rows, world, job, pos, held, snap, reply, row, dups, faults>>

\* Temporary or permanent provider failure: the message is marked too.
MarkMessageFailed(w) ==
  /\ pc[w] = "messageFailed"
  /\ SetMessage(w, "failed")
  /\ Goto(w, "fail")
  /\ UNCHANGED <<evt, session, rows, world, local, dups, faults>>

-----------------------------------------------------------------------------
(* _send_responses and the provider.  Every handler returns one reply.     *)

CreateOutbound(w) ==
  LET e == Cur(w)
  IN  /\ pc[w] = "outbound"
      /\ rows' = [rows EXCEPT ![e] = Append(@, NewRowStatus)]
      /\ row' = [row EXCEPT ![w] = Len(rows[e]) + 1]
      /\ Goto(w, "send")
      /\ UNCHANGED <<evt, msg, session, world, job, pos, held, snap, reply, verdict, dups, faults>>

\* (Seeded error: the retry loop does not return on success.)
SendAgain(w) ==
  /\ pc[w] = "send"
  /\ accepted' = [accepted EXCEPT ![Cur(w)] = @ + 1]
  /\ UNCHANGED <<tables, rejected, runs, text, acked, pc, local, dups, faults>>

SendAccepted(w) ==
  /\ pc[w] = "send"
  /\ accepted' = [accepted EXCEPT ![Cur(w)] = @ + 1]
  /\ Goto(w, "sent")
  /\ UNCHANGED <<tables, rejected, runs, text, acked, local, dups, faults>>

\* The provider takes the message but the answer is lost: the outbound
\* service sees a temporary failure and tries again.
SendLost(w) ==
  /\ pc[w] = "send" /\ faults < MaxFaults
  /\ accepted' = [accepted EXCEPT ![Cur(w)] = @ + 1]
  /\ faults' = faults + 1
  /\ UNCHANGED <<tables, rejected, runs, text, acked, pc, local, dups>>

\* send_text_message raises: retries exhausted or a permanent failure
\* ("provider"), or an error the processor has no clause for ("other":
\* rate limit, authentication).
SendFails(w) ==
  /\ pc[w] = "send" /\ faults < MaxFaults
  /\ \E error \in {"provider", "other"} : verdict' = [verdict EXCEPT ![w] = error]
  /\ faults' = faults + 1
  /\ Goto(w, "sendFailed")
  /\ UNCHANGED <<tables, world, job, pos, held, snap, reply, row, dups>>

MarkOutboundSent(w) ==
  /\ pc[w] = "sent"
  /\ SetRow(w, "sent")
  /\ Goto(w, "done")
  /\ UNCHANGED <<evt, msg, session, world, local, dups, faults>>

MarkOutboundFailed(w) ==
  /\ pc[w] = "sendFailed"
  /\ SetRow(w, "failed")
  /\ Goto(w, IF verdict[w] = "provider" THEN "messageFailed" ELSE "fail")
  /\ UNCHANGED <<evt, msg, session, world, local, dups, faults>>

-----------------------------------------------------------------------------
(* Failures.                                                               *)

\* A statement or a commit fails (a lost uniqueness race included): what the
\* step would have written is rolled back.  Outside _process_event's try, or
\* in its except clause, the exception goes straight to the route.  So it
\* does when nobody has rolled back the session after a failed flush:
\* mark_failed's own commit then raises.
DatabaseFails(w) ==
  /\ pc[w] \notin {"idle", "next", "send"} /\ faults < MaxFaults
  /\ faults' = faults + 1
  /\ \/ pc[w] \in {"register", "fail", "finish", "messageFailed"} /\ EndRequest(w)
     \/ pc[w] \notin {"register", "fail"} /\ Goto(w, "fail") /\ UNCHANGED local
  /\ UNCHANGED <<tables, world, dups>>

\* The process dies, or the request is cancelled: no handler runs.
Crash(w) ==
  /\ pc[w] # "idle" /\ faults < MaxFaults
  /\ faults' = faults + 1
  /\ EndRequest(w)
  /\ UNCHANGED <<tables, world, dups>>

\* Nothing is owed and no duplicate is left to spend.
Quiescent ==
  /\ acked = Payload /\ dups = MaxDuplicates
  /\ \A w \in Worker : pc[w] = "idle"
  /\ UNCHANGED vars

-----------------------------------------------------------------------------
\* The steps the server takes by itself when nothing goes wrong.
Proceed(w) ==
  \/ NextEvent(w) \/ Acknowledge(w)
  \/ SkipDuplicateEvent(w) \/ RegisterEvent(w) \/ MarkEvent(w) \/ MarkEventFailed(w)
  \/ LoadSession(w) \/ SkipDuplicateMessage(w) \/ RegisterMessage(w) \/ MarkProcessing(w) \/ Refresh(w)
  \/ RunBot(w) \/ RefuseTransition(w) \/ MarkMessageProcessed(w) \/ MarkMessageFailed(w)
  \/ CreateOutbound(w) \/ SendAccepted(w) \/ MarkOutboundSent(w) \/ MarkOutboundFailed(w)

Fail(w) == SendLost(w) \/ SendFails(w) \/ DatabaseFails(w) \/ Crash(w)

Next ==
  \/ \E w \in Worker : Proceed(w) \/ Fail(w) \/ \E p \in Payload : Deliver(w, p)
  \/ Quiescent

Spec == Init /\ [][Next]_vars

\* A request that is scheduled goes on; Meta keeps redelivering.  Neither
\* failures nor duplicates are owed to anybody.
Fairness ==
  /\ \A w \in Worker : WF_vars(Proceed(w))
  /\ \A p \in Payload : WF_vars(p \notin acked /\ \E w \in Worker : Deliver(w, p))

FairSpec == Spec /\ Fairness

-----------------------------------------------------------------------------
(* Types.                                                                  *)

TypeOK ==
  /\ evt \in [Event -> WebhookStatus \cup {"absent"}]
  /\ msg \in [Event -> MessageStatus \cup {"absent"}]
  /\ session \in [Conversation -> Session]
  /\ rows \in [Event -> Seq(RowStatus)]
  /\ accepted \in [Event -> Nat]
  /\ rejected \subseteq Event
  /\ runs \in [Event -> Nat]
  /\ text \in [Event -> TextKind]
  /\ acked \subseteq Payload
  /\ pc \in [Worker -> Step]
  /\ job \in [Worker -> Payload \cup {NoPayload}]
  /\ pos \in [Worker -> Nat]
  /\ held \in [Worker -> SUBSET Conversation]
  /\ snap \in [Worker -> [Conversation -> Session]]
  /\ reply \in [Worker -> Reply]
  /\ row \in [Worker -> Nat]
  /\ verdict \in [Worker -> WebhookStatus \cup {"provider", "other"}]
  /\ dups \in 0..MaxDuplicates
  /\ faults \in 0..MaxFaults

-----------------------------------------------------------------------------
(* Properties of every interleaving.                                       *)

NeedsReply(e) == Kind[e] = "MESSAGE" /\ e \notin Incomplete
Settled(e) == NeedsReply(e) => accepted[e] > 0 \/ e \in rejected

\* No message is silently lost: a payload is answered 200 only when, for each
\* of its messages, the provider has taken a reply or the bot engine has
\* refused the transition, whatever crashed, failed or was delivered twice
\* (inbound.py handle_webhook_payload, the two duplicate short cuts included).
NoSilentLoss ==
  \A p \in acked : \A i \in DOMAIN EventsOf[p] : Settled(EventsOf[p][i])

\* Both duplicate short cuts are safe: an event or a message in a status that
\* stops its reprocessing is settled, in every interleaving (TERMINAL_STATUSES
\* in idempotency.py, TERMINAL_PROCESSING_STATUSES in message_repository.py).
ClosedMeansSettled ==
  \A e \in Event :
    /\ evt[e] \in TerminalStatuses => Settled(e)
    /\ msg[e] \in TerminalProcessingStatuses => accepted[e] > 0

\* The same as a step-by-step promise: the pipeline implements the abstract
\* specification AtLeastOnceReply.
Ledger == INSTANCE AtLeastOnceReply
  WITH Message    <- {e \in Event : NeedsReply(e)},
       MessagesOf <- [p \in Payload |->
                       {e \in Event : NeedsReply(e) /\ \E i \in DOMAIN EventsOf[p] : EventsOf[p][i] = e}],
       answered   <- {e \in Event : accepted[e] > 0},
       refused    <- rejected

ImplementsAtLeastOnceReply == Ledger!Spec

\* A row says SENT only for a reply the provider took: never more SENT rows
\* than accepted replies (message_processor.py _send_responses).
SentRowsWereAccepted ==
  \A e \in Event : Cardinality({i \in DOMAIN rows[e] : rows[e][i] = "sent"}) <= accepted[e]

Holds(w, e, i) ==
  job[w] # NoPayload /\ pos[w] > 0 /\ Cur(w) = e /\ row[w] = i

\* Each failure leaves at most one outbound row PENDING for ever: the rows
\* no request is working on are no more than the failures so far
\* (message_processor.py _send_responses marks every other one).
OrphanRowsPaidFor ==
  Cardinality({ r \in Event \X (1..(1 + MaxDuplicates + MaxFaults)) :
                  /\ r[2] \in DOMAIN rows[r[1]] /\ rows[r[1]][r[2]] = "pending"
                  /\ \A w \in Worker : ~Holds(w, r[1], r[2]) }) <= faults

\* The intent is durable before the side effect: the provider takes a reply
\* only while a row for it is PENDING (create_outbound commits before
\* send_text_message is called).
WriteAhead ==
  [][\A e \in Event : accepted'[e] # accepted[e] =>
       \E i \in DOMAIN rows[e] : rows[e][i] = "pending"]_vars

-----------------------------------------------------------------------------
(* Properties of deliveries that do not overlap (one worker).              *)

\* The bot runs again, and a second reply goes out, only because of a
\* failure: redeliveries by themselves never repeat either (the event layer
\* and the message layer of idempotency.py and message_repository.py).
RepeatsPaidFor ==
  \A e \in Event : runs[e] <= 1 + faults /\ accepted[e] <= 1 + faults

\* The two idempotency layers agree: a message event is only closed as
\* PROCESSED when its message row is PROCESSED.
LayersAgree ==
  \A e \in Event : NeedsReply(e) /\ evt[e] = "processed" => msg[e] = "processed"

\* A name is stored exactly while the bot waits for its confirmation, across
\* retries of messages whose session change is already committed.
SessionCoherent ==
  \A c \in Conversation :
    session[c].data = "named" <=> session[c].state = "DEMO_CONFIRMATION"

\* Every change of a stored state is a transition the state machine allows,
\* whichever message, retry or request makes it (bot/state.py, bot/engine.py;
\* the check is made against the loaded state, the write is to the stored one).
StoredTransitionsAllowed ==
  [][\A c \in Conversation : session'[c].state # session[c].state =>
       session'[c].state \in AllowedTransitions[session[c].state]]_vars

\* While a reply that announces a state is being delivered, that state is
\* what the database holds (persist_session_state commits before the reply
\* is created, and nothing else moves the conversation meanwhile).
AnnouncedStateIsDurable ==
  \A w \in Worker :
    pc[w] \in {"outbound", "send", "sent", "done"} /\ reply[w] \in DOMAIN Announces =>
      session[Conv(w)].state = Announces[reply[w]]

\* Once its row is PROCESSED, a message is never run, answered or reopened
\* again, however often it is redelivered (should_process in both layers).
ClosedMessagesStayClosed ==
  [][\A e \in Event : msg[e] = "processed" =>
       msg'[e] = "processed" /\ runs'[e] = runs[e] /\ accepted'[e] = accepted[e]]_vars

-----------------------------------------------------------------------------
(* The inductive invariant behind NoSilentLoss.                            *)

MessageStep == {"load", "message", "processing", "refresh", "bot", "outbound", "send", "sent",
                "sendFailed", "done", "messageFailed"}

\* A request that is not idle works on a payload, at one of its events, and
\* takes the message steps only for a message that needs a reply.
Placed(w) ==
  IF pc[w] = "idle" THEN pos[w] = 0
  ELSE /\ job[w] \in Payload
       /\ pos[w] \in 0..Len(EventsOf[job[w]])
       /\ pc[w] # "next" => pos[w] > 0
       /\ pc[w] \in MessageStep => NeedsReply(Cur(w))

\* What a request knows of its payload: the events behind it are settled,
\* and so is the current one once its outcome is decided.
KnowsSettled(w) ==
  pc[w] # "idle" =>
    /\ \A i \in 1..pos[w] : i < pos[w] \/ pc[w] = "next" => Settled(EventsOf[job[w]][i])
    /\ pc[w] \in {"sent", "done"} => accepted[Cur(w)] > 0
    /\ pc[w] = "finish" => Settled(Cur(w)) /\ verdict[w] \in WebhookStatus

\* Only messages are answered or refused.
OnlyMessagesSettled == \A e \in Event : accepted[e] > 0 \/ e \in rejected => NeedsReply(e)

SettlementInv ==
  /\ TypeOK
  /\ \A w \in Worker : Placed(w) /\ KnowsSettled(w)
  /\ OnlyMessagesSettled
  /\ ClosedMeansSettled
  /\ NoSilentLoss

-----------------------------------------------------------------------------
(* Liveness, under FairSpec.                                               *)

\* Meta's retries end: every payload is answered 200 once failures stop.
EveryPayloadAcked == <>(acked = Payload)

\* The event table converges: from some moment on, every delivered event is
\* in a terminal status, but for the messages the bot engine refused.
EventsConverge ==
  <>[](\A e \in Event : evt[e] \in TerminalStatuses \cup {"absent"} \/ e \in rejected)

-----------------------------------------------------------------------------
(* What the documents say and the code does not do.                        *)

\* docs/architecture.md: two persistent layers prevent duplicate bot
\* execution (checked where nothing fails).
BotRunsOnce == \A e \in Event : runs[e] <= 1

\* docs/architecture.md: failed events are retried on Meta webhook retry, so
\* a failed event still has to be owed to the server.
FailedEventsAreOwed ==
  \A p \in acked : \A i \in DOMAIN EventsOf[p] : evt[EventsOf[p][i]] # "failed"

\* bot/responses.py: "Reply *yes* to confirm or *no* to start over."
NoStartsOver == \A e \in rejected : text[e] # "no"
=============================================================================
