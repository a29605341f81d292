-------------------------- MODULE SerialDeliveryProofs --------------------------
(***************************************************************************)
(* What idempotency and the stored session are worth when deliveries do    *)
(* not overlap: with at most one request in flight (OneRequest), and any   *)
(* payloads, texts, failures and redeliveries, the properties of the       *)
(* serial run hold.  Each part of the argument has an invariant of its     *)
(* own: the session, the messages and the number of repeats.               *)
(***************************************************************************)
EXTENDS WebhookPipelineProofs

OneRequest == \A v, w \in Worker : v = w

-----------------------------------------------------------------------------
(* The session.                                                            *)

Replying == {"outbound", "send", "sent", "done"}

\* What the request holds is what is stored, the bot gets a held session, and
\* a reply that announces a state is told from the stored one.
SessionInv ==
  /\ \A w \in Worker :
       /\ \A c \in held[w] : snap[w][c] = session[c]
       /\ pc[w] = "bot" => Conv(w) \in held[w]
       /\ pc[w] \in Replying /\ reply[w] \in DOMAIN Announces =>
            session[Conv(w)].state = Announces[reply[w]]
  /\ SessionCoherent

(* The messages.                                                           *)

InFlight == MessageStep \ {"load", "message"}

\* A message in flight is not closed, and an event is closed as PROCESSED
\* only after its message.
MessagesInv ==
  /\ \A w \in Worker :
       /\ pc[w] \in InFlight => msg[Cur(w)] \notin TerminalProcessingStatuses
       /\ pc[w] = "finish" /\ verdict[w] = "processed" /\ NeedsReply(Cur(w)) =>
            msg[Cur(w)] = "processed"
  /\ \A e \in Event : msg[e] # "ignored"
  /\ LayersAgree

(* The repeats.                                                            *)

\* The run, or the reply, that each message may have without a failure.
Run(e) == msg[e] = "processed" \/ \E w \in Worker : pc[w] \in Replying /\ Cur(w) = e
Replied(e) == msg[e] = "processed" \/ \E w \in Worker : pc[w] \in {"sent", "done"} /\ Cur(w) = e

RepeatsInv ==
  \A e \in Event :
    /\ runs[e] <= 1 + faults /\ (runs[e] = 1 + faults => Run(e))
    /\ accepted[e] <= 1 + faults /\ (accepted[e] = 1 + faults => Replied(e))

SerialInv == SessionInv /\ MessagesInv /\ RepeatsInv

-----------------------------------------------------------------------------
(* What the bot does to a coherent session.                                *)

Coherent(s) == s.data = "named" <=> s.state = "DEMO_CONFIRMATION"

LEMMA ProcessCoherent ==
  ASSUME NEW t \in TextKind, NEW s \in Session, Coherent(s), Process(t, s).allowed
  PROVE  /\ Coherent(Process(t, s).session)
         /\ Process(t, s).session.state \in {s.state} \cup AllowedTransitions[s.state]
         /\ Process(t, s).reply \in DOMAIN Announces =>
              Process(t, s).session.state = Announces[Process(t, s).reply]
<1> SUFFICES ASSUME NEW out, out = Process(t, s), out.allowed
             PROVE  /\ Coherent(out.session)
                    /\ out.session.state \in {s.state} \cup AllowedTransitions[s.state]
                    /\ out.reply \in DOMAIN Announces => out.session.state = Announces[out.reply]
  OBVIOUS
<1> DEFINE Good(r, st) ==
      /\ r.next = "keep" => r.data = "keep" /\ r.reply \notin DOMAIN Announces
      /\ r.next # "keep" => /\ r.data \in StateData
                            /\ r.data = "named" <=> r.next = "DEMO_CONFIRMATION"
                            /\ r.reply \in DOMAIN Announces => r.next = Announces[r.reply]
<1>1. \A c \in CommandName, st \in ConversationState : Good(CommandHandler[c], st)
  BY DEF CommandName, CommandHandler, MovesTo, Replies, Announces, StateData
<1>2. \A st \in ConversationState : Good(DemoFlow(t), st) /\ Good(DemoConfirmation(t), st)
  BY DEF DemoFlow, DemoConfirmation, DemoCancelled, MovesTo, Replies, Announces, StateData
<1>3. \A st \in ConversationState : Good(Route(t, st), st)
  <2>1. \A st \in ConversationState : Good(Replies("UNKNOWN_COMMAND"), st) /\ Good(Replies("DEFAULT"), st)
    BY DEF Replies, Announces
  <2> QED BY <1>1, <1>2, <2>1 DEF Route
<1>4. s.state \in ConversationState /\ s.data \in StateData
  BY DEF Session
<1>5. CASE t \in {"absent", "slash"}
  <2>1. out = [allowed |-> TRUE, reply |-> "DEFAULT", session |-> s]
    BY <1>5 DEF Process
  <2> QED BY <2>1 DEF Announces
<1>6. CASE t \notin {"absent", "slash"}
  <2> DEFINE r == Route(t, s.state)
  <2>1. Good(r, s.state)
    BY <1>3, <1>4
  <2>2. out = Transition(s, r)
    BY <1>6 DEF Process
  <2> HIDE DEF r
  <2>3. CASE r.next = "keep"
    BY <1>4, <2>1, <2>2, <2>3 DEF Transition, Or, Coherent
  <2>4. CASE r.next # "keep"
    <3>1. r.data # "keep"
      BY <2>1, <2>4 DEF StateData
    <3>2. out.session = [state |-> r.next, data |-> r.data] /\ out.reply = r.reply
      BY <2>2, <2>4, <3>1 DEF Transition, Or
    <3>3. r.next \in {s.state} \cup AllowedTransitions[s.state]
      <4>1. Or(r.next, s.state) = r.next
        BY <2>4 DEF Or
      <4>2. Transition(s, r).allowed = (r.next = s.state \/ r.next \in AllowedTransitions[s.state])
        BY <4>1, Zenon DEF Transition
      <4> QED BY <2>2, <4>2, Zenon
    <3> QED BY <2>1, <2>4, <3>2, <3>3 DEF Coherent
  <2> QED BY <2>3, <2>4
<1> QED BY <1>5, <1>6

\* Written over what was loaded, a session is what the bot returned.
LEMMA PersistFresh ==
  ASSUME NEW a \in Session, NEW b \in Session
  PROVE  Persist(a, a, b) = b
BY DEF Persist, Session

-----------------------------------------------------------------------------
(* SessionInv.                                                             *)

\* Steps that neither load nor store a session: w keeps what it holds, or
\* forgets all of it.
KeepsSession(w) ==
  /\ session' = session
  /\ UNCHANGED <<held, snap>> \/ held'[w] = {}
  /\ pc'[w] # "bot"
  /\ pc'[w] \in Replying => pc[w] \in Replying /\ Conv(w)' = Conv(w) /\ reply'[w] = reply[w]

Loads(w) ==
  /\ session' = session /\ \E s \in SessionsFound(w) : Hold(w, s)
  /\ pc'[w] \notin Replying /\ Conv(w)' = Conv(w)

LEMMA SessionShape ==
  ASSUME SettlementInv, NEW w \in Worker, Proceed(w) \/ Fail(w) \/ \E p \in Payload : Deliver(w, p)
  PROVE  KeepsSession(w) \/ (Loads(w) /\ pc[w] \in {"load", "refresh"}) \/ RunBot(w)
<1> USE DEF tables, world, local, Goto, Finish, Replying
<1>t. TypeOK
  BY DEF SettlementInv
<1>e. EndRequest(w) /\ session' = session => KeepsSession(w)
  BY <1>t DEF EndRequest, Expire, KeepsSession, TypeOK
<1>1. ASSUME NEW p \in Payload, Deliver(w, p) PROVE KeepsSession(w)
  BY <1>t, <1>1 DEF Deliver, KeepsSession, TypeOK
<1>2. CASE NextEvent(w)
  BY <1>t, <1>2 DEF NextEvent, KeepsSession, TypeOK
<1>3. CASE Acknowledge(w) \/ MarkEventFailed(w)
  BY <1>e, <1>3 DEF Acknowledge, MarkEventFailed
<1>4. CASE SkipDuplicateEvent(w) \/ MarkEvent(w) \/ RegisterMessage(w) \/ MarkProcessing(w)
           \/ MarkMessageFailed(w)
  <2>1. KeepsSession(w)
    BY <1>t, <1>4 DEF SkipDuplicateEvent, MarkEvent, RegisterMessage, MarkProcessing,
          MarkMessageFailed, KeepsSession, TypeOK
  <2> QED BY <2>1
<1>5. CASE RegisterEvent(w)
  <2>1. KeepsSession(w)
    BY <1>t, <1>5 DEF RegisterEvent, KeepsSession, TypeOK
  <2> QED BY <2>1
<1>6. CASE SkipDuplicateMessage(w) \/ MarkMessageProcessed(w) \/ RefuseTransition(w)
  <2>1. KeepsSession(w)
    BY <1>t, <1>6 DEF SkipDuplicateMessage, MarkMessageProcessed, RefuseTransition, Expire,
          KeepsSession, TypeOK
  <2> QED BY <2>1
<1>7. CASE LoadSession(w) \/ Refresh(w)
  <2>1. Loads(w) /\ pc[w] \in {"load", "refresh"}
    BY <1>t, <1>7 DEF LoadSession, Refresh, Loads, Conv, Cur, TypeOK
  <2> QED BY <2>1
<1>8. CASE CreateOutbound(w) \/ MarkOutboundSent(w) \/ MarkOutboundFailed(w)
  <2>1. KeepsSession(w)
    BY <1>t, <1>8 DEF CreateOutbound, MarkOutboundSent, MarkOutboundFailed, KeepsSession, Conv, Cur, TypeOK
  <2> QED BY <2>1
<1>9. CASE SendAccepted(w) \/ SendLost(w) \/ SendFails(w)
  <2>1. KeepsSession(w)
    BY <1>t, <1>9 DEF SendAccepted, SendLost, SendFails, KeepsSession, Conv, Cur, TypeOK
  <2> QED BY <2>1
<1>10. CASE DatabaseFails(w) \/ Crash(w)
  <2>1. CASE EndRequest(w)
    BY <1>10, <1>e, <2>1 DEF DatabaseFails, Crash
  <2>2. CASE Goto(w, "fail") /\ UNCHANGED local /\ DatabaseFails(w)
    BY <1>t, <2>2 DEF DatabaseFails, KeepsSession, TypeOK
  <2> QED BY <1>10, <2>1, <2>2 DEF DatabaseFails, Crash
<1> QED BY <1>1, <1>2, <1>3, <1>4, <1>5, <1>6, <1>7, <1>8, <1>9, <1>10 DEF Proceed, Fail

\* What the bot stores when the session it was given is the stored one.
LEMMA BotStores ==
  ASSUME SettlementInv, SessionInv, NEW w \in Worker, RunBot(w)
  PROVE  LET old == session[Conv(w)]
             out == Process(text[Cur(w)], old)
         IN  /\ Conv(w) \in Conversation /\ Cur(w) \in Event
             /\ old \in Session /\ out.session \in Session /\ Coherent(old)
             /\ out.allowed /\ Hold(w, out.session) /\ reply' = [reply EXCEPT ![w] = out.reply]
             /\ session' = [session EXCEPT ![Conv(w)] = out.session]
             /\ Coherent(out.session) /\ out.session.state \in {old.state} \cup AllowedTransitions[old.state]
             /\ out.reply \in DOMAIN Announces => out.session.state = Announces[out.reply]
<1> DEFINE old == session[Conv(w)]
           out == Process(text[Cur(w)], old)
<1>t. TypeOK /\ Placed(w) /\ pc[w] = "bot"
  BY DEF SettlementInv, RunBot
<1>1. Cur(w) \in Event /\ Conv(w) \in Conversation
  BY <1>t, CurIsEvent
<1>2. snap[w][Conv(w)] = old
  BY <1>t DEF SessionInv
<1>3. old \in Session /\ text[Cur(w)] \in TextKind /\ Coherent(old)
  BY <1>t, <1>1 DEF TypeOK, SessionInv, SessionCoherent, Coherent
<1>4. out.allowed /\ Hold(w, out.session) /\ reply' = [reply EXCEPT ![w] = out.reply]
  BY <1>2 DEF RunBot
<1>5. out.session \in Session
  BY <1>3, ProcessType
<1>6. session' = [session EXCEPT ![Conv(w)] = out.session]
  <2>1. Persist(old, old, out.session) = out.session
    BY <1>3, <1>5, PersistFresh
  <2>2. session' = [session EXCEPT ![Conv(w)] = Persist(old, old, out.session)]
    BY <1>2 DEF RunBot
  <2> QED BY <2>1, <2>2
<1>7. /\ Coherent(out.session) /\ out.session.state \in {old.state} \cup AllowedTransitions[old.state]
      /\ out.reply \in DOMAIN Announces => out.session.state = Announces[out.reply]
  BY <1>3, <1>4, ProcessCoherent
<1> QED BY <1>1, <1>3, <1>4, <1>5, <1>6, <1>7

LEMMA SessionStep ==
  ASSUME OneRequest, SettlementInv, SessionInv, NEW w \in Worker,
         Proceed(w) \/ Fail(w) \/ \E p \in Payload : Deliver(w, p)
  PROVE  SessionInv'
<1>t. TypeOK
  BY DEF SettlementInv
<1>o. \A v \in Worker : v = w
  BY DEF OneRequest
<1>1. CASE KeepsSession(w)
  BY <1>o, <1>1 DEF KeepsSession, SessionInv, SessionCoherent
<1>2. CASE Loads(w) /\ pc[w] \in {"load", "refresh"}
  <2>1. PICK s \in SessionsFound(w) : Hold(w, s)
    BY <1>2 DEF Loads
  <2>2. s = session[Conv(w)]
    BY DEF SessionsFound, SessionInv
  <2>3. Conv(w) \in Conversation
    BY <1>2, CurIsEvent DEF SettlementInv
  <2>4. \A c \in held'[w] : snap'[w][c] = session[c]
    BY <1>t, <2>1, <2>2, <2>3 DEF Hold, SessionInv, TypeOK
  <2>5. Conv(w) \in held'[w]
    BY <1>t, <2>1, <2>3 DEF Hold, TypeOK
  <2> QED BY <1>o, <1>2, <2>4, <2>5 DEF Loads, SessionInv, SessionCoherent
<1>3. CASE RunBot(w)
  <2> DEFINE out == Process(text[Cur(w)], session[Conv(w)])
             new == out.session
  <2>0. /\ session' = [session EXCEPT ![Conv(w)] = new] /\ Hold(w, new) /\ Coherent(new)
        /\ reply' = [reply EXCEPT ![w] = out.reply]
        /\ out.reply \in DOMAIN Announces => new.state = Announces[out.reply]
    BY <1>3, BotStores
  <2>1. reply'[w] \in DOMAIN Announces => new.state = Announces[reply'[w]]
    BY <1>t, <2>0 DEF TypeOK
  <2> HIDE DEF new, out
  <2>2. Conv(w) \in Conversation /\ Conv(w)' = Conv(w) /\ pc'[w] = "outbound"
    BY <1>t, <1>3, BotStores DEF RunBot, Goto, Conv, Cur, TypeOK
  <2>3. \A c \in held'[w] : snap'[w][c] = session'[c]
    BY <1>t, <2>0, <2>2 DEF Hold, SessionInv, TypeOK
  <2>4. session'[Conv(w)] = new /\ SessionCoherent'
    BY <1>t, <2>0, <2>2 DEF Coherent, SessionInv, SessionCoherent, TypeOK
  <2> QED BY <1>o, <2>1, <2>2, <2>3, <2>4 DEF SessionInv
<1> QED BY <1>1, <1>2, <1>3, SessionShape

-----------------------------------------------------------------------------
(* MessagesInv.                                                            *)

\* Steps that touch neither table and decide nothing as PROCESSED.
KeepsMessages(w) ==
  /\ UNCHANGED <<evt, msg>>
  /\ pc'[w] \in InFlight => pc[w] \in InFlight /\ Cur(w)' = Cur(w)
  /\ pc'[w] = "finish" => verdict'[w] # "processed"

LEMMA KeptMessages ==
  ASSUME OneRequest, MessagesInv, NEW w \in Worker, KeepsMessages(w)
  PROVE  MessagesInv'
BY DEF OneRequest, MessagesInv, KeepsMessages, LayersAgree, NeedsReply

LEMMA MessagesStep ==
  ASSUME OneRequest, SettlementInv, MessagesInv, NEW w \in Worker,
         Proceed(w) \/ Fail(w) \/ \E p \in Payload : Deliver(w, p)
  PROVE  MessagesInv'
<1> USE DEF tables, world, local, Goto, Finish, InFlight, MessageStep
<1>t. TypeOK /\ Placed(w)
  BY DEF SettlementInv
<1>o. \A v \in Worker : v = w
  BY DEF OneRequest
<1>e. pc[w] \notin {"idle", "next"} => Cur(w) \in Event
  BY <1>t, CurIsEvent
<1>q. EndRequest(w) /\ UNCHANGED <<evt, msg>> => KeepsMessages(w)
  BY <1>t DEF EndRequest, KeepsMessages, TypeOK
<1>k. KeepsMessages(w) => MessagesInv'
  BY KeptMessages
<1>d. EndRequest(w) => pc'[w] = "idle"
  BY <1>t DEF EndRequest, TypeOK
<1>1. ASSUME NEW p \in Payload, Deliver(w, p) PROVE MessagesInv'
  BY <1>t, <1>1, <1>k DEF Deliver, KeepsMessages, TypeOK
<1>2. CASE NextEvent(w) \/ SkipDuplicateEvent(w) \/ LoadSession(w) \/ Refresh(w) \/ RefuseTransition(w)
  <2>1. KeepsMessages(w)
    BY <1>t, <1>2 DEF NextEvent, SkipDuplicateEvent, LoadSession, Refresh, RefuseTransition,
          KeepsMessages, Cur, TypeOK
  <2> QED BY <2>1, <1>k
<1>3. CASE Acknowledge(w)
  BY <1>3, <1>q, <1>k DEF Acknowledge
<1>4. CASE RunBot(w)
  <2>1. KeepsMessages(w)
    BY <1>t, <1>4 DEF RunBot, KeepsMessages, Cur, TypeOK
  <2> QED BY <2>1, <1>k
<1>5. CASE CreateOutbound(w) \/ MarkOutboundSent(w) \/ MarkOutboundFailed(w)
  <2>1. KeepsMessages(w)
    BY <1>t, <1>5 DEF CreateOutbound, MarkOutboundSent, MarkOutboundFailed, KeepsMessages, Cur, TypeOK
  <2> QED BY <2>1, <1>k
<1>6. CASE SendAccepted(w) \/ SendLost(w) \/ SendFails(w)
  <2>1. KeepsMessages(w)
    BY <1>t, <1>6 DEF SendAccepted, SendLost, SendFails, KeepsMessages, Cur, TypeOK
  <2> QED BY <2>1, <1>k
<1>7. CASE DatabaseFails(w) \/ Crash(w)
  <2>1. CASE EndRequest(w)
    BY <1>7, <2>1, <1>q, <1>k DEF DatabaseFails, Crash
  <2>2. CASE Goto(w, "fail") /\ UNCHANGED local /\ DatabaseFails(w)
    BY <1>t, <1>k, <2>2 DEF DatabaseFails, KeepsMessages, TypeOK
  <2> QED BY <1>7, <2>1, <2>2 DEF DatabaseFails, Crash
<1>8. CASE RegisterEvent(w)
  <2>1. Cur(w) \in Event /\ Cur(w)' = Cur(w) /\ msg' = msg /\ pc'[w] \in {"load", "finish"}
    BY <1>t, <1>e, <1>8 DEF RegisterEvent, Cur, TypeOK
  <2>2. pc'[w] = "finish" => ~NeedsReply(Cur(w)) \/ verdict'[w] # "processed"
    BY <1>t, <1>8 DEF RegisterEvent, NeedsReply, TypeOK
  <2>3. \A e \in Event : evt'[e] = "processed" => evt[e] = "processed"
    BY <1>t, <1>8, <2>1 DEF RegisterEvent, Register, TypeOK
  <2> QED BY <1>o, <2>1, <2>2, <2>3 DEF MessagesInv, LayersAgree, NeedsReply
<1>9. CASE MarkEvent(w)
  <2>1. Cur(w) \in Event /\ msg' = msg /\ pc'[w] = "next"
    BY <1>t, <1>e, <1>9 DEF MarkEvent, TypeOK
  <2>2. \A e \in Event : evt'[e] = "processed" =>
          evt[e] = "processed" \/ (e = Cur(w) /\ verdict[w] = "processed")
    BY <1>t, <1>9, <2>1 DEF MarkEvent, SetEvent, TypeOK
  <2>3. \A e \in Event : NeedsReply(e) /\ evt'[e] = "processed" => msg[e] = "processed"
    BY <1>9, <2>2 DEF MarkEvent, MessagesInv, LayersAgree
  <2> QED BY <1>o, <2>1, <2>3 DEF MessagesInv, LayersAgree, NeedsReply
<1>10. CASE MarkEventFailed(w)
  <2>1. \A e \in Event : evt'[e] = "processed" => evt[e] = "processed"
    BY <1>t, <1>e, <1>10 DEF MarkEventFailed, SetEvent, TypeOK
  <2> QED BY <1>d, <1>o, <1>10, <2>1 DEF MarkEventFailed, MessagesInv, LayersAgree, NeedsReply
<1>11. CASE SkipDuplicateMessage(w)
  <2>1. Cur(w) \in Event /\ Cur(w)' = Cur(w) /\ UNCHANGED <<evt, msg>> /\ pc'[w] = "finish"
    BY <1>t, <1>e, <1>11 DEF SkipDuplicateMessage, Cur, TypeOK
  <2>2. msg[Cur(w)] = "processed"
    BY <1>11, <2>1 DEF SkipDuplicateMessage, MessagesInv, TerminalProcessingStatuses
  <2> QED BY <1>o, <2>1, <2>2 DEF MessagesInv, LayersAgree, NeedsReply
<1>m. ASSUME NEW status \in MessageStatus, evt' = evt, Cur(w) \in Event, Cur(w)' = Cur(w),
             msg[Cur(w)] \notin TerminalProcessingStatuses,
             msg' = [msg EXCEPT ![Cur(w)] = status], status # "ignored",
             pc'[w] = "finish" => status = "processed",
             pc'[w] \in InFlight => status # "processed"
      PROVE  MessagesInv'
  <2>1. msg'[Cur(w)] = status /\ \A e \in Event : e # Cur(w) => msg'[e] = msg[e]
    BY <1>t, <1>m DEF TypeOK
  <2>2. \A e \in Event : msg[e] = "processed" => msg'[e] = "processed"
    BY <1>m, <2>1 DEF TerminalProcessingStatuses
  <2> QED BY <1>o, <1>m, <2>1, <2>2 DEF MessagesInv, LayersAgree, NeedsReply, TerminalProcessingStatuses
<1>12. CASE RegisterMessage(w)
  <2>1. Cur(w) \in Event /\ Cur(w)' = Cur(w) /\ pc'[w] \in {"refresh", "processing"}
    BY <1>t, <1>e, <1>12 DEF RegisterMessage, Cur, TypeOK
  <2>2. CASE msg[Cur(w)] = "absent"
    BY <1>m, <1>12, <2>1, <2>2 DEF RegisterMessage, RegisterInbound, MessageStatus
  <2>3. CASE msg[Cur(w)] # "absent"
    <3>1. UNCHANGED <<evt, msg>> /\ msg[Cur(w)] \notin TerminalProcessingStatuses
      BY <1>12, <2>3 DEF RegisterMessage, RegisterInbound
    <3> QED BY <1>o, <2>1, <3>1 DEF MessagesInv, LayersAgree, NeedsReply
  <2> QED BY <2>2, <2>3
<1>13. CASE MarkProcessing(w)
  <2>1. Cur(w) \in Event /\ Cur(w)' = Cur(w) /\ pc'[w] = "refresh"
    BY <1>t, <1>e, <1>13 DEF MarkProcessing, Cur, TypeOK
  <2> QED BY <1>m, <1>13, <2>1 DEF MarkProcessing, SetMessage, MessagesInv, MessageStatus
<1>14. CASE MarkMessageProcessed(w)
  <2>1. Cur(w) \in Event /\ Cur(w)' = Cur(w) /\ pc'[w] = "finish"
    BY <1>t, <1>e, <1>14 DEF MarkMessageProcessed, Cur, TypeOK
  <2> QED BY <1>m, <1>14, <2>1 DEF MarkMessageProcessed, SetMessage, MessagesInv, MessageStatus
<1>15. CASE MarkMessageFailed(w)
  <2>1. Cur(w) \in Event /\ Cur(w)' = Cur(w) /\ pc'[w] = "fail"
    BY <1>t, <1>e, <1>15 DEF MarkMessageFailed, Cur, TypeOK
  <2> QED BY <1>m, <1>15, <2>1 DEF MarkMessageFailed, SetMessage, MessagesInv, MessageStatus
<1> QED
  BY <1>1, <1>2, <1>3, <1>4, <1>5, <1>6, <1>7, <1>8, <1>9, <1>10, <1>11, <1>12, <1>13, <1>14, <1>15
  DEF Proceed, Fail

-----------------------------------------------------------------------------
(* RepeatsInv.                                                             *)

\* Nobody opens a closed message (the state half of ClosedMessagesStayClosed).
LEMMA ClosedStay ==
  ASSUME OneRequest, SettlementInv, MessagesInv, NEW w \in Worker,
         Proceed(w) \/ Fail(w) \/ \E p \in Payload : Deliver(w, p),
         NEW e \in Event, msg[e] = "processed"
  PROVE  msg'[e] = "processed" /\ runs'[e] = runs[e] /\ accepted'[e] = accepted[e]
<1> USE DEF tables, world, InFlight, MessageStep, TerminalProcessingStatuses
<1>t. TypeOK /\ Placed(w)
  BY DEF SettlementInv
<1>e. pc[w] \in InFlight => Cur(w) \in Event /\ Cur(w) # e
  BY <1>t, CurIsEvent DEF MessagesInv
<1>1. CASE \E p \in Payload : Deliver(w, p)
  BY <1>1 DEF Deliver
<1>2. CASE NextEvent(w) \/ Acknowledge(w) \/ SkipDuplicateEvent(w) \/ RegisterEvent(w) \/ MarkEvent(w)
           \/ MarkEventFailed(w) \/ LoadSession(w) \/ SkipDuplicateMessage(w) \/ Refresh(w)
           \/ RefuseTransition(w)
  BY <1>2 DEF NextEvent, Acknowledge, SkipDuplicateEvent, RegisterEvent, MarkEvent, MarkEventFailed,
     LoadSession, SkipDuplicateMessage, Refresh, RefuseTransition
<1>3. CASE RegisterMessage(w)
  BY <1>t, <1>3 DEF RegisterMessage, RegisterInbound, TypeOK
<1>4. CASE MarkProcessing(w) \/ MarkMessageProcessed(w) \/ MarkMessageFailed(w)
  BY <1>t, <1>e, <1>4 DEF MarkProcessing, MarkMessageProcessed, MarkMessageFailed, SetMessage, TypeOK
<1>5. CASE RunBot(w)
  BY <1>t, <1>e, <1>5 DEF RunBot, TypeOK
<1>6. CASE CreateOutbound(w) \/ MarkOutboundSent(w) \/ MarkOutboundFailed(w)
  BY <1>6 DEF CreateOutbound, MarkOutboundSent, MarkOutboundFailed
<1>7. CASE SendAccepted(w) \/ SendLost(w) \/ SendFails(w)
  BY <1>t, <1>e, <1>7 DEF SendAccepted, SendLost, SendFails, TypeOK
<1>8. CASE DatabaseFails(w) \/ Crash(w)
  BY <1>8 DEF DatabaseFails, Crash
<1> QED BY <1>1, <1>2, <1>3, <1>4, <1>5, <1>6, <1>7, <1>8 DEF Proceed, Fail

\* What a step does to the counters.
Repeats(w) ==
  \/ /\ faults' = faults + 1 /\ runs' = runs
     /\ \/ accepted' = accepted
        \/ pc[w] = "send" /\ pc'[w] = "send" /\ Cur(w)' = Cur(w)
           /\ accepted' = [accepted EXCEPT ![Cur(w)] = @ + 1]
  \/ /\ pc[w] = "bot" /\ pc'[w] = "outbound" /\ Cur(w)' = Cur(w)
     /\ runs' = [runs EXCEPT ![Cur(w)] = @ + 1] /\ UNCHANGED <<accepted, faults, msg>>
  \/ /\ pc[w] = "send" /\ pc'[w] = "sent" /\ Cur(w)' = Cur(w)
     /\ accepted' = [accepted EXCEPT ![Cur(w)] = @ + 1] /\ UNCHANGED <<runs, faults, msg>>
  \/ /\ pc[w] = "done" /\ msg'[Cur(w)] = "processed" /\ UNCHANGED <<accepted, runs, faults>>
  \/ /\ pc[w] \in Replying => pc'[w] \in Replying /\ Cur(w)' = Cur(w)
     /\ pc[w] \in {"sent", "done"} => pc'[w] \in {"sent", "done"}
     /\ UNCHANGED <<accepted, runs, faults>>

LEMMA RepeatsShape ==
  ASSUME SettlementInv, NEW w \in Worker, Proceed(w) \/ Fail(w) \/ \E p \in Payload : Deliver(w, p)
  PROVE  Repeats(w)
<1> USE DEF tables, world, local, Goto, Finish, Replying
<1>t. TypeOK /\ Placed(w)
  BY DEF SettlementInv
<1>e. pc[w] \notin {"idle", "next"} => Cur(w) \in Event
  BY <1>t, CurIsEvent
<1>1. ASSUME NEW p \in Payload, Deliver(w, p) PROVE Repeats(w)
  BY <1>1 DEF Deliver, Repeats
<1>2. CASE NextEvent(w) \/ Acknowledge(w) \/ SkipDuplicateEvent(w) \/ RegisterEvent(w) \/ MarkEvent(w)
           \/ MarkEventFailed(w)
  BY <1>2 DEF NextEvent, Acknowledge, SkipDuplicateEvent, RegisterEvent, MarkEvent, MarkEventFailed, Repeats
<1>3. CASE LoadSession(w) \/ SkipDuplicateMessage(w) \/ RegisterMessage(w) \/ MarkProcessing(w)
           \/ Refresh(w) \/ RefuseTransition(w) \/ MarkMessageFailed(w) \/ MarkOutboundFailed(w)
  BY <1>3 DEF LoadSession, SkipDuplicateMessage, RegisterMessage, MarkProcessing, Refresh,
     RefuseTransition, MarkMessageFailed, MarkOutboundFailed, Repeats
<1>4. CASE RunBot(w)
  BY <1>t, <1>4 DEF RunBot, Repeats, Cur, TypeOK
<1>5. CASE MarkMessageProcessed(w)
  BY <1>t, <1>e, <1>5 DEF MarkMessageProcessed, SetMessage, Repeats, TypeOK
<1>6. CASE CreateOutbound(w) \/ MarkOutboundSent(w)
  BY <1>t, <1>6 DEF CreateOutbound, MarkOutboundSent, Repeats, Cur, TypeOK
<1>7. CASE SendAccepted(w)
  BY <1>t, <1>7 DEF SendAccepted, Repeats, Cur, TypeOK
<1>8. CASE SendLost(w) \/ SendFails(w) \/ DatabaseFails(w) \/ Crash(w)
  BY <1>t, <1>8 DEF SendLost, SendFails, DatabaseFails, Crash, Repeats, Cur, TypeOK
<1> QED BY <1>1, <1>2, <1>3, <1>4, <1>5, <1>6, <1>7, <1>8 DEF Proceed, Fail

LEMMA RepeatsStep ==
  ASSUME OneRequest, SettlementInv, MessagesInv, RepeatsInv, NEW w \in Worker,
         Proceed(w) \/ Fail(w) \/ \E p \in Payload : Deliver(w, p)
  PROVE  RepeatsInv'
<1>t. TypeOK /\ Placed(w) /\ faults \in Nat
  BY PipelineAssumption DEF SettlementInv, TypeOK
<1>o. \A v \in Worker : v = w
  BY DEF OneRequest
<1> SUFFICES ASSUME NEW e \in Event
             PROVE  /\ runs'[e] <= 1 + faults' /\ (runs'[e] = 1 + faults' => Run(e)')
                    /\ accepted'[e] <= 1 + faults' /\ (accepted'[e] = 1 + faults' => Replied(e)')
  BY DEF RepeatsInv
<1>n. runs[e] \in Nat /\ accepted[e] \in Nat
  BY <1>t DEF TypeOK
<1>b. /\ runs[e] <= 1 + faults /\ (runs[e] = 1 + faults => Run(e))
      /\ accepted[e] <= 1 + faults /\ (accepted[e] = 1 + faults => Replied(e))
  BY DEF RepeatsInv
<1>c. msg[e] = "processed" => msg'[e] = "processed" /\ runs'[e] = runs[e] /\ accepted'[e] = accepted[e]
  BY ClosedStay
<1>d. pc[w] \in {"bot", "send"} => Cur(w) \in Event /\ msg[Cur(w)] # "processed"
  BY <1>t, CurIsEvent DEF MessagesInv, InFlight, MessageStep, TerminalProcessingStatuses
<1>1. CASE faults' = faults + 1 /\ runs' = runs /\ accepted' = accepted
  BY <1>1, <1>b, <1>n, <1>t
<1>2. CASE /\ faults' = faults + 1 /\ runs' = runs /\ pc[w] = "send" /\ pc'[w] = "send" /\ Cur(w)' = Cur(w)
           /\ accepted' = [accepted EXCEPT ![Cur(w)] = @ + 1]
  <2>1. ~Replied(e) \/ e # Cur(w)
    BY <1>2, <1>d, <1>o DEF Replied
  <2>2. accepted'[e] = IF e = Cur(w) THEN accepted[e] + 1 ELSE accepted[e]
    BY <1>2, <1>t DEF TypeOK
  <2> QED BY <1>2, <2>1, <2>2, <1>b, <1>n, <1>t
<1>3. CASE /\ pc[w] = "bot" /\ pc'[w] = "outbound" /\ Cur(w)' = Cur(w)
           /\ runs' = [runs EXCEPT ![Cur(w)] = @ + 1] /\ UNCHANGED <<accepted, faults, msg>>
  <2>1. e = Cur(w) => ~Run(e) /\ Run(e)'
    BY <1>3, <1>d, <1>o DEF Run, Replying
  <2>2. runs'[e] = IF e = Cur(w) THEN runs[e] + 1 ELSE runs[e]
    BY <1>3, <1>t DEF TypeOK
  <2>3. (Replied(e) => Replied(e)') /\ (e # Cur(w) => (Run(e) => Run(e)'))
    BY <1>3, <1>o DEF Replied, Run, Replying
  <2> QED BY <1>3, <2>1, <2>2, <2>3, <1>b, <1>n, <1>t
<1>4. CASE /\ pc[w] = "send" /\ pc'[w] = "sent" /\ Cur(w)' = Cur(w)
           /\ accepted' = [accepted EXCEPT ![Cur(w)] = @ + 1] /\ UNCHANGED <<runs, faults, msg>>
  <2>1. e = Cur(w) => ~Replied(e) /\ Replied(e)'
    BY <1>4, <1>d, <1>o DEF Replied
  <2>2. accepted'[e] = IF e = Cur(w) THEN accepted[e] + 1 ELSE accepted[e]
    BY <1>4, <1>t DEF TypeOK
  <2>3. (Run(e) => Run(e)') /\ (e # Cur(w) => (Replied(e) => Replied(e)'))
    BY <1>4, <1>o DEF Replied, Run, Replying
  <2> QED BY <1>4, <2>1, <2>2, <2>3, <1>b, <1>n, <1>t
<1>5. CASE pc[w] = "done" /\ msg'[Cur(w)] = "processed" /\ UNCHANGED <<accepted, runs, faults>>
  <2>1. (Run(e) => Run(e)') /\ (Replied(e) => Replied(e)')
    BY <1>5, <1>c, <1>o DEF Replied, Run
  <2> QED BY <1>5, <2>1, <1>b
<1>6. CASE /\ pc[w] \in Replying => pc'[w] \in Replying /\ Cur(w)' = Cur(w)
           /\ pc[w] \in {"sent", "done"} => pc'[w] \in {"sent", "done"}
           /\ UNCHANGED <<accepted, runs, faults>>
  <2>1. (Run(e) => Run(e)') /\ (Replied(e) => Replied(e)')
    BY <1>6, <1>c, <1>o DEF Replied, Run, Replying
  <2> QED BY <1>6, <2>1, <1>b
<1> QED BY <1>1, <1>2, <1>3, <1>4, <1>5, <1>6, RepeatsShape DEF Repeats

-----------------------------------------------------------------------------
LEMMA SerialInit == Init => SerialInv
<1> SUFFICES ASSUME Init PROVE SerialInv
  OBVIOUS
<1>1. SessionInv
  BY DEF Init, SessionInv, SessionCoherent, NewSession, Replying
<1>2. MessagesInv
  BY DEF Init, MessagesInv, LayersAgree, InFlight, MessageStep
<1>3. RepeatsInv
  BY DEF Init, RepeatsInv
<1> QED BY <1>1, <1>2, <1>3 DEF SerialInv

LEMMA SerialStutter == SerialInv /\ UNCHANGED vars => SerialInv'
BY DEF vars, tables, world, local, SerialInv, SessionInv, SessionCoherent, MessagesInv, LayersAgree,
       RepeatsInv, Run, Replied, Conv, Cur, NeedsReply

LEMMA SerialNext == OneRequest /\ SettlementInv /\ SerialInv /\ [Next]_vars => SerialInv'
<1> SUFFICES ASSUME OneRequest, SettlementInv, SerialInv, [Next]_vars PROVE SerialInv'
  OBVIOUS
<1>1. CASE UNCHANGED vars \/ Quiescent
  BY <1>1, SerialStutter DEF Quiescent
<1>2. ASSUME NEW w \in Worker, Proceed(w) \/ Fail(w) \/ \E p \in Payload : Deliver(w, p)
      PROVE  SerialInv'
  BY <1>2, SessionStep, MessagesStep, RepeatsStep DEF SerialInv
<1> QED BY <1>1, <1>2 DEF Next

\* Without overlap the session a request holds is the stored one, messages in
\* flight are open, and every repeat has a failure that paid for it.
THEOREM SerialInvariant == ASSUME OneRequest PROVE Spec => []SerialInv
<1>1. SettlementInv /\ SerialInv /\ [Next]_vars => SerialInv'
  BY SerialNext
<1> QED BY <1>1, SerialInit, SettlementInvariant, PTL DEF Spec

\* The bot runs, and the provider takes a reply, once per message and once
\* more per failure.
THEOREM RepeatsCostFailures == ASSUME OneRequest PROVE Spec => []RepeatsPaidFor
<1>1. SerialInv => RepeatsPaidFor
  BY DEF SerialInv, RepeatsInv, RepeatsPaidFor
<1> QED BY <1>1, SerialInvariant, PTL

\* An event is closed as PROCESSED only after its message.
THEOREM IdempotencyLayersAgree == ASSUME OneRequest PROVE Spec => []LayersAgree
<1>1. SerialInv => LayersAgree
  BY DEF SerialInv, MessagesInv
<1> QED BY <1>1, SerialInvariant, PTL

\* A name is stored exactly while its confirmation is awaited.
THEOREM SessionStaysCoherent == ASSUME OneRequest PROVE Spec => []SessionCoherent
<1>1. SerialInv => SessionCoherent
  BY DEF SerialInv, SessionInv
<1> QED BY <1>1, SerialInvariant, PTL

\* The user is told of no state that is not stored.
THEOREM AnnouncedIsStored == ASSUME OneRequest PROVE Spec => []AnnouncedStateIsDurable
<1>1. SerialInv => AnnouncedStateIsDurable
  BY DEF SerialInv, SessionInv, AnnouncedStateIsDurable, Replying
<1> QED BY <1>1, SerialInvariant, PTL

\* The stored states make steps of the state machine only.
THEOREM StateMachineRespected == ASSUME OneRequest PROVE Spec => StoredTransitionsAllowed
<1>1. SettlementInv /\ SerialInv /\ [Next]_vars =>
        [\A c \in Conversation : session'[c].state # session[c].state =>
           session'[c].state \in AllowedTransitions[session[c].state]]_vars
  <2> SUFFICES ASSUME SettlementInv, SerialInv, Next, NEW c \in Conversation,
                      session'[c].state # session[c].state
               PROVE  session'[c].state \in AllowedTransitions[session[c].state]
    OBVIOUS
  <2>1. PICK w \in Worker : Proceed(w) \/ Fail(w) \/ \E p \in Payload : Deliver(w, p)
    BY DEF Next, Quiescent, vars, tables
  <2>2. RunBot(w)
    BY <2>1, SessionShape DEF KeepsSession, Loads
  <2> DEFINE new == Process(text[Cur(w)], session[Conv(w)]).session
  <2>3. /\ session' = [session EXCEPT ![Conv(w)] = new] /\ Conv(w) \in Conversation
        /\ new.state \in {session[Conv(w)].state} \cup AllowedTransitions[session[Conv(w)].state]
    BY <2>2, BotStores DEF SerialInv
  <2> HIDE DEF new
  <2> QED BY <2>3 DEF SettlementInv, TypeOK
<1> QED BY <1>1, SerialInvariant, SettlementInvariant, PTL DEF Spec, StoredTransitionsAllowed

\* A message that is PROCESSED is left alone.
THEOREM ClosedAreLeftAlone == ASSUME OneRequest PROVE Spec => ClosedMessagesStayClosed
<1>1. SettlementInv /\ SerialInv /\ [Next]_vars =>
        [\A e \in Event : msg[e] = "processed" =>
           msg'[e] = "processed" /\ runs'[e] = runs[e] /\ accepted'[e] = accepted[e]]_vars
  <2> SUFFICES ASSUME SettlementInv, SerialInv, Next, NEW e \in Event, msg[e] = "processed"
               PROVE  msg'[e] = "processed" /\ runs'[e] = runs[e] /\ accepted'[e] = accepted[e]
    OBVIOUS
  <2>1. CASE Quiescent
    BY <2>1 DEF Quiescent, vars, tables, world
  <2>2. CASE \E w \in Worker : Proceed(w) \/ Fail(w) \/ \E p \in Payload : Deliver(w, p)
    BY <2>2, ClosedStay DEF SerialInv
  <2> QED BY <2>1, <2>2 DEF Next
<1> QED BY <1>1, SerialInvariant, SettlementInvariant, PTL DEF Spec, ClosedMessagesStayClosed
=============================================================================
