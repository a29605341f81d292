------------------------- MODULE WebhookPipelineProofs -------------------------
(***************************************************************************)
(* NoSilentLoss, for any number of requests, payloads, events, failures    *)
(* and duplicates.  The inductive invariant is SettlementInv; every action *)
(* of a request w disturbs only w's own variables and, in the tables, only *)
(* moves events towards being settled (Monotone).  The second half is      *)
(* about the outbound rows: who owns which row at which step (RowsInv).    *)
(***************************************************************************)
EXTENDS WebhookPipeline, SequenceTheorems, FiniteSetTheorems, TLAPS

\* Nothing that was answered or refused is taken back.
Monotone ==
  \A e \in Event : accepted'[e] >= accepted[e] /\ (e \in rejected => e \in rejected')

\* A step of w leaves the other requests where they were.
OthersStay(w) ==
  \A v \in Worker \ {w} :
    pc'[v] = pc[v] /\ job'[v] = job[v] /\ pos'[v] = pos[v] /\ verdict'[v] = verdict[v]

-----------------------------------------------------------------------------
(* Types of the bot and of the helpers.                                    *)

\* Whatever the text and the session, the bot returns a known reply and a
\* well-formed session (engine.py process, commands.py).
LEMMA ProcessType ==
  ASSUME NEW t \in TextKind, NEW s \in Session
  PROVE  Process(t, s).session \in Session /\ Process(t, s).reply \in Reply
<1> DEFINE Result(r) == /\ r.reply \in Reply
                        /\ r.next \in ConversationState \cup {"keep"}
                        /\ r.data \in StateData \cup {"keep"}
<1>1. ASSUME NEW c \in CommandName PROVE Result(CommandHandler[c])
  BY DEF CommandHandler, CommandName, MovesTo, Replies, Reply, Announces, SilentReply,
         ConversationState, StateData
<1>2. Result(DemoFlow(t)) /\ Result(DemoConfirmation(t))
  BY DEF DemoFlow, DemoConfirmation, DemoCancelled, MovesTo, Replies, Reply, Announces,
         SilentReply, ConversationState, StateData
<1>3. \A st \in ConversationState : Result(Route(t, st))
  <2>1. Result(Replies("UNKNOWN_COMMAND")) /\ Result(Replies("DEFAULT"))
    BY DEF Replies, Reply, SilentReply
  <2> QED BY <1>1, <1>2, <2>1 DEF Route
<1>4. s.state \in ConversationState /\ s.data \in StateData
  BY DEF Session
<1>5. CASE t \in {"absent", "slash"}
  BY <1>5 DEF Process, Reply, SilentReply
<1>6. CASE t \notin {"absent", "slash"}
  <2> DEFINE r == Route(t, s.state)
  <2>1. Result(r)
    BY <1>3, <1>4
  <2>2. Process(t, s) = Transition(s, r)
    BY <1>6 DEF Process
  <2>3. Or(r.next, s.state) \in ConversationState /\ Or(r.data, s.data) \in StateData
    BY <2>1, <1>4 DEF Or
  <2> HIDE DEF r
  <2> QED BY <2>1, <2>2, <2>3 DEF Transition, Session
<1> QED BY <1>5, <1>6

\* A column-wise write keeps the session row well-formed.
LEMMA PersistType ==
  ASSUME NEW a \in Session, NEW b \in Session, NEW c \in Session
  PROVE  Persist(a, b, c) \in Session
BY DEF Persist, Session

LEMMA NewSessionType == NewSession \in Session
BY DEF NewSession, Session, ConversationState, StateData

\* Updating a column of one outbound row keeps the table well-formed.
LEMMA RowType ==
  ASSUME NEW s \in Seq(RowStatus), NEW i \in Nat, NEW status \in RowStatus
  PROVE  [s EXCEPT ![i] = status] \in Seq(RowStatus)
<1>1. CASE i \in 1..Len(s)
  BY <1>1, ExceptSeq
<1>2. CASE i \notin 1..Len(s)
  <2>1. DOMAIN s = 1..Len(s) /\ s = [j \in 1..Len(s) |-> s[j]]
    BY LenProperties
  <2> QED BY <1>2, <2>1
<1> QED BY <1>1, <1>2

\* In every step but idle and next, a request is at an event.
LEMMA CurIsEvent ==
  ASSUME TypeOK, NEW w \in Worker, Placed(w), pc[w] \notin {"idle", "next"}
  PROVE  Cur(w) \in Event /\ Conv(w) \in Conversation
<1>1. EventsOf[job[w]] \in Seq(Event) /\ pos[w] \in 1..Len(EventsOf[job[w]])
  BY PipelineAssumption DEF Placed, TypeOK
<1>2. Cur(w) \in Event
  BY <1>1, ElementOfSeq DEF Cur
<1> QED BY <1>2, PipelineAssumption DEF Conv

\* What a request holds of the sessions.
LEMMA SessionsType ==
  ASSUME TypeOK, NEW w \in Worker, Conv(w) \in Conversation
  PROVE  SessionsFound(w) \subseteq Session
BY DEF SessionsFound, TypeOK

LEMMA HoldType ==
  ASSUME TypeOK, NEW w \in Worker, Conv(w) \in Conversation, NEW s \in Session, Hold(w, s)
  PROVE  held' \in [Worker -> SUBSET Conversation] /\ snap' \in [Worker -> [Conversation -> Session]]
<1>1. held' \in [Worker -> SUBSET Conversation]
  BY DEF Hold, TypeOK
<1>2. [snap[w] EXCEPT ![Conv(w)] = s] \in [Conversation -> Session]
  BY DEF TypeOK
<1> QED BY <1>1, <1>2 DEF Hold, TypeOK

LEMMA ExpireType ==
  ASSUME TypeOK, NEW w \in Worker, Expire(w)
  PROVE  held' \in [Worker -> SUBSET Conversation] /\ snap' \in [Worker -> [Conversation -> Session]]
BY NewSessionType DEF Expire, NoSnap, TypeOK

-----------------------------------------------------------------------------
(* What need not be looked at again for each action.                       *)

LEMMA SettledStays ==
  ASSUME TypeOK, TypeOK', Monotone, NEW e \in Event, Settled(e)
  PROVE  Settled(e)'
BY DEF Settled, NeedsReply, Monotone, TypeOK

\* The events of a payload are events.
LEMMA EventOfPayload ==
  ASSUME NEW p \in Payload, NEW i \in 1..Len(EventsOf[p])
  PROVE  EventsOf[p][i] \in Event
BY PipelineAssumption, ElementOfSeq

\* A request that stays where it is keeps what it knows.
LEMMA RequestStays ==
  ASSUME TypeOK, TypeOK', Monotone, NEW v \in Worker, Placed(v), KnowsSettled(v),
         pc'[v] = pc[v], job'[v] = job[v], pos'[v] = pos[v], verdict'[v] = verdict[v]
  PROVE  Placed(v)' /\ KnowsSettled(v)'
<1>1. Placed(v)'
  BY DEF Placed, NeedsReply, Cur
<1>2. Cur(v)' = Cur(v)
  BY DEF Cur
<1>3. CASE pc[v] = "idle"
  BY <1>1, <1>3 DEF KnowsSettled
<1>4. CASE pc[v] # "idle"
  <2>1. ASSUME NEW i \in 1..pos[v], i < pos[v] \/ pc[v] = "next"
        PROVE  Settled(EventsOf[job[v]][i])'
    <3>1. job[v] \in Payload /\ i \in 1..Len(EventsOf[job[v]])
      BY <1>4 DEF Placed, TypeOK
    <3>2. Settled(EventsOf[job[v]][i])
      BY <1>4, <2>1 DEF KnowsSettled
    <3> QED BY <3>1, <3>2, EventOfPayload, SettledStays
  <2>2. ASSUME pc[v] \in {"sent", "done"} PROVE accepted'[Cur(v)] > 0
    <3>1. PICK e \in Event : e = Cur(v)
      BY <2>2, CurIsEvent
    <3>2. accepted[e] > 0
      BY <1>4, <2>2, <3>1 DEF KnowsSettled
    <3>3. accepted'[e] >= accepted[e] /\ accepted[e] \in Nat /\ accepted'[e] \in Nat
      BY DEF Monotone, TypeOK
    <3> QED BY <3>1, <3>2, <3>3
  <2>3. ASSUME pc[v] = "finish" PROVE Settled(Cur(v))'
    <3>1. PICK e \in Event : e = Cur(v)
      BY <1>4, <2>3, CurIsEvent
    <3>2. Settled(e)
      BY <1>4, <2>3, <3>1 DEF KnowsSettled
    <3> QED BY <1>2, <3>1, <3>2, SettledStays DEF Settled, NeedsReply
  <2> QED BY <1>1, <1>2, <1>4, <2>1, <2>2, <2>3 DEF KnowsSettled, Settled, NeedsReply
<1> QED BY <1>3, <1>4, <1>1

\* A step of one request preserves the invariant if it keeps the types, is
\* monotone, leaves the other requests alone and keeps w's own two parts,
\* the closed rows and the promise made with each 200.
LEMMA Assemble ==
  ASSUME SettlementInv, NEW w \in Worker, TypeOK', Monotone, OthersStay(w),
         Placed(w)', KnowsSettled(w)', OnlyMessagesSettled', ClosedMeansSettled',
         \A p \in acked' \ acked : \A i \in DOMAIN EventsOf[p] : Settled(EventsOf[p][i])'
  PROVE  SettlementInv'
<1>1. \A v \in Worker : Placed(v)' /\ KnowsSettled(v)'
  BY RequestStays DEF OthersStay, SettlementInv
<1>2. ASSUME NEW p \in acked', NEW i \in DOMAIN EventsOf[p]
      PROVE  Settled(EventsOf[p][i])'
  <2>1. CASE p \in acked
    <3>1. p \in Payload /\ i \in 1..Len(EventsOf[p])
      <4>1. p \in Payload
        BY <2>1 DEF SettlementInv, TypeOK
      <4>2. EventsOf[p] \in Seq(Event)
        BY <4>1, PipelineAssumption
      <4> QED BY <1>2, <4>1, <4>2, LenProperties
    <3>2. Settled(EventsOf[p][i])
      BY <2>1, <1>2 DEF SettlementInv, NoSilentLoss
    <3> QED BY <3>1, <3>2, EventOfPayload, SettledStays DEF SettlementInv
  <2>2. CASE p \notin acked
    BY <2>2, <1>2
  <2> QED BY <2>1, <2>2
<1>3. NoSilentLoss'
  BY <1>2 DEF NoSilentLoss, Settled, NeedsReply
<1> QED BY <1>1, <1>3 DEF SettlementInv

-----------------------------------------------------------------------------
(* Type correctness of each step.                                          *)

LEMMA TypeStep ==
  ASSUME SettlementInv, NEW w \in Worker, Proceed(w) \/ Fail(w) \/ \E p \in Payload : Deliver(w, p)
  PROVE  TypeOK'
<1> USE DEF tables, world, local, Goto, Finish
<1>t. TypeOK /\ Placed(w) /\ KnowsSettled(w)
  BY DEF SettlementInv
<1>e. pc[w] \notin {"idle", "next"} => Cur(w) \in Event /\ Conv(w) \in Conversation
  BY <1>t, CurIsEvent
<1>s. EndRequest(w) => /\ pc' \in [Worker -> Step] /\ job' \in [Worker -> Payload \cup {NoPayload}]
                       /\ pos' \in [Worker -> Nat] /\ held' \in [Worker -> SUBSET Conversation]
                       /\ snap' \in [Worker -> [Conversation -> Session]]
                       /\ reply' \in [Worker -> Reply] /\ row' \in [Worker -> Nat]
                       /\ verdict' \in [Worker -> WebhookStatus \cup {"provider", "other"}]
  BY <1>t, ExpireType DEF EndRequest, TypeOK, Step, Reply, SilentReply, WebhookStatus
<1>1. ASSUME NEW p \in Payload, Deliver(w, p) PROVE TypeOK'
  BY <1>t, <1>1, PipelineAssumption DEF Deliver, TypeOK, Step
<1>2. CASE NextEvent(w)
  BY <1>t, <1>2 DEF NextEvent, TypeOK, Step, Reply, SilentReply, WebhookStatus
<1>3. CASE Acknowledge(w)
  <2>1. job[w] \in Payload
    BY <1>t, <1>3 DEF Acknowledge, Placed
  <2> QED BY <1>t, <1>3, <1>s, <2>1 DEF Acknowledge, TypeOK
<1>4. CASE SkipDuplicateEvent(w)
  BY <1>t, <1>4 DEF SkipDuplicateEvent, TypeOK, Step
<1>5. CASE RegisterEvent(w)
  BY <1>t, <1>e, <1>5 DEF RegisterEvent, Register, TypeOK, Step, WebhookStatus
<1>6. CASE MarkEvent(w)
  BY <1>t, <1>e, <1>6 DEF MarkEvent, SetEvent, KnowsSettled, TypeOK, Step
<1>7. CASE MarkEventFailed(w)
  BY <1>t, <1>e, <1>s, <1>7 DEF MarkEventFailed, SetEvent, TypeOK, WebhookStatus
<1>8. CASE SkipDuplicateMessage(w)
  BY <1>t, <1>8 DEF SkipDuplicateMessage, TypeOK, Step, WebhookStatus
<1>24. CASE LoadSession(w)
  <2>1. held' \in [Worker -> SUBSET Conversation] /\ snap' \in [Worker -> [Conversation -> Session]]
    BY <1>t, <1>e, <1>24, SessionsType, HoldType DEF LoadSession
  <2> QED BY <1>t, <1>24, <2>1 DEF LoadSession, TypeOK, Step
<1>9. CASE RegisterMessage(w)
  BY <1>t, <1>e, <1>9 DEF RegisterMessage, RegisterInbound, TypeOK, Step, MessageStatus
<1>10. CASE MarkProcessing(w)
  BY <1>t, <1>e, <1>10 DEF MarkProcessing, SetMessage, TypeOK, Step, MessageStatus
<1>11. CASE Refresh(w)
  <2>1. held' \in [Worker -> SUBSET Conversation] /\ snap' \in [Worker -> [Conversation -> Session]]
    BY <1>t, <1>e, <1>11, SessionsType, HoldType DEF Refresh
  <2> QED BY <1>t, <1>11, <2>1 DEF Refresh, TypeOK, Step
<1>12. CASE RunBot(w)
  <2>1. Cur(w) \in Event /\ Conv(w) \in Conversation
    BY <1>e, <1>12 DEF RunBot
  <2>2. PICK out : out = Process(text[Cur(w)], snap[w][Conv(w)])
    OBVIOUS
  <2>3. out.session \in Session /\ out.reply \in Reply
    BY <1>t, <2>1, <2>2, ProcessType DEF TypeOK
  <2>4. session' \in [Conversation -> Session]
    BY <1>t, <1>12, <2>1, <2>2, <2>3, PersistType DEF RunBot, TypeOK
  <2>5. Hold(w, out.session) /\ reply' = [reply EXCEPT ![w] = out.reply]
    BY <1>12, <2>2 DEF RunBot
  <2>6. held' \in [Worker -> SUBSET Conversation] /\ snap' \in [Worker -> [Conversation -> Session]]
    BY <1>t, <2>1, <2>3, <2>5, HoldType
  <2>7. /\ runs' \in [Event -> Nat] /\ reply' \in [Worker -> Reply] /\ pc' \in [Worker -> Step]
        /\ UNCHANGED <<evt, msg, rows, accepted, rejected, text, acked, job, pos, row, verdict,
                       dups, faults>>
    BY <1>t, <1>12, <2>1, <2>3, <2>5 DEF RunBot, TypeOK, Step
  <2> QED BY <1>t, <2>4, <2>6, <2>7 DEF TypeOK
<1>13. CASE RefuseTransition(w)
  BY <1>t, <1>e, <1>13, ExpireType DEF RefuseTransition, TypeOK, Step, WebhookStatus
<1>14. CASE MarkMessageProcessed(w)
  BY <1>t, <1>e, <1>14 DEF MarkMessageProcessed, SetMessage, TypeOK, Step, MessageStatus, WebhookStatus
<1>15. CASE MarkMessageFailed(w)
  BY <1>t, <1>e, <1>15 DEF MarkMessageFailed, SetMessage, TypeOK, Step, MessageStatus
<1>16. CASE CreateOutbound(w)
  <2>1. Cur(w) \in Event
    BY <1>e, <1>16 DEF CreateOutbound
  <2>2. rows[Cur(w)] \in Seq(RowStatus)
    BY <1>t, <2>1 DEF TypeOK
  <2>3. Append(rows[Cur(w)], NewRowStatus) \in Seq(RowStatus) /\ Len(rows[Cur(w)]) + 1 \in Nat
    BY <2>2, AppendProperties, LenProperties DEF NewRowStatus, RowStatus
  <2>4. rows' \in [Event -> Seq(RowStatus)] /\ row' \in [Worker -> Nat]
    BY <1>t, <1>16, <2>1, <2>3 DEF CreateOutbound, TypeOK
  <2> QED BY <1>t, <1>16, <2>4 DEF CreateOutbound, TypeOK, Step
<1>17. CASE SendAccepted(w)
  BY <1>t, <1>e, <1>17 DEF SendAccepted, TypeOK, Step
<1>r. ASSUME NEW status \in RowStatus, SetRow(w, status), pc[w] \notin {"idle", "next"}
      PROVE  rows' \in [Event -> Seq(RowStatus)]
  <2>1. Cur(w) \in Event /\ rows[Cur(w)] \in Seq(RowStatus) /\ row[w] \in Nat
    BY <1>t, <1>e, <1>r DEF TypeOK
  <2>2. [rows[Cur(w)] EXCEPT ![row[w]] = status] \in Seq(RowStatus)
    BY <2>1, RowType
  <2> QED BY <1>t, <1>r, <2>1, <2>2 DEF SetRow, TypeOK
<1>18. CASE MarkOutboundSent(w)
  <2>1. rows' \in [Event -> Seq(RowStatus)]
    BY <1>r, <1>18 DEF MarkOutboundSent, RowStatus
  <2> QED BY <1>t, <1>18, <2>1 DEF MarkOutboundSent, TypeOK, Step
<1>19. CASE MarkOutboundFailed(w)
  <2>1. rows' \in [Event -> Seq(RowStatus)]
    BY <1>r, <1>19 DEF MarkOutboundFailed, RowStatus
  <2> QED BY <1>t, <1>19, <2>1 DEF MarkOutboundFailed, TypeOK, Step
<1>20. CASE SendLost(w)
  BY <1>t, <1>e, <1>20, PipelineAssumption DEF SendLost, TypeOK
<1>21. CASE SendFails(w)
  BY <1>t, <1>21, PipelineAssumption DEF SendFails, TypeOK, Step
<1>22. CASE DatabaseFails(w)
  <2>1. CASE EndRequest(w)
    BY <1>t, <1>s, <1>22, <2>1, PipelineAssumption DEF DatabaseFails, TypeOK
  <2>2. CASE Goto(w, "fail") /\ UNCHANGED local
    <3>1. Goto(w, "fail") /\ UNCHANGED <<tables, world, local, dups>> /\ faults' \in 0..MaxFaults
      BY <1>t, <1>22, <2>2, PipelineAssumption DEF DatabaseFails, TypeOK
    <3> QED BY <1>t, <3>1 DEF TypeOK, Step
  <2> QED BY <1>22, <2>1, <2>2 DEF DatabaseFails
<1>23. CASE Crash(w)
  BY <1>t, <1>s, <1>23, PipelineAssumption DEF Crash, TypeOK
<1> QED
  BY <1>1, <1>2, <1>3, <1>4, <1>5, <1>6, <1>7, <1>8, <1>9, <1>10, <1>11, <1>12, <1>13,
     <1>14, <1>15, <1>16, <1>17, <1>18, <1>19, <1>20, <1>21, <1>22, <1>23, <1>24
  DEF Proceed, Fail

-----------------------------------------------------------------------------
(* The two shapes of a step: w ends its request, or goes on with the event *)
(* it is at.  Only NextEvent and Deliver are neither.                      *)

\* Settled in the next state, for an event named in this one.
SettledNext(e) == NeedsReply(e) => accepted'[e] > 0 \/ e \in rejected'

\* What a step may do to the event and message tables.
TablesStaySettled ==
  \A e \in Event :
    /\ evt'[e] = evt[e] \/ evt'[e] \notin TerminalStatuses \/ SettledNext(e)
    /\ msg'[e] = msg[e] \/ msg'[e] \notin TerminalProcessingStatuses \/ accepted'[e] > 0

LEMMA ClosedKept ==
  ASSUME TypeOK, TypeOK', Monotone, ClosedMeansSettled, TablesStaySettled
  PROVE  ClosedMeansSettled'
<1> SUFFICES ASSUME NEW e \in Event
             PROVE  /\ evt'[e] \in TerminalStatuses => Settled(e)'
                    /\ msg'[e] \in TerminalProcessingStatuses => accepted'[e] > 0
  BY DEF ClosedMeansSettled, Settled, NeedsReply, TerminalStatuses, TerminalProcessingStatuses
<1>1. SettledNext(e) => Settled(e)'
  BY DEF SettledNext, Settled, NeedsReply
<1>2. Settled(e) => Settled(e)'
  BY SettledStays
<1>3. accepted[e] > 0 => accepted'[e] > 0
  BY DEF Monotone, TypeOK
<1> QED BY <1>1, <1>2, <1>3 DEF ClosedMeansSettled, TablesStaySettled

\* A request that ends forgets everything; the tables may change under it.
LEMMA RequestEnds ==
  ASSUME SettlementInv, NEW w \in Worker, TypeOK', EndRequest(w), TablesStaySettled,
         UNCHANGED <<accepted, rejected>>,
         \A p \in acked' \ acked : \A i \in DOMAIN EventsOf[p] : Settled(EventsOf[p][i])'
  PROVE  SettlementInv'
<1>t. TypeOK
  BY DEF SettlementInv
<1>1. Monotone
  BY <1>t DEF Monotone, TypeOK
<1>2. OthersStay(w)
  BY <1>t DEF OthersStay, EndRequest, Goto, TypeOK
<1>3. Placed(w)' /\ KnowsSettled(w)'
  BY <1>t DEF Placed, KnowsSettled, EndRequest, Goto, TypeOK
<1>4. OnlyMessagesSettled'
  BY DEF OnlyMessagesSettled, NeedsReply, SettlementInv
<1>5. ClosedMeansSettled'
  BY <1>1, ClosedKept DEF SettlementInv
<1> QED BY <1>1, <1>2, <1>3, <1>4, <1>5, Assemble

\* A request that goes on with the event it is at.
LEMMA EventStep ==
  ASSUME SettlementInv, NEW w \in Worker, TypeOK', OthersStay(w), Monotone, TablesStaySettled,
         pc[w] \notin {"idle", "next"}, job'[w] = job[w], pos'[w] = pos[w], acked' = acked,
         pc'[w] # "idle",
         pc'[w] \in MessageStep => NeedsReply(Cur(w)),
         pc'[w] \in {"sent", "done"} => accepted'[Cur(w)] > 0,
         pc'[w] \in {"finish", "next"} => SettledNext(Cur(w)),
         pc'[w] = "finish" => verdict'[w] \in WebhookStatus,
         \A e \in Event : accepted'[e] # accepted[e] \/ e \in rejected' \ rejected => NeedsReply(e)
  PROVE  SettlementInv'
<1>t. TypeOK /\ Placed(w) /\ KnowsSettled(w)
  BY DEF SettlementInv
<1>c. Cur(w)' = Cur(w)
  BY DEF Cur
<1>1. Placed(w)'
  BY <1>t, <1>c DEF Placed, NeedsReply
<1>2. ASSUME NEW i \in 1..pos[w], i < pos[w] \/ pc'[w] = "next"
      PROVE  Settled(EventsOf[job[w]][i])'
  <2>1. job[w] \in Payload /\ i \in 1..Len(EventsOf[job[w]])
    BY <1>t DEF Placed, TypeOK
  <2>2. CASE i < pos[w]
    <3>1. Settled(EventsOf[job[w]][i])
      BY <1>t, <2>2 DEF KnowsSettled
    <3> QED BY <1>t, <2>1, <3>1, EventOfPayload, SettledStays
  <2>3. CASE i = pos[w] /\ pc'[w] = "next"
    BY <2>3 DEF SettledNext, Settled, NeedsReply, Cur
  <2> QED BY <1>2, <2>2, <2>3, <1>t DEF TypeOK
<1>3. KnowsSettled(w)'
  BY <1>c, <1>2 DEF KnowsSettled, SettledNext, Settled, NeedsReply
<1>4. OnlyMessagesSettled'
  BY <1>t DEF OnlyMessagesSettled, SettlementInv, NeedsReply, TypeOK
<1>5. ClosedMeansSettled'
  BY <1>t, ClosedKept DEF SettlementInv
<1> QED BY <1>1, <1>3, <1>4, <1>5, Assemble

-----------------------------------------------------------------------------
(* Each action.                                                            *)

LEMMA StepPreserves ==
  ASSUME SettlementInv, NEW w \in Worker, Proceed(w) \/ Fail(w) \/ \E p \in Payload : Deliver(w, p)
  PROVE  SettlementInv'
<1> USE DEF tables, world, local, Goto, Finish
<1>t. TypeOK /\ TypeOK' /\ Placed(w) /\ KnowsSettled(w) /\ OnlyMessagesSettled
  BY TypeStep DEF SettlementInv
<1>e. pc[w] \notin {"idle", "next"} => Cur(w) \in Event
  BY <1>t, CurIsEvent
<1>m. UNCHANGED <<accepted, rejected>> => Monotone
  BY <1>t DEF Monotone, TypeOK
<1>s. UNCHANGED <<evt, msg>> => TablesStaySettled
  BY DEF TablesStaySettled
<1>o. \A st \in Step : pc' = [pc EXCEPT ![w] = st] /\ UNCHANGED <<job, pos, verdict>> => OthersStay(w)
  BY <1>t DEF OthersStay, TypeOK
<1>p. \A st \in Step : pc' = [pc EXCEPT ![w] = st] => pc'[w] = st
  BY <1>t DEF TypeOK
<1>1. ASSUME NEW p \in Payload, Deliver(w, p) PROVE SettlementInv'
  <2>1. OthersStay(w)
    BY <1>t, <1>1 DEF Deliver, OthersStay, TypeOK
  <2>2. pc'[w] = "next" /\ job'[w] = p /\ pos'[w] = 0
    BY <1>t, <1>1 DEF Deliver, Placed, TypeOK
  <2>3. EventsOf[p] \in Seq(Event) /\ Len(EventsOf[p]) \in Nat
    BY PipelineAssumption, LenProperties
  <2>4. Placed(w)' /\ KnowsSettled(w)'
    BY <2>2, <2>3 DEF Placed, KnowsSettled, MessageStep
  <2>5. OnlyMessagesSettled' /\ UNCHANGED <<evt, msg, accepted, rejected, acked>>
    BY <1>t, <1>1 DEF Deliver, OnlyMessagesSettled, NeedsReply
  <2> QED BY <1>t, <1>m, <1>s, <2>1, <2>4, <2>5, Assemble, ClosedKept DEF SettlementInv
<1>2. CASE NextEvent(w)
  <2>1. OthersStay(w)
    BY <1>t, <1>2 DEF NextEvent, OthersStay, TypeOK
  <2>2. pc'[w] = "register" /\ job'[w] = job[w] /\ pos'[w] = pos[w] + 1
    BY <1>t, <1>2 DEF NextEvent, TypeOK
  <2>3. UNCHANGED <<evt, msg, accepted, rejected, acked>>
    BY <1>2 DEF NextEvent
  <2>4. Placed(w)'
    BY <1>t, <1>2, <2>2, LenProperties, PipelineAssumption DEF NextEvent, Placed, MessageStep, TypeOK
  <2>5. KnowsSettled(w)'
    BY <1>t, <1>2, <2>2, <2>3 DEF NextEvent, KnowsSettled, Settled, NeedsReply, TypeOK
  <2>6. OnlyMessagesSettled'
    BY <1>t, <2>3 DEF OnlyMessagesSettled, NeedsReply
  <2> QED BY <1>t, <1>m, <1>s, <2>1, <2>3, <2>4, <2>5, <2>6, Assemble, ClosedKept DEF SettlementInv
<1>3. CASE Acknowledge(w)
  <2>1. job[w] \in Payload /\ pc[w] = "next" /\ pos[w] = Len(EventsOf[job[w]])
    BY <1>t, <1>3 DEF Acknowledge, Placed
  <2>2. UNCHANGED <<evt, msg, accepted, rejected>> /\ EndRequest(w) /\ acked' = acked \cup {job[w]}
    BY <1>3 DEF Acknowledge
  <2>3. ASSUME NEW p \in acked' \ acked, NEW i \in DOMAIN EventsOf[p]
        PROVE  Settled(EventsOf[p][i])'
    <3>1. p = job[w] /\ i \in 1..pos[w] /\ i \in 1..Len(EventsOf[p])
      BY <2>1, <2>2, <2>3, PipelineAssumption, LenProperties
    <3>2. Settled(EventsOf[p][i])
      BY <1>t, <2>1, <3>1 DEF KnowsSettled
    <3> QED BY <2>2, <3>2 DEF Settled, NeedsReply
  <2> QED BY <1>t, <1>s, <2>2, <2>3, RequestEnds
<1>4. CASE SkipDuplicateEvent(w)
  <2>1. Settled(Cur(w))
    BY <1>e, <1>4 DEF SkipDuplicateEvent, SettlementInv, ClosedMeansSettled
  <2>2. SettledNext(Cur(w))
    BY <1>4, <2>1 DEF SkipDuplicateEvent, Settled, SettledNext
  <2> QED
    BY <1>t, <1>m, <1>s, <1>o, <1>p, <1>4, <2>2, EventStep
    DEF SkipDuplicateEvent, MessageStep, Step
<1>5. CASE RegisterEvent(w)
  <2>1. pc[w] = "register" /\ Cur(w) \in Event /\ UNCHANGED <<msg, accepted, rejected, acked, job, pos>>
    BY <1>e, <1>5 DEF RegisterEvent
  <2>2. TablesStaySettled
    BY <1>t, <1>5, <2>1
    DEF RegisterEvent, Register, TablesStaySettled, SettledNext, NeedsReply, TerminalStatuses, TypeOK
  <2>3. OthersStay(w)
    BY <1>t, <1>5 DEF RegisterEvent, OthersStay, TypeOK
  <2>4. \/ pc'[w] = "load" /\ NeedsReply(Cur(w))
        \/ pc'[w] = "finish" /\ ~NeedsReply(Cur(w)) /\ verdict'[w] \in WebhookStatus
    BY <1>t, <1>5 DEF RegisterEvent, NeedsReply, WebhookStatus, TypeOK
  <2> QED
    BY <1>t, <1>m, <2>1, <2>2, <2>3, <2>4, EventStep DEF SettledNext, MessageStep
<1>6. CASE MarkEvent(w)
  <2>1. Cur(w) \in Event /\ pc'[w] = "next" /\ UNCHANGED <<msg, accepted, rejected, acked, job, pos, verdict>>
    BY <1>e, <1>p, <1>6 DEF MarkEvent, Step
  <2>2. SettledNext(Cur(w))
    BY <1>t, <1>6, <2>1 DEF MarkEvent, KnowsSettled, Settled, SettledNext
  <2>3. TablesStaySettled
    BY <1>t, <1>6, <2>1, <2>2 DEF MarkEvent, SetEvent, TablesStaySettled, TypeOK
  <2>4. OthersStay(w)
    BY <1>o, <1>6 DEF MarkEvent, Step
  <2> QED
    BY <1>t, <1>m, <1>6, <2>1, <2>2, <2>3, <2>4, EventStep DEF MarkEvent, MessageStep
<1>7. CASE MarkEventFailed(w)
  <2>1. Cur(w) \in Event /\ UNCHANGED <<msg, accepted, rejected, acked>> /\ EndRequest(w)
    BY <1>e, <1>7 DEF MarkEventFailed
  <2>2. TablesStaySettled
    BY <1>t, <1>7, <2>1
    DEF MarkEventFailed, SetEvent, TablesStaySettled, TerminalStatuses, TypeOK
  <2> QED BY <1>t, <2>1, <2>2, RequestEnds
<1>8. CASE SkipDuplicateMessage(w)
  <2>1. accepted[Cur(w)] > 0
    BY <1>e, <1>8 DEF SkipDuplicateMessage, SettlementInv, ClosedMeansSettled
  <2>2. SettledNext(Cur(w))
    BY <1>8, <2>1 DEF SkipDuplicateMessage, SettledNext
  <2>3. pc'[w] = "finish" /\ verdict'[w] \in WebhookStatus /\ OthersStay(w)
    BY <1>t, <1>8 DEF SkipDuplicateMessage, OthersStay, WebhookStatus, TypeOK
  <2> QED
    BY <1>t, <1>m, <1>s, <1>8, <2>2, <2>3, EventStep DEF SkipDuplicateMessage, MessageStep
<1>24. CASE LoadSession(w)
  <2>1. Cur(w) \in Event /\ NeedsReply(Cur(w)) /\ pc'[w] = "message" /\ OthersStay(w)
    BY <1>t, <1>e, <1>o, <1>p, <1>24 DEF LoadSession, Placed, MessageStep, Step
  <2> QED
    BY <1>t, <1>m, <1>s, <1>24, <2>1, EventStep DEF LoadSession, MessageStep
<1>9. CASE RegisterMessage(w)
  <2>1. Cur(w) \in Event /\ NeedsReply(Cur(w)) /\ UNCHANGED <<evt, accepted, rejected, acked, job, pos, verdict>>
    BY <1>t, <1>e, <1>9 DEF RegisterMessage, Placed, MessageStep
  <2>2. TablesStaySettled
    BY <1>t, <1>9, <2>1
    DEF RegisterMessage, RegisterInbound, TablesStaySettled, TerminalProcessingStatuses, TypeOK
  <2>3. pc'[w] \in {"processing", "refresh"} /\ OthersStay(w)
    BY <1>t, <1>9 DEF RegisterMessage, OthersStay, TypeOK
  <2> QED
    BY <1>t, <1>m, <1>9, <2>1, <2>2, <2>3, EventStep DEF RegisterMessage, MessageStep
<1>10. CASE MarkProcessing(w)
  <2>1. Cur(w) \in Event /\ NeedsReply(Cur(w)) /\ UNCHANGED <<evt, accepted, rejected, acked, job, pos, verdict>>
    BY <1>t, <1>e, <1>10 DEF MarkProcessing, Placed, MessageStep
  <2>2. TablesStaySettled
    BY <1>t, <1>10, <2>1
    DEF MarkProcessing, SetMessage, TablesStaySettled, TerminalProcessingStatuses, TypeOK
  <2>3. pc'[w] = "refresh" /\ OthersStay(w)
    BY <1>o, <1>p, <1>10 DEF MarkProcessing, Step
  <2> QED
    BY <1>t, <1>m, <1>10, <2>1, <2>2, <2>3, EventStep DEF MarkProcessing, MessageStep
<1>11. CASE Refresh(w)
  <2>1. Cur(w) \in Event /\ NeedsReply(Cur(w)) /\ pc'[w] = "bot" /\ OthersStay(w)
    BY <1>t, <1>e, <1>o, <1>p, <1>11 DEF Refresh, Placed, MessageStep, Step
  <2> QED
    BY <1>t, <1>m, <1>s, <1>11, <2>1, EventStep DEF Refresh, MessageStep
<1>12. CASE RunBot(w)
  <2>1. /\ Cur(w) \in Event /\ NeedsReply(Cur(w)) /\ pc'[w] = "outbound" /\ OthersStay(w)
        /\ UNCHANGED <<evt, msg, accepted, rejected, acked, job, pos, verdict>>
    BY <1>t, <1>e, <1>o, <1>p, <1>12 DEF RunBot, Placed, MessageStep, Step
  <2> QED
    BY <1>t, <1>m, <1>s, <1>12, <2>1, EventStep DEF RunBot, MessageStep
<1>13. CASE RefuseTransition(w)
  <2>1. Cur(w) \in Event /\ NeedsReply(Cur(w)) /\ UNCHANGED <<evt, msg, accepted, acked, job, pos>>
    BY <1>t, <1>e, <1>13 DEF RefuseTransition, Placed, MessageStep
  <2>2. rejected' = rejected \cup {Cur(w)} /\ pc'[w] = "finish" /\ verdict'[w] = "failed" /\ OthersStay(w)
    BY <1>t, <1>13 DEF RefuseTransition, OthersStay, TypeOK
  <2>3. Monotone /\ SettledNext(Cur(w))
    BY <1>t, <2>1, <2>2 DEF Monotone, SettledNext, TypeOK
  <2> QED
    BY <1>t, <1>s, <1>13, <2>1, <2>2, <2>3, EventStep DEF RefuseTransition, MessageStep, WebhookStatus
<1>14. CASE MarkMessageProcessed(w)
  <2>1. Cur(w) \in Event /\ accepted[Cur(w)] > 0 /\ UNCHANGED <<evt, accepted, rejected, acked, job, pos>>
    BY <1>t, <1>e, <1>14 DEF MarkMessageProcessed, KnowsSettled
  <2>2. TablesStaySettled /\ SettledNext(Cur(w))
    BY <1>t, <1>14, <2>1 DEF MarkMessageProcessed, SetMessage, TablesStaySettled, SettledNext, TypeOK
  <2>3. pc'[w] = "finish" /\ verdict'[w] \in WebhookStatus /\ OthersStay(w)
    BY <1>t, <1>14 DEF MarkMessageProcessed, OthersStay, WebhookStatus, TypeOK
  <2> QED
    BY <1>t, <1>m, <1>14, <2>1, <2>2, <2>3, EventStep DEF MarkMessageProcessed, MessageStep
<1>15. CASE MarkMessageFailed(w)
  <2>1. Cur(w) \in Event /\ UNCHANGED <<evt, accepted, rejected, acked, job, pos, verdict>>
    BY <1>e, <1>15 DEF MarkMessageFailed
  <2>2. TablesStaySettled
    BY <1>t, <1>15, <2>1
    DEF MarkMessageFailed, SetMessage, TablesStaySettled, TerminalProcessingStatuses, TypeOK
  <2>3. pc'[w] = "fail" /\ OthersStay(w)
    BY <1>o, <1>p, <1>15 DEF MarkMessageFailed, Step
  <2> QED
    BY <1>t, <1>m, <1>15, <2>1, <2>2, <2>3, EventStep DEF MarkMessageFailed, MessageStep
<1>16. CASE CreateOutbound(w)
  <2>1. NeedsReply(Cur(w)) /\ pc'[w] = "send" /\ OthersStay(w)
    BY <1>t, <1>o, <1>p, <1>16 DEF CreateOutbound, Placed, MessageStep, Step
  <2> QED
    BY <1>t, <1>m, <1>s, <1>16, <2>1, EventStep DEF CreateOutbound, MessageStep
<1>a. ASSUME accepted' = [accepted EXCEPT ![Cur(w)] = @ + 1], UNCHANGED rejected, pc[w] = "send"
      PROVE  /\ Cur(w) \in Event /\ NeedsReply(Cur(w)) /\ Monotone /\ accepted'[Cur(w)] > 0
             /\ \A e \in Event : accepted'[e] # accepted[e] => NeedsReply(e)
  <2>1. Cur(w) \in Event /\ NeedsReply(Cur(w))
    BY <1>t, <1>e, <1>a DEF Placed, MessageStep
  <2>2. PICK n \in Nat : n = accepted[Cur(w)]
    BY <1>t, <2>1 DEF TypeOK
  <2>3. accepted'[Cur(w)] = n + 1 /\ \A e \in Event : e # Cur(w) => accepted'[e] = accepted[e]
    BY <1>t, <1>a, <2>1, <2>2 DEF TypeOK
  <2>4. ASSUME NEW e \in Event PROVE accepted'[e] >= accepted[e]
    <3>1. PICK k \in Nat : k = accepted[e]
      BY <1>t DEF TypeOK
    <3>2. accepted'[e] = k \/ accepted'[e] = k + 1
      BY <2>2, <2>3, <3>1
    <3> QED BY <3>1, <3>2
  <2>5. accepted'[Cur(w)] > 0
    BY <2>3
  <2> QED BY <1>a, <2>1, <2>3, <2>4, <2>5 DEF Monotone
<1>17. CASE SendAccepted(w)
  <2>1. pc'[w] = "sent" /\ OthersStay(w)
    BY <1>o, <1>p, <1>17 DEF SendAccepted, Step
  <2> QED
    BY <1>t, <1>a, <1>s, <1>17, <2>1, EventStep DEF SendAccepted
<1>18. CASE MarkOutboundSent(w)
  <2>1. NeedsReply(Cur(w)) /\ accepted[Cur(w)] > 0 /\ pc'[w] = "done" /\ OthersStay(w)
    BY <1>t, <1>o, <1>p, <1>18 DEF MarkOutboundSent, Placed, KnowsSettled, MessageStep, Step
  <2> QED
    BY <1>t, <1>m, <1>s, <1>18, <2>1, EventStep DEF MarkOutboundSent
<1>19. CASE MarkOutboundFailed(w)
  <2>1. NeedsReply(Cur(w)) /\ pc'[w] \in {"messageFailed", "fail"} /\ OthersStay(w)
    BY <1>t, <1>o, <1>p, <1>19 DEF MarkOutboundFailed, Placed, MessageStep, Step
  <2> QED
    BY <1>t, <1>m, <1>s, <1>19, <2>1, EventStep DEF MarkOutboundFailed
<1>20. CASE SendLost(w)
  <2>1. pc'[w] = "send" /\ OthersStay(w)
    BY <1>20 DEF SendLost, OthersStay
  <2> QED
    BY <1>t, <1>a, <1>s, <1>20, <2>1, EventStep DEF SendLost
<1>21. CASE SendFails(w)
  <2>1. NeedsReply(Cur(w)) /\ pc'[w] = "sendFailed" /\ OthersStay(w)
    BY <1>t, <1>21 DEF SendFails, Placed, MessageStep, OthersStay, TypeOK
  <2> QED
    BY <1>t, <1>m, <1>s, <1>21, <2>1, EventStep DEF SendFails
<1>22. CASE DatabaseFails(w)
  <2>1. CASE EndRequest(w)
    BY <1>t, <1>s, <1>22, <2>1, RequestEnds DEF DatabaseFails
  <2>2. CASE pc[w] \notin {"register", "fail"} /\ Goto(w, "fail") /\ UNCHANGED local
    <3>1. pc'[w] = "fail" /\ OthersStay(w)
      BY <1>o, <1>p, <1>22, <2>2 DEF DatabaseFails, Step
    <3> QED
      BY <1>t, <1>m, <1>s, <1>22, <2>2, <3>1, EventStep DEF DatabaseFails, MessageStep
  <2> QED BY <1>22, <2>1, <2>2 DEF DatabaseFails
<1>23. CASE Crash(w)
  BY <1>t, <1>s, <1>23, RequestEnds DEF Crash
<1> QED
  BY <1>1, <1>2, <1>3, <1>4, <1>5, <1>6, <1>7, <1>8, <1>9, <1>10, <1>11, <1>12, <1>13,
     <1>14, <1>15, <1>16, <1>17, <1>18, <1>19, <1>20, <1>21, <1>22, <1>23, <1>24
  DEF Proceed, Fail

-----------------------------------------------------------------------------
(* The theorems.                                                           *)

LEMMA InitEstablishes == Init => SettlementInv
<1> SUFFICES ASSUME Init PROVE SettlementInv
  OBVIOUS
<1>1. TypeOK
  <2>1. text \in [Event -> TextKind]
    BY PipelineAssumption DEF Init, TextKind
  <2>2. <<>> \in Seq(RowStatus)
    OBVIOUS
  <2> QED
    BY <2>1, <2>2, NewSessionType, PipelineAssumption
    DEF Init, TypeOK, NoSnap, Step, Reply, SilentReply, WebhookStatus
<1>2. \A w \in Worker : Placed(w) /\ KnowsSettled(w)
  BY DEF Init, Placed, KnowsSettled
<1>3. OnlyMessagesSettled /\ ClosedMeansSettled /\ NoSilentLoss
  BY DEF Init, OnlyMessagesSettled, ClosedMeansSettled, NoSilentLoss,
         TerminalStatuses, TerminalProcessingStatuses
<1> QED BY <1>1, <1>2, <1>3 DEF SettlementInv

LEMMA StutterPreserves == SettlementInv /\ UNCHANGED vars => SettlementInv'
BY DEF SettlementInv, vars, tables, world, local, TypeOK, Placed, KnowsSettled, Settled,
       NeedsReply, OnlyMessagesSettled, ClosedMeansSettled, NoSilentLoss, Cur

LEMMA NextPreserves == SettlementInv /\ [Next]_vars => SettlementInv'
<1>1. ASSUME SettlementInv, Next PROVE SettlementInv'
  <2>1. CASE Quiescent
    BY <1>1, <2>1, StutterPreserves DEF Quiescent
  <2>2. CASE \E w \in Worker : Proceed(w) \/ Fail(w) \/ \E p \in Payload : Deliver(w, p)
    BY <1>1, <2>2, StepPreserves
  <2> QED BY <1>1, <2>1, <2>2 DEF Next
<1> QED BY <1>1, StutterPreserves

\* The inductive invariant: types, the place of every request, what it knows
\* to be settled, and what the tables and the 200s say.
THEOREM SettlementInvariant == Spec => []SettlementInv
BY InitEstablishes, NextPreserves, PTL DEF Spec

\* Every column and every request stays within its type, for any instance.
THEOREM TypeCorrect == Spec => []TypeOK
<1>1. SettlementInv => TypeOK
  BY DEF SettlementInv
<1> QED BY <1>1, SettlementInvariant, PTL

\* A 200 is only ever given for a payload whose messages were all answered or
\* refused, whatever overlaps, fails, crashes or is delivered again.
THEOREM NoMessageSilentlyLost == Spec => []NoSilentLoss
<1>1. SettlementInv => NoSilentLoss
  BY DEF SettlementInv
<1> QED BY <1>1, SettlementInvariant, PTL

\* An event or a message in a status that stops reprocessing is settled.
THEOREM ClosedIsSettled == Spec => []ClosedMeansSettled
<1>1. SettlementInv => ClosedMeansSettled
  BY DEF SettlementInv
<1> QED BY <1>1, SettlementInvariant, PTL

-----------------------------------------------------------------------------
(* The pipeline implements AtLeastOnceReply.                               *)

\* What a step does to the three variables the abstract specification sees.
LEMMA VisibleEffect ==
  ASSUME NEW w \in Worker, Proceed(w) \/ Fail(w) \/ \E p \in Payload : Deliver(w, p)
  PROVE  \/ UNCHANGED <<accepted, rejected, acked>>
         \/ /\ pc[w] = "send" /\ accepted' = [accepted EXCEPT ![Cur(w)] = @ + 1]
            /\ UNCHANGED <<rejected, acked>>
         \/ /\ pc[w] = "bot" /\ rejected' = rejected \cup {Cur(w)}
            /\ UNCHANGED <<accepted, acked>>
         \/ /\ pc[w] = "next" /\ pos[w] = Len(EventsOf[job[w]])
            /\ acked' = acked \cup {job[w]} /\ UNCHANGED <<accepted, rejected>>
<1> USE DEF world
<1>1. CASE \E p \in Payload : Deliver(w, p)
  BY <1>1 DEF Deliver
<1>2. CASE NextEvent(w) \/ Acknowledge(w) \/ SkipDuplicateEvent(w) \/ RegisterEvent(w)
           \/ MarkEvent(w) \/ MarkEventFailed(w)
  BY <1>2 DEF NextEvent, Acknowledge, SkipDuplicateEvent, RegisterEvent, MarkEvent, MarkEventFailed
<1>3. CASE SkipDuplicateMessage(w) \/ LoadSession(w) \/ RegisterMessage(w)
           \/ MarkProcessing(w) \/ Refresh(w) \/ RunBot(w) \/ RefuseTransition(w) \/ MarkMessageProcessed(w) \/ MarkMessageFailed(w)
  BY <1>3 DEF SkipDuplicateMessage, LoadSession, RegisterMessage, MarkProcessing, Refresh, RunBot,
              RefuseTransition, MarkMessageProcessed, MarkMessageFailed
<1>4. CASE CreateOutbound(w) \/ SendAccepted(w) \/ MarkOutboundSent(w) \/ MarkOutboundFailed(w)
  BY <1>4 DEF CreateOutbound, SendAccepted, MarkOutboundSent, MarkOutboundFailed
<1>5. CASE Fail(w)
  BY <1>5 DEF Fail, SendLost, SendFails, DatabaseFails, Crash
<1> QED BY <1>1, <1>2, <1>3, <1>4, <1>5 DEF Proceed

LEMMA LedgerStep == SettlementInv /\ [Next]_vars => [Ledger!Next]_(Ledger!vars)
<1> SUFFICES ASSUME SettlementInv, [Next]_vars PROVE [Ledger!Next]_(Ledger!vars)
  OBVIOUS
<1>u. ASSUME UNCHANGED <<accepted, rejected, acked>> PROVE UNCHANGED Ledger!vars
  BY <1>u DEF Ledger!vars
<1>1. CASE UNCHANGED vars \/ Quiescent
  BY <1>1, <1>u DEF vars, world, Quiescent
<1>2. ASSUME NEW w \in Worker, Proceed(w) \/ Fail(w) \/ \E p \in Payload : Deliver(w, p)
      PROVE  [Ledger!Next]_(Ledger!vars)
  <2>t. TypeOK /\ Placed(w) /\ KnowsSettled(w)
    BY DEF SettlementInv
  <2>1. CASE UNCHANGED <<accepted, rejected, acked>>
    BY <2>1, <1>u
  <2>2. CASE pc[w] = "send" /\ accepted' = [accepted EXCEPT ![Cur(w)] = @ + 1] /\ UNCHANGED <<rejected, acked>>
    <3>1. Cur(w) \in Event /\ NeedsReply(Cur(w))
      BY <2>t, <2>2, CurIsEvent DEF Placed, MessageStep
    <3>2. PICK m \in Event : m = Cur(w)
      BY <3>1
    <3>3. {e \in Event : accepted'[e] > 0} = {e \in Event : accepted[e] > 0} \cup {m}
      BY <2>t, <2>2, <3>2 DEF TypeOK
    <3>4. Ledger!Answer(m)
      BY <2>2, <3>3 DEF Ledger!Answer
    <3> QED BY <3>1, <3>2, <3>4 DEF Ledger!Next
  <2>3. CASE pc[w] = "bot" /\ rejected' = rejected \cup {Cur(w)} /\ UNCHANGED <<accepted, acked>>
    <3>1. Cur(w) \in Event /\ NeedsReply(Cur(w))
      BY <2>t, <2>3, CurIsEvent DEF Placed, MessageStep
    <3>2. PICK m \in Event : m = Cur(w)
      BY <3>1
    <3>3. Ledger!Refuse(m)
      BY <2>3, <3>2 DEF Ledger!Refuse
    <3> QED BY <3>1, <3>2, <3>3 DEF Ledger!Next
  <2>4. CASE /\ pc[w] = "next" /\ pos[w] = Len(EventsOf[job[w]])
             /\ acked' = acked \cup {job[w]} /\ UNCHANGED <<accepted, rejected>>
    <3>1. job[w] \in Payload
      BY <2>t, <2>4 DEF Placed
    <3>2. \A i \in DOMAIN EventsOf[job[w]] : Settled(EventsOf[job[w]][i])
      BY <2>t, <2>4, <3>1, PipelineAssumption, LenProperties DEF KnowsSettled
    <3>3. {e \in Event : NeedsReply(e) /\ \E i \in DOMAIN EventsOf[job[w]] : EventsOf[job[w]][i] = e}
            \subseteq {e \in Event : accepted[e] > 0} \cup rejected
      BY <3>2 DEF Settled
    <3>4. Ledger!Acknowledge(job[w])
      BY <2>4, <3>1, <3>3 DEF Ledger!Acknowledge
    <3> QED BY <3>1, <3>4 DEF Ledger!Next
  <2> QED BY <1>2, <2>1, <2>2, <2>3, <2>4, VisibleEffect
<1>3. CASE \E w \in Worker : Proceed(w) \/ Fail(w) \/ \E p \in Payload : Deliver(w, p)
  BY <1>2, <1>3
<1> QED BY <1>1, <1>3 DEF Next

\* Whatever happens, what Meta and the users can see of the pipeline is a
\* behaviour of AtLeastOnceReply.
THEOREM PipelineImplementsAtLeastOnceReply == Spec => ImplementsAtLeastOnceReply
<1>1. Init => Ledger!Init
  BY DEF Init, Ledger!Init
<1> QED BY <1>1, LedgerStep, SettlementInvariant, PTL DEF Spec, ImplementsAtLeastOnceReply, Ledger!Spec

-----------------------------------------------------------------------------
(* The outbound rows tell the truth, in every interleaving: WriteAhead,    *)
(* SentRowsWereAccepted and OrphanRowsPaidFor from the invariant RowsInv.  *)
(* What a step may do to the rows has one of six shapes; each action has   *)
(* one of them (RowShape), and each of them preserves RowsInv.             *)

-----------------------------------------------------------------------------
(* The inductive invariant.                                                *)

Sending(w) == pc[w] \in {"send", "sent", "sendFailed"}
HasRow(w, e, i) == Sending(w) /\ Cur(w) = e /\ row[w] = i

\* A request that sends has a PENDING row, and has it for itself.
RowsOwned ==
  /\ \A w \in Worker : Sending(w) => /\ row[w] \in DOMAIN rows[Cur(w)]
                                     /\ rows[Cur(w)][row[w]] = "pending"
  /\ \A v, w \in Worker : Sending(v) /\ HasRow(w, Cur(v), row[v]) => v = w

\* The rows of a message that are SENT, or whose request has been told so.
Claimed(e) ==
  { i \in DOMAIN rows[e] :
      rows[e][i] = "sent" \/ \E w \in Worker : pc[w] = "sent" /\ HasRow(w, e, i) }

\* PENDING rows that will stay so.
Stranded ==
  { r \in UNION { {e} \X DOMAIN rows[e] : e \in Event } :
      rows[r[1]][r[2]] = "pending" /\ \A w \in Worker : ~HasRow(w, r[1], r[2]) }

RowsInv ==
  /\ RowsOwned
  /\ \A e \in Event : Cardinality(Claimed(e)) <= accepted[e]
  /\ IsFiniteSet(Stranded) /\ Cardinality(Stranded) <= faults

-----------------------------------------------------------------------------
(* Counting.                                                               *)

LEMMA CountSame ==
  ASSUME NEW S, NEW T, NEW n \in Nat, IsFiniteSet(S), Cardinality(S) <= n, T \subseteq S
  PROVE  IsFiniteSet(T) /\ Cardinality(T) <= n
BY FS_Subset, FS_CardinalityType

LEMMA CountOneMore ==
  ASSUME NEW S, NEW T, NEW x, NEW n \in Nat, IsFiniteSet(S), Cardinality(S) <= n,
         T \subseteq S \cup {x}
  PROVE  IsFiniteSet(T) /\ Cardinality(T) <= n + 1
<1>1. IsFiniteSet(S \cup {x}) /\ Cardinality(S \cup {x}) <= n + 1
  <2>1. /\ IsFiniteSet(S \cup {x})
        /\ Cardinality(S \cup {x}) = IF x \in S THEN Cardinality(S) ELSE Cardinality(S) + 1
    BY FS_AddElement
  <2>2. Cardinality(S) \in Nat
    BY FS_CardinalityType
  <2> QED BY <2>1, <2>2
<1> QED BY <1>1, CountSame

LEMMA ClaimedFinite ==
  ASSUME TypeOK, NEW e \in Event
  PROVE  IsFiniteSet(Claimed(e))
<1>1. rows[e] \in Seq(RowStatus)
  BY DEF TypeOK
<1>2. DOMAIN rows[e] = 1..Len(rows[e]) /\ Len(rows[e]) \in Nat
  BY <1>1, LenProperties
<1>3. IsFiniteSet(1..Len(rows[e]))
  BY <1>2, FS_Interval
<1> QED BY <1>2, <1>3, FS_Subset DEF Claimed

-----------------------------------------------------------------------------
(* The shapes of a step of w.                                              *)

Counts == <<accepted, faults>>

\* Before and after, w has no row to answer for.
Passive(w) == ~Sending(w) /\ pc'[w] \notin {"send", "sent", "sendFailed"} /\ UNCHANGED <<rows, Counts>>

\* A failure: w lets go of its row, if it has one.
Drops(w) ==
  /\ pc'[w] \notin {"send", "sent", "sendFailed"} /\ faults' = faults + 1
  /\ UNCHANGED <<rows, accepted>>

Creates(w) ==
  /\ pc[w] = "outbound" /\ pc'[w] = "send"
  /\ rows' = [rows EXCEPT ![Cur(w)] = Append(@, "pending")]
  /\ row'[w] = Len(rows[Cur(w)]) + 1 /\ Cur(w)' = Cur(w)
  /\ UNCHANGED Counts

Sends(w) ==
  /\ pc[w] = "send" /\ pc'[w] \in {"send", "sent"}
  /\ accepted' = [accepted EXCEPT ![Cur(w)] = @ + 1] /\ faults' >= faults
  /\ row'[w] = row[w] /\ Cur(w)' = Cur(w) /\ rows' = rows

FailsToSend(w) ==
  /\ pc[w] = "send" /\ pc'[w] = "sendFailed"
  /\ faults' = faults + 1
  /\ row'[w] = row[w] /\ Cur(w)' = Cur(w) /\ UNCHANGED <<rows, accepted>>

Marks(w, status) ==
  /\ pc[w] = (IF status = "sent" THEN "sent" ELSE "sendFailed")
  /\ pc'[w] \notin {"send", "sent", "sendFailed"}
  /\ SetRow(w, status)
  /\ UNCHANGED Counts

\* The other requests keep their rows.
RowsStay(w) == OthersStay(w) /\ \A v \in Worker \ {w} : row'[v] = row[v]

LEMMA RowShape ==
  ASSUME SettlementInv, NEW w \in Worker, Proceed(w) \/ Fail(w) \/ \E p \in Payload : Deliver(w, p)
  PROVE  /\ RowsStay(w)
         /\ \/ Passive(w) \/ Drops(w) \/ Creates(w) \/ Sends(w) \/ FailsToSend(w)
            \/ \E status \in {"sent", "failed"} : Marks(w, status)
<1> USE DEF tables, world, local, Goto, Finish, Counts
<1>t. TypeOK
  BY DEF SettlementInv
<1>n. faults \in Nat
  BY <1>t, PipelineAssumption DEF TypeOK
<1>e. EndRequest(w) => pc'[w] = "idle" /\ RowsStay(w)
  BY <1>t DEF EndRequest, RowsStay, OthersStay, TypeOK
<1>1. ASSUME NEW p \in Payload, Deliver(w, p) PROVE Passive(w) /\ RowsStay(w)
  BY <1>t, <1>1 DEF Deliver, Passive, Sending, RowsStay, OthersStay, TypeOK
<1>2. CASE NextEvent(w)
  <2>1. Passive(w) /\ RowsStay(w)
    BY <1>t, <1>2 DEF NextEvent, Passive, Sending, RowsStay, OthersStay, TypeOK
  <2> QED BY <2>1
<1>3. CASE Acknowledge(w) \/ MarkEventFailed(w)
  <2>1. Passive(w) /\ RowsStay(w)
    BY <1>e, <1>3 DEF Acknowledge, MarkEventFailed, Passive, Sending
  <2> QED BY <2>1
<1>4. CASE SkipDuplicateEvent(w) \/ MarkEvent(w) \/ RegisterMessage(w) \/ MarkProcessing(w)
           \/ MarkMessageFailed(w)
  <2>1. Passive(w) /\ RowsStay(w)
    BY <1>t, <1>4 DEF SkipDuplicateEvent, MarkEvent, RegisterMessage, MarkProcessing,
          MarkMessageFailed, Passive, Sending, RowsStay, OthersStay, TypeOK
  <2> QED BY <2>1
<1>5. CASE RegisterEvent(w)
  <2>1. Passive(w) /\ RowsStay(w)
    BY <1>t, <1>5 DEF RegisterEvent, Passive, Sending, RowsStay, OthersStay, TypeOK
  <2> QED BY <2>1
<1>6. CASE SkipDuplicateMessage(w) \/ MarkMessageProcessed(w) \/ RefuseTransition(w)
  <2>1. Passive(w) /\ RowsStay(w)
    BY <1>t, <1>6 DEF SkipDuplicateMessage, MarkMessageProcessed, RefuseTransition,
          Passive, Sending, RowsStay, OthersStay, TypeOK
  <2> QED BY <2>1
<1>7. CASE LoadSession(w) \/ Refresh(w) \/ RunBot(w)
  <2>1. Passive(w) /\ RowsStay(w)
    BY <1>t, <1>7 DEF LoadSession, Refresh, RunBot, Passive, Sending, RowsStay, OthersStay, TypeOK
  <2> QED BY <2>1
<1>8. CASE CreateOutbound(w)
  <2>1. Creates(w) /\ RowsStay(w)
    BY <1>t, <1>8 DEF CreateOutbound, Creates, NewRowStatus, Cur, RowsStay, OthersStay, TypeOK
  <2> QED BY <2>1
<1>9. CASE SendAccepted(w) \/ SendLost(w)
  <2>1. Sends(w) /\ RowsStay(w)
    BY <1>t, <1>n, <1>9 DEF SendAccepted, SendLost, Sends, Cur, RowsStay, OthersStay, TypeOK
  <2> QED BY <2>1
<1>10. CASE SendFails(w)
  <2>1. FailsToSend(w) /\ RowsStay(w)
    BY <1>t, <1>10 DEF SendFails, FailsToSend, Cur, RowsStay, OthersStay, TypeOK
  <2> QED BY <2>1
<1>11. CASE MarkOutboundSent(w)
  <2>1. Marks(w, "sent") /\ RowsStay(w)
    BY <1>t, <1>11 DEF MarkOutboundSent, Marks, RowsStay, OthersStay, TypeOK
  <2> QED BY <2>1
<1>12. CASE MarkOutboundFailed(w)
  <2>1. Marks(w, "failed") /\ RowsStay(w)
    BY <1>t, <1>12 DEF MarkOutboundFailed, Marks, RowsStay, OthersStay, TypeOK
  <2> QED BY <2>1
<1>13. CASE DatabaseFails(w) \/ Crash(w)
  <2>1. CASE EndRequest(w)
    BY <1>13, <1>e, <2>1 DEF DatabaseFails, Crash, Drops
  <2>2. CASE Goto(w, "fail") /\ UNCHANGED local /\ DatabaseFails(w)
    <3>1. Drops(w) /\ RowsStay(w)
      BY <1>t, <2>2 DEF DatabaseFails, Drops, RowsStay, OthersStay, TypeOK
    <3> QED BY <3>1
  <2> QED BY <1>13, <2>1, <2>2 DEF DatabaseFails, Crash
<1> QED
  BY <1>1, <1>2, <1>3, <1>4, <1>5, <1>6, <1>7, <1>8, <1>9, <1>10, <1>11, <1>12, <1>13
  DEF Proceed, Fail

-----------------------------------------------------------------------------
(* Each shape preserves the invariant.                                     *)

LEMMA OthersKeep ==
  ASSUME NEW w \in Worker, RowsStay(w), NEW v \in Worker \ {w}
  PROVE  /\ Sending(v)' <=> Sending(v)
         /\ pc'[v] = pc[v] /\ Cur(v)' = Cur(v) /\ row'[v] = row[v]
         /\ \A e, i : HasRow(v, e, i)' <=> HasRow(v, e, i)
BY DEF RowsStay, OthersStay, Sending, Cur, HasRow

\* A sending request is at an event that has its row.
LEMMA SenderPlaced ==
  ASSUME SettlementInv, RowsOwned, NEW w \in Worker, Sending(w)
  PROVE  /\ Cur(w) \in Event /\ row[w] \in 1..Len(rows[Cur(w)])
         /\ rows[Cur(w)] \in Seq(RowStatus) /\ rows[Cur(w)][row[w]] = "pending"
<1>1. TypeOK /\ Placed(w)
  BY DEF SettlementInv
<1>2. Cur(w) \in Event
  BY <1>1, CurIsEvent DEF Sending
<1>3. rows[Cur(w)] \in Seq(RowStatus)
  BY <1>1, <1>2 DEF TypeOK
<1> QED BY <1>2, <1>3, LenProperties DEF RowsOwned

\* A step that takes no row from anybody and gives none.
LEMMA NothingClaimed ==
  ASSUME SettlementInv, SettlementInv', RowsInv, RowsOwned', UNCHANGED accepted, faults' >= faults,
         \A e \in Event : Claimed(e)' \subseteq Claimed(e),
         Stranded' \subseteq Stranded
  PROVE  RowsInv'
<1>1. TypeOK /\ TypeOK' /\ faults \in Nat /\ faults' \in Nat
  BY PipelineAssumption DEF SettlementInv, TypeOK
<1>2. IsFiniteSet(Stranded') /\ Cardinality(Stranded') <= faults
  BY <1>1, CountSame DEF RowsInv
<1>3. Cardinality(Stranded') <= faults'
  BY <1>1, <1>2, FS_CardinalityType
<1>4. ASSUME NEW e \in Event PROVE Cardinality(Claimed(e)') <= accepted'[e]
  <2>1. IsFiniteSet(Claimed(e)) /\ accepted[e] \in Nat /\ Cardinality(Claimed(e)) <= accepted[e]
    BY <1>1, ClaimedFinite DEF RowsInv, TypeOK
  <2> QED BY <2>1, CountSame
<1> QED BY <1>2, <1>3, <1>4 DEF RowsInv

LEMMA PassiveKeeps ==
  ASSUME SettlementInv, SettlementInv', RowsInv, NEW w \in Worker, RowsStay(w), Passive(w)
  PROVE  RowsInv'
<1>n. faults \in Nat /\ TypeOK
  BY PipelineAssumption DEF SettlementInv, TypeOK
<1>1. ~Sending(w) /\ ~Sending(w)'
  BY DEF Passive, Sending
<1>2. RowsOwned'
  BY <1>1, OthersKeep DEF RowsInv, RowsOwned, HasRow, Passive
<1>3. ASSUME NEW e \in Event PROVE Claimed(e)' \subseteq Claimed(e)
  BY <1>1, OthersKeep DEF Claimed, HasRow, Passive
<1>4. Stranded' \subseteq Stranded
  BY <1>1, OthersKeep DEF Stranded, HasRow, Passive
<1> QED BY <1>n, <1>2, <1>3, <1>4, NothingClaimed DEF Passive, Counts

LEMMA DropsKeeps ==
  ASSUME SettlementInv, SettlementInv', RowsInv, NEW w \in Worker, RowsStay(w), Drops(w)
  PROVE  RowsInv'
<1>n. faults \in Nat /\ TypeOK
  BY PipelineAssumption DEF SettlementInv, TypeOK
<1>1. ~Sending(w)'
  BY DEF Drops, Sending
<1>2. RowsOwned'
  BY <1>1, OthersKeep DEF RowsInv, RowsOwned, HasRow, Drops
<1>3. ASSUME NEW e \in Event PROVE Cardinality(Claimed(e)') <= accepted'[e]
  <2>1. Claimed(e)' \subseteq Claimed(e)
    BY <1>1, OthersKeep DEF Claimed, HasRow, Drops
  <2>2. IsFiniteSet(Claimed(e)) /\ accepted[e] \in Nat /\ Cardinality(Claimed(e)) <= accepted[e]
    BY <1>n, ClaimedFinite DEF RowsInv, TypeOK
  <2> QED BY <2>1, <2>2, CountSame DEF Drops
<1>4. Stranded' \subseteq Stranded \cup {<<Cur(w), row[w]>>}
  <2> SUFFICES ASSUME NEW e \in Event, NEW i \in DOMAIN rows[e], <<e, i>> \in Stranded',
                      <<e, i>> # <<Cur(w), row[w]>>
               PROVE  <<e, i>> \in Stranded
    BY DEF Stranded, Drops
  <2>1. rows[e][i] = "pending" /\ \A v \in Worker : ~HasRow(v, e, i)'
    BY DEF Stranded, Drops
  <2>2. \A v \in Worker : ~HasRow(v, e, i)
    BY <2>1, OthersKeep DEF HasRow
  <2> QED BY <2>1, <2>2 DEF Stranded
<1>5. IsFiniteSet(Stranded') /\ Cardinality(Stranded') <= faults + 1
  BY <1>n, <1>4, CountOneMore DEF RowsInv
<1> QED BY <1>2, <1>3, <1>5 DEF RowsInv, Drops

\* w goes on with its row.
LEMMA RowKept ==
  ASSUME NEW w \in Worker, RowsStay(w), Sending(w), Sending(w)', row'[w] = row[w],
         Cur(w)' = Cur(w)
  PROVE  \A v \in Worker : \A e, i : HasRow(v, e, i)' <=> HasRow(v, e, i)
BY OthersKeep DEF HasRow

LEMMA FailsToSendKeeps ==
  ASSUME SettlementInv, SettlementInv', RowsInv, NEW w \in Worker, RowsStay(w), FailsToSend(w)
  PROVE  RowsInv'
<1>n. faults \in Nat /\ TypeOK
  BY PipelineAssumption DEF SettlementInv, TypeOK
<1>1. Sending(w) /\ Sending(w)'
  BY DEF FailsToSend, Sending
<1>k. \A v \in Worker : \A e, i : HasRow(v, e, i)' <=> HasRow(v, e, i)
  BY <1>1, RowKept DEF FailsToSend
<1>2. RowsOwned'
  BY <1>1, <1>k, OthersKeep DEF RowsInv, RowsOwned, HasRow, FailsToSend
<1>3. ASSUME NEW e \in Event PROVE Claimed(e)' \subseteq Claimed(e)
  BY <1>k, OthersKeep DEF Claimed, FailsToSend
<1>4. Stranded' \subseteq Stranded
  BY <1>k DEF Stranded, FailsToSend
<1> QED BY <1>n, <1>2, <1>3, <1>4, NothingClaimed DEF FailsToSend

LEMMA SendsKeeps ==
  ASSUME SettlementInv, SettlementInv', RowsInv, NEW w \in Worker, RowsStay(w), Sends(w)
  PROVE  RowsInv'
<1>n. faults \in Nat /\ faults' \in Nat /\ TypeOK
  BY PipelineAssumption DEF SettlementInv, TypeOK
<1>1. Sending(w) /\ Sending(w)'
  BY DEF Sends, Sending
<1>k. \A v \in Worker : \A e, i : HasRow(v, e, i)' <=> HasRow(v, e, i)
  BY <1>1, RowKept DEF Sends
<1>2. RowsOwned'
  BY <1>1, <1>k, OthersKeep DEF RowsInv, RowsOwned, HasRow, Sends
<1>3. ASSUME NEW e \in Event PROVE Cardinality(Claimed(e)') <= accepted'[e]
  <2>1. IsFiniteSet(Claimed(e)) /\ accepted[e] \in Nat /\ Cardinality(Claimed(e)) <= accepted[e]
    BY <1>n, ClaimedFinite DEF RowsInv, TypeOK
  <2>2. CASE e = Cur(w)
    <3>1. Claimed(e)' \subseteq Claimed(e) \cup {row[w]}
      BY <1>k, OthersKeep DEF Claimed, HasRow, Sends
    <3>2. accepted'[e] = accepted[e] + 1
      BY <1>n, <2>2 DEF Sends, TypeOK
    <3>3. Cardinality(Claimed(e)') <= accepted[e] + 1
      BY <2>1, <3>1, CountOneMore
    <3> QED BY <3>2, <3>3
  <2>3. CASE e # Cur(w)
    <3>1. Claimed(e)' \subseteq Claimed(e)
      BY <1>k, <2>3, OthersKeep DEF Claimed, HasRow, Sends
    <3>2. accepted'[e] = accepted[e]
      BY <1>n, <2>3 DEF Sends, TypeOK
    <3> QED BY <2>1, <3>1, <3>2, CountSame
  <2> QED BY <2>2, <2>3
<1>4. Stranded' \subseteq Stranded
  BY <1>k DEF Stranded, Sends
<1>5. IsFiniteSet(Stranded') /\ Cardinality(Stranded') <= faults
  BY <1>n, <1>4, CountSame DEF RowsInv
<1>6. Cardinality(Stranded') <= faults'
  BY <1>n, <1>5, FS_CardinalityType DEF Sends
<1> QED BY <1>2, <1>3, <1>5, <1>6 DEF RowsInv

LEMMA CreatesKeeps ==
  ASSUME SettlementInv, SettlementInv', RowsInv, NEW w \in Worker, RowsStay(w), Creates(w)
  PROVE  RowsInv'
<1>n. faults \in Nat /\ TypeOK /\ TypeOK' /\ Placed(w)
  BY PipelineAssumption DEF SettlementInv, TypeOK
<1>1. ~Sending(w) /\ Sending(w)' /\ pc'[w] # "sent"
  BY DEF Creates, Sending
<1>c. PICK c \in Event : c = Cur(w)
  BY <1>n, CurIsEvent DEF Creates
<1>r. /\ rows[c] \in Seq(RowStatus) /\ Len(rows[c]) \in Nat /\ DOMAIN rows[c] = 1..Len(rows[c])
      /\ rows'[c] = Append(rows[c], "pending") /\ row'[w] = Len(rows[c]) + 1
      /\ \A e \in Event \ {c} : rows'[e] = rows[e]
  BY <1>n, <1>c, LenProperties DEF Creates, TypeOK
<1>a. /\ DOMAIN rows'[c] = 1..(Len(rows[c]) + 1) /\ rows'[c][Len(rows[c]) + 1] = "pending"
      /\ \A i \in 1..Len(rows[c]) : rows'[c][i] = rows[c][i]
  BY <1>r, AppendProperties
<1>v. ASSUME NEW v \in Worker \ {w}, Sending(v)
      PROVE  /\ Cur(v) \in Event /\ row[v] \in DOMAIN rows[Cur(v)]
             /\ row[v] \in DOMAIN rows'[Cur(v)] /\ rows'[Cur(v)][row[v]] = "pending"
             /\ Cur(v) = c => row[v] # row'[w]
  <2>1. /\ Cur(v) \in Event /\ row[v] \in 1..Len(rows[Cur(v)])
        /\ rows[Cur(v)] \in Seq(RowStatus) /\ rows[Cur(v)][row[v]] = "pending"
    BY <1>v, SenderPlaced DEF RowsInv
  <2>2. CASE Cur(v) = c
    BY <2>1, <2>2, <1>r, <1>a
  <2>3. CASE Cur(v) # c
    BY <2>1, <2>3, <1>r, LenProperties
  <2> QED BY <2>2, <2>3, <2>1, LenProperties
<1>2. RowsOwned'
  <2>1. ASSUME NEW v \in Worker, Sending(v)'
        PROVE  row'[v] \in DOMAIN rows'[Cur(v)'] /\ rows'[Cur(v)'][row'[v]] = "pending"
    BY <2>1, <1>c, <1>r, <1>a, <1>v, OthersKeep DEF Creates
  <2>2. ASSUME NEW v \in Worker, NEW u \in Worker, Sending(v)', Sending(u)', Cur(u)' = Cur(v)',
               row'[u] = row'[v]
        PROVE  v = u
    <3>1. CASE v # w /\ u # w
      BY <2>2, <3>1, OthersKeep DEF RowsInv, RowsOwned, HasRow
    <3>2. CASE v = w /\ u # w
      BY <2>2, <3>2, <1>c, <1>v, OthersKeep DEF Creates
    <3>3. CASE v # w /\ u = w
      BY <2>2, <3>3, <1>c, <1>v, OthersKeep DEF Creates
    <3> QED BY <3>1, <3>2, <3>3
  <2> QED BY <2>1, <2>2 DEF RowsOwned, HasRow
<1>3. ASSUME NEW e \in Event PROVE Claimed(e)' \subseteq Claimed(e)
  <2> SUFFICES ASSUME NEW i \in DOMAIN rows'[e],
                      rows'[e][i] = "sent" \/ \E v \in Worker : pc'[v] = "sent" /\ HasRow(v, e, i)'
               PROVE  i \in Claimed(e)
    BY DEF Claimed
  <2>1. CASE rows'[e][i] = "sent"
    BY <2>1, <1>r, <1>a DEF Claimed
  <2>2. ASSUME NEW v \in Worker, pc'[v] = "sent", HasRow(v, e, i)'
        PROVE  i \in Claimed(e)
    <3>1. v # w /\ HasRow(v, e, i) /\ pc[v] = "sent"
      BY <2>2, <1>1, OthersKeep
    <3> QED BY <3>1, <1>v DEF Claimed, HasRow
  <2> QED BY <2>1, <2>2
<1>4. Stranded' \subseteq Stranded
  <2> SUFFICES ASSUME NEW e \in Event, NEW i \in DOMAIN rows'[e], rows'[e][i] = "pending",
                      \A v \in Worker : ~HasRow(v, e, i)'
               PROVE  <<e, i>> \in Stranded
    BY DEF Stranded
  <2>1. ~(e = c /\ i = Len(rows[c]) + 1)
    BY <1>1, <1>c, <1>r DEF HasRow, Creates
  <2>2. i \in DOMAIN rows[e] /\ rows[e][i] = "pending"
    BY <2>1, <1>r, <1>a
  <2>3. \A v \in Worker : ~HasRow(v, e, i)
    BY <1>1, OthersKeep DEF HasRow
  <2> QED BY <2>2, <2>3 DEF Stranded
<1> QED BY <1>n, <1>2, <1>3, <1>4, NothingClaimed DEF Creates, Counts

LEMMA MarksKeeps ==
  ASSUME SettlementInv, SettlementInv', RowsInv, NEW w \in Worker, RowsStay(w),
         NEW status \in {"sent", "failed"}, Marks(w, status)
  PROVE  RowsInv'
<1>n. faults \in Nat /\ TypeOK /\ TypeOK'
  BY PipelineAssumption DEF SettlementInv, TypeOK
<1>1. Sending(w) /\ ~Sending(w)'
  BY DEF Marks, Sending
<1>c. PICK c \in Event : c = Cur(w)
  BY <1>1, SenderPlaced DEF RowsInv
<1>i. PICK n \in 1..Len(rows[c]) : n = row[w]
  BY <1>1, <1>c, SenderPlaced DEF RowsInv
<1>r. /\ rows[c] \in Seq(RowStatus) /\ rows[c][n] = "pending" /\ DOMAIN rows[c] = 1..Len(rows[c])
      /\ rows'[c] = [rows[c] EXCEPT ![n] = status]
      /\ \A e \in Event \ {c} : rows'[e] = rows[e]
  <2>1. rows' = [rows EXCEPT ![c] = [rows[c] EXCEPT ![n] = status]]
    BY <1>c, <1>i DEF Marks, SetRow
  <2>2. rows \in [Event -> Seq(RowStatus)]
    BY <1>n DEF TypeOK
  <2> QED BY <2>1, <2>2, <1>1, <1>c, <1>i, SenderPlaced, LenProperties DEF RowsInv
<1>a. /\ DOMAIN rows'[c] = DOMAIN rows[c] /\ rows'[c][n] = status
      /\ \A i \in DOMAIN rows[c] \ {n} : rows'[c][i] = rows[c][i]
  BY <1>r
<1>d. \A e \in Event : DOMAIN rows'[e] = DOMAIN rows[e]
  BY <1>r, <1>a
<1>v. \A v \in Worker \ {w} : Sending(v) => ~(Cur(v) = c /\ row[v] = n)
  BY <1>1, <1>c, <1>i DEF RowsInv, RowsOwned, HasRow
<1>2. RowsOwned'
  <2>1. ASSUME NEW v \in Worker, Sending(v)'
        PROVE  row'[v] \in DOMAIN rows'[Cur(v)'] /\ rows'[Cur(v)'][row'[v]] = "pending"
    <3>1. v # w /\ Sending(v) /\ Cur(v)' = Cur(v) /\ row'[v] = row[v]
      BY <2>1, <1>1, OthersKeep
    <3>2. Cur(v) \in Event /\ row[v] \in DOMAIN rows[Cur(v)] /\ rows[Cur(v)][row[v]] = "pending"
      BY <3>1, SenderPlaced DEF RowsInv, RowsOwned
    <3> QED BY <3>1, <3>2, <1>v, <1>r, <1>a
  <2> QED BY <2>1, <1>1, OthersKeep DEF RowsInv, RowsOwned, HasRow
<1>3. ASSUME NEW e \in Event PROVE Claimed(e)' \subseteq Claimed(e)
  <2> SUFFICES ASSUME NEW i \in DOMAIN rows[e],
                      rows'[e][i] = "sent" \/ \E v \in Worker : pc'[v] = "sent" /\ HasRow(v, e, i)'
               PROVE  i \in Claimed(e)
    BY <1>d DEF Claimed
  <2>1. CASE rows'[e][i] = "sent" /\ e = c /\ i = n
    <3>1. pc[w] = "sent" /\ HasRow(w, e, i)
      BY <2>1, <1>1, <1>a, <1>c, <1>i DEF Marks, HasRow
    <3> QED BY <3>1 DEF Claimed
  <2>2. CASE rows'[e][i] = "sent" /\ ~(e = c /\ i = n)
    BY <2>2, <1>r, <1>a DEF Claimed
  <2>3. CASE \E v \in Worker : pc'[v] = "sent" /\ HasRow(v, e, i)'
    BY <2>3, <1>1, OthersKeep DEF Claimed, HasRow
  <2> QED BY <2>1, <2>2, <2>3
<1>4. Stranded' \subseteq Stranded
  <2> SUFFICES ASSUME NEW e \in Event, NEW i \in DOMAIN rows[e], rows'[e][i] = "pending",
                      \A v \in Worker : ~HasRow(v, e, i)'
               PROVE  <<e, i>> \in Stranded
    BY <1>d DEF Stranded
  <2>1. ~(e = c /\ i = n)
    BY <1>a
  <2>2. rows[e][i] = "pending"
    BY <2>1, <1>r, <1>a
  <2>3. \A v \in Worker : ~HasRow(v, e, i)
    BY <2>1, <1>c, <1>i, OthersKeep DEF HasRow
  <2> QED BY <2>2, <2>3 DEF Stranded
<1> QED BY <1>n, <1>2, <1>3, <1>4, NothingClaimed DEF Marks, Counts

-----------------------------------------------------------------------------
LEMMA RowsInit == Init => RowsInv
<1> SUFFICES ASSUME Init PROVE RowsInv
  OBVIOUS
<1>1. RowsOwned
  BY DEF Init, RowsOwned, Sending
<1>2. ASSUME NEW e \in Event PROVE Claimed(e) = {} /\ accepted[e] = 0
  BY DEF Init, Claimed
<1>3. Stranded = {}
  BY DEF Init, Stranded
<1>4. \A e \in Event : Cardinality(Claimed(e)) <= accepted[e]
  BY <1>2, FS_EmptySet
<1>5. IsFiniteSet(Stranded) /\ Cardinality(Stranded) <= faults
  BY <1>3, FS_EmptySet DEF Init
<1> QED BY <1>1, <1>4, <1>5 DEF RowsInv

LEMMA RowsStutter == RowsInv /\ UNCHANGED vars => RowsInv'
BY DEF vars, tables, world, local, RowsInv, RowsOwned, Claimed, Stranded, HasRow, Sending, Cur

LEMMA RowsNext == RowsInv /\ SettlementInv /\ SettlementInv' /\ [Next]_vars => RowsInv'
<1> SUFFICES ASSUME RowsInv, SettlementInv, SettlementInv', [Next]_vars PROVE RowsInv'
  OBVIOUS
<1>1. CASE UNCHANGED vars \/ Quiescent
  BY <1>1, RowsStutter DEF Quiescent
<1>2. ASSUME NEW w \in Worker, Proceed(w) \/ Fail(w) \/ \E p \in Payload : Deliver(w, p)
      PROVE  RowsInv'
  <2>1. RowsStay(w)
    BY <1>2, RowShape
  <2>2. \/ Passive(w) \/ Drops(w) \/ Creates(w) \/ Sends(w) \/ FailsToSend(w)
        \/ \E status \in {"sent", "failed"} : Marks(w, status)
    BY <1>2, RowShape
  <2> QED BY <2>1, <2>2, PassiveKeeps, DropsKeeps, CreatesKeeps, SendsKeeps, FailsToSendKeeps, MarksKeeps
<1> QED BY <1>1, <1>2 DEF Next

\* A sending request owns a PENDING row, the SENT rows of a message and those
\* whose sender has its confirmation are no more than the replies the
\* provider took, and every row that will stay PENDING cost a failure.
THEOREM RowsInvariant == Spec => []RowsInv
BY RowsInit, RowsNext, SettlementInvariant, PTL DEF Spec

\* A reply is only handed to the provider under a row that says so.
THEOREM IntentBeforeSend == Spec => WriteAhead
<1>1. SettlementInv /\ RowsInv /\ [Next]_vars =>
        [\A e \in Event : accepted'[e] # accepted[e] => \E i \in DOMAIN rows[e] : rows[e][i] = "pending"]_vars
  <2> SUFFICES ASSUME SettlementInv, RowsInv, Next, NEW e \in Event, accepted'[e] # accepted[e]
               PROVE  \E i \in DOMAIN rows[e] : rows[e][i] = "pending"
    OBVIOUS
  <2>1. PICK w \in Worker : Proceed(w) \/ Fail(w) \/ \E p \in Payload : Deliver(w, p)
    BY DEF Next, Quiescent, vars, world
  <2>2. Sends(w)
    BY <2>1, RowShape DEF Passive, Drops, Creates, FailsToSend, Marks, Counts
  <2>3. Sending(w) /\ Cur(w) = e
    BY <2>2 DEF Sends, Sending, SettlementInv, TypeOK
  <2> QED BY <2>3 DEF RowsInv, RowsOwned
<1> QED BY <1>1, RowsInvariant, SettlementInvariant, PTL DEF Spec, WriteAhead

\* SENT rows never outnumber the replies the provider took.
THEOREM SentRowsTellTheTruth == Spec => []SentRowsWereAccepted
<1>1. SettlementInv /\ RowsInv => SentRowsWereAccepted
  <2> SUFFICES ASSUME SettlementInv, RowsInv, NEW e \in Event
               PROVE  Cardinality({i \in DOMAIN rows[e] : rows[e][i] = "sent"}) <= accepted[e]
    BY DEF SentRowsWereAccepted
  <2>1. {i \in DOMAIN rows[e] : rows[e][i] = "sent"} \subseteq Claimed(e)
    BY DEF Claimed
  <2>2. IsFiniteSet(Claimed(e)) /\ accepted[e] \in Nat /\ Cardinality(Claimed(e)) <= accepted[e]
    BY ClaimedFinite DEF SettlementInv, TypeOK, RowsInv
  <2> QED BY <2>1, <2>2, CountSame
<1> QED BY <1>1, RowsInvariant, SettlementInvariant, PTL

\* Rows that stay PENDING are no more than the failures.
THEOREM OrphansCostFailures == Spec => []OrphanRowsPaidFor
<1>1. SettlementInv /\ RowsInv => OrphanRowsPaidFor
  <2> SUFFICES ASSUME SettlementInv, RowsInv PROVE OrphanRowsPaidFor
    OBVIOUS
  <2> DEFINE Orphans ==
        { r \in Event \X (1..(1 + MaxDuplicates + MaxFaults)) :
            /\ r[2] \in DOMAIN rows[r[1]] /\ rows[r[1]][r[2]] = "pending"
            /\ \A w \in Worker : ~Holds(w, r[1], r[2]) }
  <2>1. ASSUME NEW w \in Worker, NEW e \in Event, NEW i \in DOMAIN rows[e], HasRow(w, e, i)
        PROVE  Holds(w, e, i)
    BY <2>1, PipelineAssumption DEF HasRow, Sending, Holds, SettlementInv, Placed
  <2>2. Orphans \subseteq Stranded
    BY <2>1 DEF Stranded
  <2>3. faults \in Nat
    BY PipelineAssumption DEF SettlementInv, TypeOK
  <2>4. Cardinality(Orphans) <= faults
    BY <2>2, <2>3, CountSame DEF RowsInv
  <2> QED BY <2>4 DEF OrphanRowsPaidFor
<1> QED BY <1>1, RowsInvariant, SettlementInvariant, PTL
=============================================================================
