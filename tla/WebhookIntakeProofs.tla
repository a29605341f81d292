-------------------------- MODULE WebhookIntakeProofs --------------------------
(***************************************************************************)
(* Nothing in an answered payload is overlooked, for every payload Meta    *)
(* can send and any number of payloads, failures and redeliveries.  The    *)
(* parser leaves no item of a valid payload out (ParserFindsAll), and the  *)
(* pipeline leaves none of its events out of the table (PassedInv, for     *)
(* requests that overlap), or its statuses and errors open (RecordedInv,   *)
(* for requests that do not: of two that overlap, the slower may fail and  *)
(* mark as failed what the other has closed).                              *)
(***************************************************************************)
EXTENDS WebhookIntake, SerialDeliveryProofs, SequenceLemmas

-----------------------------------------------------------------------------
(* The inductive invariant.                                                *)

\* Statuses and errors are closed by the event layer alone.
IsNotice(e) == Kind[e] \in {"STATUS", "UNKNOWN"}

Recorded(e) == evt[e] # "absent" /\ (IsNotice(e) => evt[e] \in TerminalStatuses)

\* The events behind a request are recorded; the one it is dealing with is
\* in the table, still open if it is a notice, and to be closed as PROCESSED.
Records(w) ==
  pc[w] # "idle" =>
    /\ \A i \in 1..pos[w] : i < pos[w] \/ pc[w] = "next" => Recorded(EventsOf[job[w]][i])
    /\ pc[w] \notin {"next", "register"} =>
         /\ evt[Cur(w)] # "absent"
         /\ IsNotice(Cur(w)) => evt[Cur(w)] \notin TerminalStatuses
         /\ IsNotice(Cur(w)) /\ pc[w] = "finish" => verdict[w] = "processed"

RecordedInv ==
  /\ \A w \in Worker : Records(w)
  /\ \A p \in acked : \A i \in 1..Len(EventsOf[p]) : Recorded(EventsOf[p][i])

-----------------------------------------------------------------------------
(* What a step does to the event table.                                    *)

\* The request is over and has recorded nothing.
GivesUp(w) == UNCHANGED <<evt, acked>> /\ pc'[w] = "idle"

\* The request goes on with its event, without the event table.
WorksOn(w) ==
  /\ UNCHANGED <<evt, acked>> /\ job'[w] = job[w] /\ pos'[w] = pos[w]
  /\ pc[w] \notin {"idle", "next", "register"} /\ pc'[w] \notin {"idle", "next", "register"}
  /\ pc'[w] = "finish" => ~IsNotice(Cur(w))

LEMMA RecordShape ==
  ASSUME SettlementInv, NEW w \in Worker, Proceed(w) \/ Fail(w) \/ \E p \in Payload : Deliver(w, p)
  PROVE  \/ GivesUp(w) \/ WorksOn(w) \/ \E p \in Payload : Deliver(w, p)
         \/ NextEvent(w) \/ Acknowledge(w) \/ SkipDuplicateEvent(w) \/ RegisterEvent(w)
         \/ MarkEvent(w) \/ MarkEventFailed(w)
<1> USE DEF tables, world, local, Goto, Finish
<1>t. TypeOK /\ Placed(w)
  BY DEF SettlementInv
<1>m. pc[w] \in MessageStep => ~IsNotice(Cur(w))
  BY <1>t DEF Placed, MessageStep, NeedsReply, IsNotice
<1>1. CASE LoadSession(w) \/ RegisterMessage(w) \/ MarkProcessing(w) \/ Refresh(w) \/ MarkMessageFailed(w)
  <2>1. WorksOn(w)
    BY <1>t, <1>1 DEF LoadSession, RegisterMessage, MarkProcessing, Refresh, MarkMessageFailed,
       WorksOn, TypeOK
  <2> QED BY <2>1
<1>2. CASE SkipDuplicateMessage(w) \/ RefuseTransition(w) \/ MarkMessageProcessed(w)
  <2>1. pc[w] \in MessageStep
    BY <1>2 DEF SkipDuplicateMessage, RefuseTransition, MarkMessageProcessed, MessageStep
  <2>2. WorksOn(w)
    BY <1>t, <1>m, <1>2, <2>1 DEF SkipDuplicateMessage, RefuseTransition, MarkMessageProcessed,
       WorksOn, TypeOK
  <2> QED BY <2>2
<1>3. CASE RunBot(w) \/ CreateOutbound(w) \/ MarkOutboundSent(w) \/ MarkOutboundFailed(w)
  <2>1. WorksOn(w)
    BY <1>t, <1>3 DEF RunBot, CreateOutbound, MarkOutboundSent, MarkOutboundFailed, WorksOn, TypeOK
  <2> QED BY <2>1
<1>4. CASE SendAccepted(w) \/ SendLost(w) \/ SendFails(w)
  <2>1. WorksOn(w)
    BY <1>t, <1>4 DEF SendAccepted, SendLost, SendFails, WorksOn, TypeOK
  <2> QED BY <2>1
<1>5. CASE DatabaseFails(w) \/ Crash(w)
  <2>1. CASE EndRequest(w)
    BY <1>t, <1>5, <2>1 DEF DatabaseFails, Crash, EndRequest, GivesUp, TypeOK
  <2>2. CASE pc[w] \notin {"register", "fail"} /\ Goto(w, "fail") /\ UNCHANGED local /\ DatabaseFails(w)
    <3>1. WorksOn(w)
      BY <1>t, <2>2 DEF DatabaseFails, WorksOn, TypeOK
    <3> QED BY <3>1
  <2> QED BY <1>5, <2>1, <2>2 DEF DatabaseFails, Crash
<1> QED BY <1>1, <1>2, <1>3, <1>4, <1>5 DEF Proceed, Fail

\* With one request, its own part of the invariant, the recorded events and
\* the promise of a new 200 are all there is to look at.
LEMMA RecordsAssemble ==
  ASSUME OneRequest, SettlementInv, RecordedInv, NEW w \in Worker, Records(w)',
         \A e \in Event : Recorded(e) => Recorded(e)',
         \A p \in acked' \ acked : \A i \in 1..Len(EventsOf[p]) : Recorded(EventsOf[p][i])'
  PROVE  RecordedInv'
<1>1. ASSUME NEW p \in acked, NEW i \in 1..Len(EventsOf[p]) PROVE Recorded(EventsOf[p][i])'
  <2>1. p \in Payload
    BY DEF SettlementInv, TypeOK
  <2> DEFINE e == EventsOf[p][i]
  <2>2. e \in Event
    BY <2>1, EventOfPayload
  <2>3. Recorded(e)
    BY DEF RecordedInv
  <2> HIDE DEF e
  <2>4. Recorded(e)'
    BY <2>2, <2>3
  <2> QED BY <2>4 DEF e, Recorded, IsNotice
<1>2. \A v \in Worker : Records(v)'
  BY DEF OneRequest
<1> QED BY <1>1, <1>2 DEF RecordedInv, Recorded, IsNotice

\* Where a request stands before and after a step that keeps its event.
LEMMA SameEvent ==
  ASSUME TypeOK, NEW w \in Worker, Placed(w), pc[w] \notin {"idle", "next"}
  PROVE  /\ Cur(w) \in Event /\ job[w] \in Payload /\ pos[w] \in 1..Len(EventsOf[job[w]])
         /\ Cur(w) = EventsOf[job[w]][pos[w]]
         /\ \A i \in 1..pos[w] : EventsOf[job[w]][i] \in Event
<1>1. job[w] \in Payload /\ pos[w] \in 1..Len(EventsOf[job[w]])
  BY PipelineAssumption, LenProperties DEF Placed
<1>2. \A i \in 1..pos[w] : i \in 1..Len(EventsOf[job[w]])
  BY <1>1
<1> QED BY <1>1, <1>2, EventOfPayload DEF Cur

LEMMA RecordsStep ==
  ASSUME OneRequest, SettlementInv, SettlementInv', RecordedInv, NEW w \in Worker,
         Proceed(w) \/ Fail(w) \/ \E p \in Payload : Deliver(w, p)
  PROVE  RecordedInv'
<1> USE DEF tables, world, local, Goto, Finish
<1>t. TypeOK /\ TypeOK' /\ Placed(w) /\ Placed(w)' /\ KnowsSettled(w) /\ Records(w)
  BY DEF SettlementInv, RecordedInv
<1>u. evt' = evt => \A e \in Event : Recorded(e) => Recorded(e)'
  BY DEF Recorded, IsNotice
<1>b. pc[w] \notin {"idle", "next"} =>
        \A i \in 1..pos[w] : i < pos[w] => EventsOf[job[w]][i] \in Event /\ Recorded(EventsOf[job[w]][i])
  BY <1>t, SameEvent DEF Records
<1>1. CASE GivesUp(w)
  BY <1>1, <1>u, RecordsAssemble DEF GivesUp, Records
<1>2. CASE WorksOn(w)
  <2>1. Records(w)'
    BY <1>t, <1>2 DEF WorksOn, Records, Recorded, IsNotice, Cur
  <2> QED BY <1>2, <2>1, <1>u, RecordsAssemble DEF WorksOn
<1>3. ASSUME NEW p \in Payload, Deliver(w, p) PROVE RecordedInv'
  <2>1. UNCHANGED <<evt, acked>> /\ pc'[w] = "next" /\ pos'[w] = 0
    BY <1>t, <1>3 DEF Deliver, Placed, TypeOK
  <2>2. Records(w)'
    BY <2>1 DEF Records
  <2> QED BY <2>1, <2>2, <1>u, RecordsAssemble
<1>4. CASE NextEvent(w)
  <2>1. /\ UNCHANGED <<evt, acked>> /\ pc[w] = "next" /\ pc'[w] = "register" /\ job'[w] = job[w]
        /\ pos'[w] = pos[w] + 1 /\ pos[w] \in Nat
    BY <1>t, <1>4 DEF NextEvent, TypeOK
  <2>2. \A i \in 1..pos'[w] : i < pos'[w] => Recorded(EventsOf[job[w]][i])
    BY <1>t, <2>1 DEF Records
  <2>3. Records(w)'
    BY <2>1, <2>2 DEF Records, Recorded, IsNotice
  <2> QED BY <2>1, <2>3, <1>u, RecordsAssemble
<1>5. CASE Acknowledge(w)
  <2>1. /\ evt' = evt /\ acked' = acked \cup {job[w]} /\ pc'[w] = "idle"
        /\ pc[w] = "next" /\ pos[w] = Len(EventsOf[job[w]])
    BY <1>t, <1>5 DEF Acknowledge, EndRequest, TypeOK
  <2>2. \A i \in 1..Len(EventsOf[job[w]]) : Recorded(EventsOf[job[w]][i])
    BY <1>t, <2>1 DEF Records
  <2>3. \A p \in acked' \ acked : \A i \in 1..Len(EventsOf[p]) : Recorded(EventsOf[p][i])'
    BY <2>1, <2>2 DEF Recorded, IsNotice
  <2> QED BY <2>1, <2>3, <1>u, RecordsAssemble DEF Records
\* The three steps below leave the request at its event, or past it.
<1>c. pc[w] \notin {"idle", "next"} =>
        /\ Cur(w) \in Event /\ job[w] \in Payload /\ pos[w] \in 1..Len(EventsOf[job[w]])
        /\ Cur(w) = EventsOf[job[w]][pos[w]]
        /\ \A i \in 1..pos[w] : i < pos[w] \/ i = pos[w]
  BY <1>t, SameEvent
<1>n. ASSUME pc[w] \notin {"idle", "next"}, pc'[w] = "next", job'[w] = job[w], pos'[w] = pos[w],
             Recorded(Cur(w))', \A e \in Event : Recorded(e) => Recorded(e)', acked' = acked
      PROVE  RecordedInv'
  <2>1. ASSUME NEW i \in 1..pos[w] PROVE Recorded(EventsOf[job[w]][i])'
    <3>1. CASE i < pos[w]
      <4>1. PICK e \in Event : e = EventsOf[job[w]][i] /\ Recorded(e)
        BY <1>n, <1>b, <3>1
      <4>2. Recorded(e)'
        BY <1>n, <4>1
      <4> QED BY <4>1, <4>2, <1>n DEF Recorded, IsNotice
    <3>2. CASE i = pos[w]
      BY <1>n, <1>c, <3>2 DEF Recorded, IsNotice, Cur
    <3> QED BY <1>n, <1>c, <3>1, <3>2
  <2>2. Records(w)'
    BY <1>n, <2>1 DEF Records, Recorded, IsNotice
  <2> QED BY <1>n, <2>2, RecordsAssemble
<1>6. CASE SkipDuplicateEvent(w)
  <2>1. /\ evt' = evt /\ acked' = acked /\ pc[w] = "register" /\ pc'[w] = "next"
        /\ job'[w] = job[w] /\ pos'[w] = pos[w] /\ evt[Cur(w)] \in TerminalStatuses
    BY <1>t, <1>6 DEF SkipDuplicateEvent, TypeOK
  <2>2. Recorded(Cur(w))'
    BY <2>1 DEF Recorded, IsNotice, Cur, TerminalStatuses
  <2> QED BY <2>1, <2>2, <1>n, <1>u
<1>7. CASE MarkEvent(w)
  <2>1. /\ acked' = acked /\ pc[w] = "finish" /\ pc'[w] = "next" /\ Cur(w)' = Cur(w)
        /\ job'[w] = job[w] /\ pos'[w] = pos[w] /\ evt' = [evt EXCEPT ![Cur(w)] = verdict[w]]
    BY <1>t, <1>7 DEF MarkEvent, SetEvent, Cur, TypeOK
  <2>2. evt'[Cur(w)] = verdict[w] /\ \A e \in Event \ {Cur(w)} : evt'[e] = evt[e]
    BY <1>t, <1>c, <2>1 DEF TypeOK
  <2>3. verdict[w] # "absent" /\ (IsNotice(Cur(w)) => verdict[w] \in TerminalStatuses)
    BY <1>t, <2>1 DEF KnowsSettled, Records, WebhookStatus, TerminalStatuses
  <2>4. evt'[Cur(w)] # "absent" /\ (IsNotice(Cur(w)) => evt'[Cur(w)] \in TerminalStatuses)
    BY <2>2, <2>3
  <2>5. Recorded(Cur(w))'
    BY <2>1, <2>4 DEF Recorded, IsNotice
  <2>6. \A e \in Event : Recorded(e) => Recorded(e)'
    BY <2>2, <2>4 DEF Recorded, IsNotice
  <2> QED BY <2>1, <2>5, <2>6, <1>n
\* An event that is failed was open.
<1>8. CASE MarkEventFailed(w)
  <2>1. acked' = acked /\ pc[w] = "fail" /\ pc'[w] = "idle" /\ evt' = [evt EXCEPT ![Cur(w)] = "failed"]
    BY <1>t, <1>8 DEF MarkEventFailed, SetEvent, EndRequest, TypeOK
  <2>2. evt'[Cur(w)] = "failed" /\ \A e \in Event \ {Cur(w)} : evt'[e] = evt[e]
    BY <1>t, <1>c, <2>1 DEF TypeOK
  <2>3. IsNotice(Cur(w)) => ~Recorded(Cur(w))
    BY <1>t, <2>1 DEF Records, Recorded
  <2>4. \A e \in Event : Recorded(e) => Recorded(e)'
    BY <2>2, <2>3 DEF Recorded, IsNotice
  <2> QED BY <2>1, <2>4, RecordsAssemble DEF Records
<1>9. CASE RegisterEvent(w)
  <2> DEFINE status == IF Kind[Cur(w)] = "UNSUPPORTED" THEN "unsupported" ELSE "pending"
  <2>1. /\ acked' = acked /\ pc[w] = "register" /\ pc'[w] \in {"load", "finish"} /\ Cur(w)' = Cur(w)
        /\ job'[w] = job[w] /\ pos'[w] = pos[w]
        /\ IsNotice(Cur(w)) => verdict'[w] = "processed"
    BY <1>t, <1>9 DEF RegisterEvent, IsNotice, Cur, TypeOK
  <2>2. evt[Cur(w)] \notin TerminalStatuses /\ Register(Cur(w), status)
    BY <1>9 DEF RegisterEvent
  <2>3. /\ evt'[Cur(w)] = IF evt[Cur(w)] = "absent" THEN status ELSE evt[Cur(w)]
        /\ \A e \in Event \ {Cur(w)} : evt'[e] = evt[e]
    BY <1>t, <1>c, <2>1, <2>2 DEF Register, TypeOK
  <2>4. evt'[Cur(w)] # "absent" /\ (IsNotice(Cur(w)) => evt'[Cur(w)] \notin TerminalStatuses)
    BY <2>2, <2>3 DEF IsNotice, TerminalStatuses
  <2>5. \A e \in Event : Recorded(e) => Recorded(e)'
    <3>1. evt[Cur(w)] # "absent" => evt'[Cur(w)] = evt[Cur(w)]
      BY <2>3
    <3> QED BY <2>3, <3>1 DEF Recorded, IsNotice
  <2>6. \A i \in 1..pos[w] : i < pos[w] => Recorded(EventsOf[job[w]][i])'
    <3> SUFFICES ASSUME NEW i \in 1..pos[w], i < pos[w] PROVE Recorded(EventsOf[job[w]][i])'
      OBVIOUS
    <3>1. PICK e \in Event : e = EventsOf[job[w]][i] /\ Recorded(e)
      BY <2>1, <1>b
    <3>2. Recorded(e)'
      BY <2>5, <3>1
    <3> QED BY <3>1, <3>2, <2>1 DEF Recorded, IsNotice
  <2>7. Records(w)'
    BY <2>1, <2>4, <2>6 DEF Records, Recorded, IsNotice
  <2> QED BY <2>1, <2>5, <2>7, RecordsAssemble
<1> QED BY <1>1, <1>2, <1>3, <1>4, <1>5, <1>6, <1>7, <1>8, <1>9, RecordShape

LEMMA RecordsStutter == RecordedInv /\ UNCHANGED vars => RecordedInv'
BY DEF vars, tables, world, local, RecordedInv, Records, Recorded, IsNotice, Cur

LEMMA RecordsNext ==
  OneRequest /\ SettlementInv /\ SettlementInv' /\ RecordedInv /\ [Next]_vars => RecordedInv'
<1> SUFFICES ASSUME OneRequest, SettlementInv, SettlementInv', RecordedInv, [Next]_vars
             PROVE  RecordedInv'
  OBVIOUS
<1>1. CASE UNCHANGED vars \/ Quiescent
  BY <1>1, RecordsStutter DEF Quiescent
<1>2. ASSUME NEW w \in Worker, Proceed(w) \/ Fail(w) \/ \E p \in Payload : Deliver(w, p)
      PROVE  RecordedInv'
  BY <1>2, RecordsStep
<1> QED BY <1>1, <1>2 DEF Next

\* Without overlap, every event of a payload that was answered 200 is in the
\* table, and each status and error of it is closed and stays so.
THEOREM RecordedInvariant == ASSUME OneRequest PROVE Spec => []RecordedInv
<1>1. Init => RecordedInv
  BY DEF Init, RecordedInv, Records
<1>2. SettlementInv /\ SettlementInv' /\ RecordedInv /\ [Next]_vars => RecordedInv'
  BY RecordsNext
<1> QED BY <1>1, <1>2, SettlementInvariant, PTL DEF Spec

-----------------------------------------------------------------------------
(* Of overlapping requests: whatever a request has passed is in the table. *)

Passed(w) ==
  pc[w] # "idle" =>
    \A i \in 1..pos[w] : i < pos[w] \/ pc[w] # "register" => evt[EventsOf[job[w]][i]] # "absent"

PassedInv ==
  /\ \A w \in Worker : Passed(w)
  /\ \A p \in acked : \A i \in 1..Len(EventsOf[p]) : evt[EventsOf[p][i]] # "absent"

\* Events stay in the table.
EventsStay == \A e \in Event : evt[e] # "absent" => evt'[e] # "absent"

LEMMA PassedAssemble ==
  ASSUME SettlementInv, PassedInv, NEW w \in Worker, EventsStay, OthersStay(w), Passed(w)',
         \A p \in acked' \ acked : \A i \in 1..Len(EventsOf[p]) : evt'[EventsOf[p][i]] # "absent"
  PROVE  PassedInv'
<1>1. ASSUME NEW p \in acked, NEW i \in 1..Len(EventsOf[p]) PROVE evt'[EventsOf[p][i]] # "absent"
  <2>1. p \in Payload
    BY DEF SettlementInv, TypeOK
  <2>2. EventsOf[p][i] \in Event /\ evt[EventsOf[p][i]] # "absent"
    BY <2>1, EventOfPayload DEF PassedInv
  <2> QED BY <2>2 DEF EventsStay
<1>2. ASSUME NEW v \in Worker, v # w PROVE Passed(v)'
  <2>1. pc'[v] = pc[v] /\ job'[v] = job[v] /\ pos'[v] = pos[v]
    BY <1>2 DEF OthersStay
  <2>2. ASSUME pc[v] # "idle", NEW i \in 1..pos[v], i < pos[v] \/ pc[v] # "register"
        PROVE  evt'[EventsOf[job[v]][i]] # "absent"
    <3>1. job[v] \in Payload /\ i \in 1..Len(EventsOf[job[v]])
      BY <2>2 DEF SettlementInv, Placed, TypeOK
    <3>2. EventsOf[job[v]][i] \in Event
      BY <3>1, EventOfPayload
    <3>3. evt[EventsOf[job[v]][i]] # "absent"
      BY <2>2 DEF PassedInv, Passed
    <3> QED BY <3>2, <3>3 DEF EventsStay
  <2> QED BY <2>1, <2>2 DEF Passed
<1>3. \A v \in Worker : Passed(v)'
  BY <1>2
<1> QED BY <1>1, <1>3 DEF PassedInv

LEMMA PassedStep ==
  ASSUME SettlementInv, SettlementInv', PassedInv, NEW w \in Worker,
         Proceed(w) \/ Fail(w) \/ \E p \in Payload : Deliver(w, p)
  PROVE  PassedInv'
<1> USE DEF tables, world, local, Goto, Finish
<1>t. TypeOK /\ TypeOK' /\ Placed(w) /\ Placed(w)' /\ KnowsSettled(w) /\ Passed(w)
  BY DEF SettlementInv, PassedInv
<1>o. OthersStay(w)
  BY RowShape DEF RowsStay
<1>u. evt' = evt => EventsStay
  BY DEF EventsStay
<1>c. pc[w] \notin {"idle", "next"} =>
        /\ Cur(w) \in Event /\ pos[w] \in 1..pos[w] /\ Cur(w) = EventsOf[job[w]][pos[w]]
        /\ \A i \in 1..pos[w] : (i < pos[w] \/ i = pos[w]) /\ EventsOf[job[w]][i] \in Event
  BY <1>t, SameEvent
\* A step that keeps the request at its event, which is in the table by then.
<1>k. ASSUME EventsStay, acked' = acked, pc[w] \notin {"idle", "next"},
             pc'[w] = "idle" \/ (job'[w] = job[w] /\ pos'[w] = pos[w] /\ evt'[Cur(w)] # "absent")
      PROVE  PassedInv'
  <2>1. ASSUME job'[w] = job[w], pos'[w] = pos[w], evt'[Cur(w)] # "absent", NEW i \in 1..pos[w]
        PROVE  evt'[EventsOf[job[w]][i]] # "absent"
    <3>1. CASE i < pos[w]
      BY <1>k, <1>t, <1>c, <3>1 DEF Passed, EventsStay
    <3>2. CASE i = pos[w]
      BY <1>k, <1>c, <2>1, <3>2
    <3> QED BY <1>k, <1>c, <3>1, <3>2
  <2>2. Passed(w)'
    BY <1>k, <2>1 DEF Passed
  <2> QED BY <1>k, <1>o, <2>2, PassedAssemble
<1>1. CASE GivesUp(w)
  BY <1>1, <1>o, <1>u, PassedAssemble DEF GivesUp, Passed
<1>2. CASE WorksOn(w)
  <2>1. evt[Cur(w)] # "absent"
    BY <1>t, <1>c, <1>2 DEF WorksOn, Passed
  <2> QED BY <1>2, <2>1, <1>k, <1>u DEF WorksOn
<1>3. ASSUME NEW p \in Payload, Deliver(w, p) PROVE PassedInv'
  <2>1. UNCHANGED <<evt, acked>> /\ pos'[w] = 0
    BY <1>t, <1>3 DEF Deliver, Placed, TypeOK
  <2> QED BY <2>1, <1>o, <1>u, PassedAssemble DEF Passed
<1>4. CASE NextEvent(w)
  <2>1. /\ UNCHANGED <<evt, acked>> /\ pc[w] = "next" /\ pc'[w] = "register" /\ job'[w] = job[w]
        /\ pos'[w] = pos[w] + 1 /\ pos[w] \in Nat
    BY <1>t, <1>4 DEF NextEvent, TypeOK
  <2>2. \A i \in 1..pos'[w] : i < pos'[w] => evt[EventsOf[job[w]][i]] # "absent"
    BY <1>t, <2>1 DEF Passed
  <2>3. Passed(w)'
    BY <2>1, <2>2 DEF Passed
  <2> QED BY <2>1, <2>3, <1>o, <1>u, PassedAssemble
<1>5. CASE Acknowledge(w)
  <2>1. /\ evt' = evt /\ acked' = acked \cup {job[w]} /\ pc'[w] = "idle"
        /\ pc[w] = "next" /\ pos[w] = Len(EventsOf[job[w]])
    BY <1>t, <1>5 DEF Acknowledge, EndRequest, TypeOK
  <2>2. \A i \in 1..Len(EventsOf[job[w]]) : evt[EventsOf[job[w]][i]] # "absent"
    BY <1>t, <2>1 DEF Passed
  <2> QED BY <2>1, <2>2, <1>o, <1>u, PassedAssemble DEF Passed
<1>6. CASE SkipDuplicateEvent(w)
  <2>1. /\ evt' = evt /\ acked' = acked /\ pc[w] = "register"
        /\ job'[w] = job[w] /\ pos'[w] = pos[w] /\ evt[Cur(w)] \in TerminalStatuses
    BY <1>t, <1>6 DEF SkipDuplicateEvent, TypeOK
  <2> QED BY <2>1, <1>k, <1>u DEF TerminalStatuses
<1>7. CASE MarkEvent(w) \/ MarkEventFailed(w)
  <2>1. \E s \in WebhookStatus : evt' = [evt EXCEPT ![Cur(w)] = s]
    BY <1>t, <1>7 DEF MarkEvent, MarkEventFailed, SetEvent, KnowsSettled, WebhookStatus
  <2>2. "absent" \notin WebhookStatus
    BY DEF WebhookStatus
  <2>3. EventsStay
    BY <1>t, <2>1, <2>2 DEF EventsStay, TypeOK
  <2>4. /\ acked' = acked /\ pc[w] \notin {"idle", "next"}
        /\ pc'[w] = "idle" \/ (job'[w] = job[w] /\ pos'[w] = pos[w])
    BY <1>t, <1>7 DEF MarkEvent, MarkEventFailed, EndRequest, TypeOK
  <2>5. evt'[Cur(w)] # "absent"
    BY <1>t, <1>c, <2>1, <2>2, <2>4 DEF TypeOK
  <2> QED BY <2>3, <2>4, <2>5, <1>k
<1>8. CASE RegisterEvent(w)
  <2> DEFINE status == IF Kind[Cur(w)] = "UNSUPPORTED" THEN "unsupported" ELSE "pending"
  <2>1. /\ acked' = acked /\ pc[w] = "register" /\ job'[w] = job[w] /\ pos'[w] = pos[w]
        /\ Register(Cur(w), status)
    BY <1>t, <1>8 DEF RegisterEvent, TypeOK
  <2>2. /\ evt'[Cur(w)] = IF evt[Cur(w)] = "absent" THEN status ELSE evt[Cur(w)]
        /\ \A e \in Event \ {Cur(w)} : evt'[e] = evt[e]
    BY <1>t, <1>c, <2>1 DEF Register, TypeOK
  <2>3. evt'[Cur(w)] # "absent" /\ EventsStay
    BY <2>2 DEF EventsStay
  <2> QED BY <2>1, <2>3, <1>k
<1> QED BY <1>1, <1>2, <1>3, <1>4, <1>5, <1>6, <1>7, <1>8, RecordShape

\* Every event of a payload that was answered 200 is in the table, however many
\* requests deal with it at once.
THEOREM PassedInvariant == Spec => []PassedInv
<1>1. Init => PassedInv
  BY DEF Init, PassedInv, Passed
<1>2. SettlementInv /\ SettlementInv' /\ PassedInv /\ [Next]_vars => PassedInv'
  <2> SUFFICES ASSUME SettlementInv, SettlementInv', PassedInv, [Next]_vars PROVE PassedInv'
    OBVIOUS
  <2>1. CASE UNCHANGED vars \/ Quiescent
    BY <2>1 DEF Quiescent, vars, tables, world, local, PassedInv, Passed
  <2> QED BY <2>1, PassedStep DEF Next
<1> QED BY <1>1, <1>2, SettlementInvariant, PTL DEF Spec

-----------------------------------------------------------------------------
(* The parser: no item of a valid payload is left out.                     *)

LEMMA ListsJoined ==
  ASSUME NEW T, NEW s \in Seq(T), NEW t \in Seq(T)
  PROVE  s \o t \in Seq(T) /\ Range(s) \subseteq Range(s \o t) /\ Range(t) \subseteq Range(s \o t)
<1>1. s \o t \in Seq(T) /\ Len(s \o t) = Len(s) + Len(t) /\ Len(s) \in Nat /\ Len(t) \in Nat
  BY ConcatProperties
<1>2. DOMAIN s = 1..Len(s) /\ DOMAIN t = 1..Len(t) /\ DOMAIN (s \o t) = 1..(Len(s) + Len(t))
  BY <1>1, LenProperties
<1>3. ASSUME NEW i \in 1..Len(s) PROVE s[i] \in Range(s \o t)
  <2>1. (s \o t)[i] = s[i] /\ i \in 1..(Len(s) + Len(t))
    BY <1>1, ConcatProperties
  <2> QED BY <1>2, <2>1 DEF Range
<1>4. ASSUME NEW i \in 1..Len(t) PROVE t[i] \in Range(s \o t)
  <2>1. (s \o t)[Len(s) + i] = t[i] /\ Len(s) + i \in 1..(Len(s) + Len(t))
    BY <1>1
  <2> QED BY <1>2, <2>1 DEF Range
<1> QED BY <1>1, <1>2, <1>3, <1>4 DEF Range

\* What FlattenSeq runs through.
FlattenStep(seqs, f, i) == IF i = 1 THEN seqs[i] ELSE f[i - 1] \o seqs[i]

LEMMA FlattenRecursion ==
  ASSUME NEW T, NEW seqs \in Seq(Seq(T)), Len(seqs) # 0
  PROVE  \E f : /\ FlattenSeq(seqs) = f[Len(seqs)]
                /\ \A i \in 1..Len(seqs) : f[i] = FlattenStep(seqs, f, i)
<1> DEFINE N == Len(seqs)
           g == [p \in (1..N) \X Seq(T) |-> p[2] \o seqs[p[1]]]
           rec == CHOOSE flatten : flatten = [i \in 1..N |-> IF i = 1 THEN seqs[i] ELSE flatten[i - 1] \o seqs[i]]
<1>1. N \in Nat \ {0} /\ <<>> \in Seq(T) /\ \A i \in 1..N : seqs[i] \in Seq(T)
  BY LenProperties, ElementOfSeq
<1>2. ASSUME NEW i \in 1..N, NEW d \in Seq(T) PROVE d \o seqs[i] \in Seq(T) /\ g[<<i, d>>] = d \o seqs[i]
  <2>1. d \o seqs[i] \in Seq(T)
    BY <1>1, ConcatProperties
  <2> QED BY <2>1
<1>3. Steps(N, Seq(T), <<>>, g)
  BY <1>1, <1>2 DEF Steps
<1>4. FlattenSeq(seqs) = rec[N]
  BY DEF FlattenSeq
<1> HIDE DEF N, g
<1>5. PICK f : Runs(f, N, Seq(T), <<>>, g)
  BY <1>3, RecursionExists
<1>6. ASSUME NEW i \in 1..N PROVE f[i] = IF i = 1 THEN seqs[i] ELSE f[i - 1] \o seqs[i]
  <2>1. f[0] = <<>> /\ f[i] = g[<<i, f[i - 1]>>] /\ f[i - 1] \in Seq(T)
    <3>1. i - 1 \in 0..N
      BY <1>1
    <3> QED BY <1>5, <3>1 DEF Runs
  <2>2. f[i] = f[i - 1] \o seqs[i]
    BY <1>2, <2>1
  <2>3. i = 1 => f[i - 1] \o seqs[i] = seqs[i]
    <3>1. \A s \in Seq(T) : <<>> \o s = s
      BY ConcatEmptySeq
    <3>2. i = 1 => f[i - 1] = <<>>
      BY <2>1
    <3> QED BY <1>1, <3>1, <3>2
  <2> QED BY <2>2, <2>3
<1> DEFINE h == [i \in 1..N |-> f[i]]
<1>7. h = [i \in 1..N |-> IF i = 1 THEN seqs[i] ELSE h[i - 1] \o seqs[i]]
  <2>1. ASSUME NEW i \in 1..N PROVE h[i] = IF i = 1 THEN seqs[i] ELSE h[i - 1] \o seqs[i]
    <3>1. i # 1 => i - 1 \in 1..N
      BY <1>1
    <3>2. h[i] = f[i] /\ (i # 1 => h[i - 1] = f[i - 1])
      BY <3>1
    <3> HIDE DEF h
    <3> QED BY <1>6, <3>2
  <2>2. h = [i \in 1..N |-> h[i]]
    OBVIOUS
  <2> HIDE DEF h
  <2> QED BY <2>1, <2>2
<1> HIDE DEF h
<1>8. rec = [i \in 1..N |-> IF i = 1 THEN seqs[i] ELSE rec[i - 1] \o seqs[i]]
  BY <1>7
<1> HIDE DEF rec
<1>9. \A i \in 1..N : rec[i] = FlattenStep(seqs, rec, i)
  BY <1>8 DEF FlattenStep
<1> QED BY <1>4, <1>9 DEF N

LEMMA ListsFlattened ==
  ASSUME NEW T, NEW seqs \in Seq(Seq(T))
  PROVE  /\ FlattenSeq(seqs) \in Seq(T)
         /\ \A i \in 1..Len(seqs) : Range(seqs[i]) \subseteq Range(FlattenSeq(seqs))
<1>1. CASE Len(seqs) = 0
  <2>1. FlattenSeq(seqs) = seqs /\ seqs = <<>>
    BY <1>1, EmptySeq DEF FlattenSeq
  <2> QED BY <1>1, <2>1, EmptySeq
<1>2. CASE Len(seqs) # 0
  <2> DEFINE N == Len(seqs)
  <2>1. N \in Nat \ {0} /\ \A i \in 1..N : seqs[i] \in Seq(T)
    BY <1>2, LenProperties, ElementOfSeq
  <2>2. PICK f : FlattenSeq(seqs) = f[N] /\ \A i \in 1..N : f[i] = FlattenStep(seqs, f, i)
    BY <1>2, FlattenRecursion
  <2> HIDE DEF N
  <2> DEFINE Done(n) == f[n] \in Seq(T) /\ \A i \in 1..n : Range(seqs[i]) \subseteq Range(f[n])
             Reached == { n \in Nat : n = 0 \/ n > N \/ Done(n) }
  <2>3. ASSUME NEW n \in Nat, n \in Reached PROVE n + 1 \in Reached
    <3>1. CASE n = 0
      <4>1. f[1] = seqs[1]
        BY <2>1, <2>2 DEF FlattenStep
      <4>2. Done(1)
        BY <2>1, <4>1
      <4> QED BY <3>1, <4>2
    <3>2. CASE n # 0 /\ n + 1 > N
      BY <3>2
    <3>3. CASE n # 0 /\ n + 1 <= N
      <4>1. Done(n) /\ n + 1 \in 1..N /\ (n + 1) - 1 = n /\ n + 1 # 1
        <5>1. n + 1 \in 1..N /\ (n + 1) - 1 = n /\ n + 1 # 1 /\ ~(n > N)
          BY <2>1, <3>3
        <5> HIDE DEF Done
        <5>2. Done(n)
          BY <2>3, <3>3, <5>1
        <5> QED BY <5>1, <5>2
      <4>2. f[n + 1] = f[n] \o seqs[n + 1]
        BY <2>2, <4>1 DEF FlattenStep
      <4>3. f[n] \in Seq(T) /\ seqs[n + 1] \in Seq(T)
        BY <2>1, <4>1
      <4>4. /\ f[n + 1] \in Seq(T) /\ Range(f[n]) \subseteq Range(f[n + 1])
            /\ Range(seqs[n + 1]) \subseteq Range(f[n + 1])
        BY <4>2, <4>3, ListsJoined
      <4>5. \A i \in 1..(n + 1) : i \in 1..n \/ i = n + 1
        OBVIOUS
      <4>6. Done(n + 1)
        BY <4>1, <4>4, <4>5
      <4> QED BY <4>6
    <3> QED BY <2>1, <3>1, <3>2, <3>3
  <2> HIDE DEF Done
  <2>4. N \in Reached
    BY <2>1, <2>3, SetInduction
  <2>5. Done(N)
    BY <2>1, <2>4
  <2> QED BY <2>2, <2>5 DEF Done, N
<1> QED BY <1>1, <1>2

\* What a change has to say.
Reported(entry, change) ==
  { MessageEvent(change.messages[i], change) : i \in DOMAIN change.messages }
  \cup { StatusEvent(change.statuses[i], change) : i \in DOMAIN change.statuses }
  \cup { ErrorEvent(entry, i - 1, change) : i \in 1..change.errors }

\* The lists of a change.
IsChange(change) == IsList(change.messages) /\ IsList(change.statuses) /\ change.errors \in Nat

\* F lists n values of T.
Lists(F, n, T) == n \in Nat /\ F = [ i \in 1..n |-> F[i] ] /\ \A i \in 1..n : F[i] \in T

LEMMA MappedList ==
  ASSUME NEW F, NEW n, NEW T, Lists(F, n, T)
  PROVE  F \in Seq(T) /\ Range(F) = { F[i] : i \in 1..n }
<1>1. n \in Nat /\ F = [ i \in 1..n |-> F[i] ] /\ \A i \in 1..n : F[i] \in T
  BY DEF Lists
<1>2. F \in [1..n -> T] /\ DOMAIN F = 1..n
  BY <1>1
<1>3. F \in Seq(T)
  BY <1>1, <1>2, SeqDef
<1> QED BY <1>2, <1>3 DEF Range

LEMMA ChangeReports ==
  ASSUME NEW entry, NEW change, IsChange(change)
  PROVE  /\ ChangeEvents(entry, change) \in Seq(Reported(entry, change))
         /\ Reported(entry, change) \subseteq Range(ChangeEvents(entry, change))
<1> DEFINE T == Reported(entry, change)
           ms == [ i \in DOMAIN change.messages |-> MessageEvent(change.messages[i], change) ]
           ss == [ i \in DOMAIN change.statuses |-> StatusEvent(change.statuses[i], change) ]
           es == [ i \in 1..change.errors |-> ErrorEvent(entry, i - 1, change) ]
<1>1. /\ DOMAIN change.messages = 1..Len(change.messages) /\ Len(change.messages) \in Nat
      /\ DOMAIN change.statuses = 1..Len(change.statuses) /\ Len(change.statuses) \in Nat
      /\ change.errors \in Nat
  BY LenProperties DEF IsChange, IsList
<1>2. /\ \A i \in DOMAIN change.messages : ms[i] \in T
      /\ \A i \in DOMAIN change.statuses : ss[i] \in T
      /\ \A i \in 1..change.errors : es[i] \in T
  BY DEF Reported
<1>3. ms \in Seq(T) /\ Range(ms) = { ms[i] : i \in DOMAIN change.messages }
  <2>1. Lists(ms, Len(change.messages), T)
    BY <1>1, <1>2 DEF Lists
  <2> HIDE DEF ms, T
  <2> QED BY <1>1, <2>1, MappedList
<1>4. ss \in Seq(T) /\ Range(ss) = { ss[i] : i \in DOMAIN change.statuses }
  <2>1. Lists(ss, Len(change.statuses), T)
    BY <1>1, <1>2 DEF Lists
  <2> HIDE DEF ss, T
  <2> QED BY <1>1, <2>1, MappedList
<1>5. es \in Seq(T) /\ Range(es) = { es[i] : i \in 1..change.errors }
  <2>1. Lists(es, change.errors, T)
    BY <1>1, <1>2 DEF Lists
  <2> HIDE DEF es, T
  <2> QED BY <1>1, <2>1, MappedList
<1>6. T = Range(ms) \cup Range(ss) \cup Range(es)
  BY <1>3, <1>4, <1>5 DEF Reported
<1>7. ChangeEvents(entry, change) = (ms \o ss) \o es
  BY DEF ChangeEvents
<1> HIDE DEF ms, ss, es, T
<1>8. /\ ms \o ss \in Seq(T) /\ Range(ms) \subseteq Range(ms \o ss)
      /\ Range(ss) \subseteq Range(ms \o ss)
  BY <1>3, <1>4, ListsJoined
<1> DEFINE front == ms \o ss
<1> HIDE DEF front
<1>9. /\ front \o es \in Seq(T) /\ Range(front) \subseteq Range(front \o es)
      /\ Range(es) \subseteq Range(front \o es)
  BY <1>5, <1>8, ListsJoined DEF front
<1> QED BY <1>6, <1>7, <1>8, <1>9 DEF front, T

\* A list is one of the values it contains, and of any set they are in.
LEMMA ListWiden ==
  ASSUME NEW S, NEW s \in Seq(S), NEW T, S \subseteq T
  PROVE  s \in Seq(T)
BY SeqDef

\* Joined, lists are a list of what each of them contains.
LEMMA PartsJoined ==
  ASSUME NEW seqs, NEW n, NEW T, Lists(seqs, n, Seq(T))
  PROVE  /\ FlattenSeq(seqs) \in Seq(T)
         /\ \A i \in 1..n : Range(seqs[i]) \subseteq Range(FlattenSeq(seqs))
<1>1. seqs \in Seq(Seq(T))
  BY MappedList
<1>2. n \in Nat /\ DOMAIN seqs = 1..n
  BY DEF Lists
<1>3. Len(seqs) = n
  BY <1>1, <1>2, LenProperties
<1> QED BY <1>1, <1>3, ListsFlattened

\* What the changes of an entry that are ours have to say.
EntryReports(entry) ==
  UNION { Reported(entry, entry.changes[i]) : i \in Recognized(entry.changes) }

IsEntry(entry) == IsList(entry.changes) /\ \A i \in DOMAIN entry.changes : IsChange(entry.changes[i])

LEMMA EntryFindsAll ==
  ASSUME NEW entry, IsEntry(entry)
  PROVE  /\ EntryEvents(entry) \in Seq(EntryReports(entry))
         /\ EntryReports(entry) \subseteq Range(EntryEvents(entry))
<1> DEFINE T == EntryReports(entry)
           ours == Recognized(entry.changes)
           n == Len(entry.changes)
           parts == [ i \in DOMAIN entry.changes |->
                        IF i \in ours THEN ChangeEvents(entry, entry.changes[i]) ELSE <<>> ]
<1>1. n \in Nat /\ DOMAIN entry.changes = 1..n /\ ours \subseteq 1..n
  BY LenProperties DEF IsEntry, IsList, Recognized
<1>2. ASSUME NEW i \in ours
      PROVE  /\ ChangeEvents(entry, entry.changes[i]) \in Seq(T)
             /\ Reported(entry, entry.changes[i]) \subseteq Range(ChangeEvents(entry, entry.changes[i]))
  <2>1. IsChange(entry.changes[i])
    BY <1>1, <1>2 DEF IsEntry
  <2>2. Reported(entry, entry.changes[i]) \subseteq T
    BY <1>2 DEF EntryReports
  <2> QED BY <2>1, <2>2, ChangeReports, ListWiden
<1>3. EntryEvents(entry) = FlattenSeq(parts)
  BY DEF EntryEvents
<1>4. \A i \in 1..n : parts[i] = IF i \in ours THEN ChangeEvents(entry, entry.changes[i]) ELSE <<>>
  BY <1>1
<1>5. parts = [ i \in 1..n |-> parts[i] ]
  BY <1>1
<1> HIDE DEF T, ours, n, parts
<1>6. Lists(parts, n, Seq(T))
  <2>1. \A i \in 1..n : parts[i] \in Seq(T)
    BY <1>2, <1>4, EmptySeq
  <2> QED BY <1>1, <1>5, <2>1 DEF Lists
<1>7. FlattenSeq(parts) \in Seq(T) /\ \A i \in 1..n : Range(parts[i]) \subseteq Range(FlattenSeq(parts))
  BY <1>6, PartsJoined
<1>8. ASSUME NEW i \in ours PROVE Reported(entry, entry.changes[i]) \subseteq Range(FlattenSeq(parts))
  BY <1>1, <1>2, <1>4, <1>7
<1>9. T \subseteq Range(FlattenSeq(parts))
  BY <1>8 DEF T, ours, EntryReports
<1> QED BY <1>3, <1>7, <1>9 DEF T

\* Everything the changes of a valid payload that are ours have to say is
\* among its events.
LEMMA ParserFindsAll ==
  ASSUME NEW raw, IsBody(raw), Valid(raw)
  PROVE  /\ Len(Parse(raw)) \in Nat /\ DOMAIN Parse(raw) = 1..Len(Parse(raw))
         /\ \A i \in DOMAIN raw : EntryReports(raw[i]) \subseteq Range(Parse(raw))
<1> DEFINE T == UNION { EntryReports(raw[i]) : i \in DOMAIN raw }
           n == Len(raw)
           parts == [ i \in DOMAIN raw |-> EntryEvents(raw[i]) ]
<1>1. n \in Nat /\ DOMAIN raw = 1..n
  BY LenProperties DEF IsBody, IsList
<1>2. ASSUME NEW i \in 1..n
      PROVE  EntryEvents(raw[i]) \in Seq(T) /\ EntryReports(raw[i]) \subseteq Range(EntryEvents(raw[i]))
  <2>1. IsEntry(raw[i])
    BY <1>1, <1>2 DEF IsBody, IsEntry, IsChange
  <2>2. EntryReports(raw[i]) \subseteq T
    BY <1>1, <1>2
  <2> HIDE DEF T
  <2> QED BY <2>1, <2>2, EntryFindsAll, ListWiden
<1>3. Parse(raw) = FlattenSeq(parts)
  BY DEF Parse
<1>4. parts = [ i \in 1..n |-> parts[i] ] /\ \A i \in 1..n : parts[i] = EntryEvents(raw[i])
  BY <1>1
<1> HIDE DEF T, n, parts
<1>5. Lists(parts, n, Seq(T))
  BY <1>1, <1>2, <1>4 DEF Lists
<1>6. FlattenSeq(parts) \in Seq(T) /\ \A i \in 1..n : Range(parts[i]) \subseteq Range(FlattenSeq(parts))
  BY <1>5, PartsJoined
<1> QED BY <1>1, <1>2, <1>3, <1>4, <1>6, LenProperties

-----------------------------------------------------------------------------
(* The parser and the pipeline together.                                   *)

LEMMA ItemHasEvent ==
  ASSUME NEW p \in Payload, Valid(Raw[p]), NEW found \in ChangesOf(p),
         NEW event \in Reported(found[1], found[2])
  PROVE  /\ \E k \in 1..Len(EventsOf[p]) : EventsOf[p][k] = event.event_id
         /\ event.event_id \in Event /\ Kind[event.event_id] = event.kind
         /\ event.kind = "MESSAGE" => (event.event_id \in Incomplete <=> ~Complete(event))
<1> DEFINE events == Parse(Raw[p])
<1>0. PICK i \in DOMAIN Raw[p] : \E j \in DOMAIN Raw[p][i].changes :
             found = <<Raw[p][i], Raw[p][i].changes[j]>> /\ Ours(found[2])
  BY DEF ChangesOf
<1>1. PICK j \in DOMAIN Raw[p][i].changes :
             found = <<Raw[p][i], Raw[p][i].changes[j]>> /\ Ours(found[2])
  BY <1>0
<1>2. event \in EntryReports(Raw[p][i])
  BY <1>1 DEF EntryReports, Recognized
<1>3. IsBody(Raw[p])
  BY IntakeAssumption
<1>4. Len(events) \in Nat /\ DOMAIN events = 1..Len(events) /\ event \in Range(events)
  BY <1>2, <1>3, ParserFindsAll
<1> HIDE DEF events
<1>5. PICK k \in 1..Len(events) : events[k] = event
  BY <1>4 DEF Range
<1>6. EventsOf[p] = [ n \in 1..Len(events) |-> events[n].event_id ]
  BY <1>4, IntakeAssumption DEF ParsedEvents, EventIds, events
<1>7. k \in 1..Len(EventsOf[p]) /\ EventsOf[p][k] = event.event_id
  <2>1. EventsOf[p] \in Seq(Event) /\ DOMAIN EventsOf[p] = 1..Len(events)
    BY <1>6, PipelineAssumption
  <2>2. Len(EventsOf[p]) = Len(events)
    BY <1>4, <2>1, LenProperties
  <2> QED BY <1>5, <1>6, <2>2
<1>8. event.event_id \in Event
  BY <1>7, EventOfPayload
<1>9. /\ Kind[event.event_id] = event.kind
      /\ event.kind = "MESSAGE" => (event.event_id \in Incomplete <=> ~Complete(event))
  BY <1>4, <1>5, IntakeAssumption DEF events
<1> QED BY <1>7, <1>8, <1>9

\* A message among the items of a payload, and what of it is expected.
LEMMA MessageHasEvent ==
  ASSUME NEW p \in Payload, Valid(Raw[p]), NEW found \in ChangesOf(p), NEW m \in Messages(found[2])
  PROVE  /\ \E k \in 1..Len(EventsOf[p]) : EventsOf[p][k] = m.id
         /\ m.type \in SupportedTypes /\ m.from # None /\ found[2].phone # None => NeedsReply(m.id)
<1> DEFINE event == MessageEvent(m, found[2])
<1>1. event \in Reported(found[1], found[2])
  BY DEF Messages, Reported
<1>2. /\ event.event_id = m.id /\ event.sender_id = m.from /\ event.phone_number_id = found[2].phone
      /\ m.type \in SupportedTypes => event.kind = "MESSAGE"
  BY DEF MessageEvent
<1> HIDE DEF event
<1>3. /\ \E k \in 1..Len(EventsOf[p]) : EventsOf[p][k] = event.event_id
      /\ event.event_id \in Event /\ Kind[event.event_id] = event.kind
      /\ event.kind = "MESSAGE" => (event.event_id \in Incomplete <=> ~Complete(event))
  BY <1>1, ItemHasEvent
<1> QED BY <1>2, <1>3 DEF NeedsReply, Complete

\* Wherever it stands in a payload that was answered 200, a message is
\* answered, refused or on record, however many requests overlap.
THEOREM EveryMessageIsAccountedFor == Spec => []MessagesAccounted
<1>1. SettlementInv /\ PassedInv => MessagesAccounted
  <2> SUFFICES ASSUME SettlementInv, PassedInv, NEW p \in acked, Valid(Raw[p]),
                      NEW found \in ChangesOf(p), NEW m \in Messages(found[2])
               PROVE  /\ evt[m.id] # "absent"
                      /\ m.type \in SupportedTypes /\ m.from # None /\ found[2].phone # None =>
                           accepted[m.id] > 0 \/ m.id \in rejected
    BY DEF MessagesAccounted
  <2>1. p \in Payload
    BY DEF SettlementInv, TypeOK
  <2>2. PICK k \in 1..Len(EventsOf[p]) : EventsOf[p][k] = m.id
    BY <2>1, MessageHasEvent
  <2>3. k \in DOMAIN EventsOf[p]
    <3>1. EventsOf[p] \in Seq(Event)
      BY <2>1, PipelineAssumption
    <3> QED BY <3>1, LenProperties
  <2>4. evt[m.id] # "absent" /\ Settled(m.id)
    <3>1. evt[EventsOf[p][k]] # "absent" /\ Settled(EventsOf[p][k])
      BY <2>3 DEF PassedInv, SettlementInv, NoSilentLoss
    <3> QED BY <2>2, <3>1
  <2> QED BY <2>1, <2>4, MessageHasEvent DEF Settled
<1> QED BY <1>1, PassedInvariant, SettlementInvariant, PTL

\* Without overlap, nothing in a payload that was answered 200 is overlooked:
\* its statuses and errors are closed too.
THEOREM EveryItemIsAccountedFor == ASSUME OneRequest PROVE Spec => []EveryItemAccounted
<1>1. SettlementInv /\ RecordedInv => NoticesAccounted
  <2> SUFFICES ASSUME SettlementInv, RecordedInv, NEW p \in acked, Valid(Raw[p]),
                      NEW found \in ChangesOf(p)
               PROVE  /\ \A s \in Statuses(found[2]) : evt[StatusId(s)] \in TerminalStatuses
                      /\ \A i \in 0..(found[2].errors - 1) : evt[ErrorId(found[1], i)] \in TerminalStatuses
    BY DEF NoticesAccounted
  <2> DEFINE entry == found[1]
             change == found[2]
  <2>p. p \in Payload
    BY DEF SettlementInv, TypeOK
  <2>r. ASSUME NEW event \in Reported(entry, change)
        PROVE  Recorded(event.event_id) /\ Kind[event.event_id] = event.kind
    <3>1. PICK k \in 1..Len(EventsOf[p]) : EventsOf[p][k] = event.event_id
      BY <2>p, <2>r, ItemHasEvent
    <3>2. Recorded(EventsOf[p][k])
      BY DEF RecordedInv
    <3> QED BY <2>p, <2>r, <3>1, <3>2, ItemHasEvent
  <2>1. ASSUME NEW s \in Statuses(change)
        PROVE  evt[StatusId(s)] \in TerminalStatuses
    <3> DEFINE event == StatusEvent(s, change)
    <3>1. event \in Reported(entry, change)
      BY DEF Statuses, Reported
    <3>2. event.event_id = StatusId(s) /\ event.kind = "STATUS"
      BY DEF StatusEvent
    <3> HIDE DEF event, entry, change
    <3> QED BY <2>r, <3>1, <3>2 DEF Recorded, IsNotice
  <2>2. ASSUME NEW i \in 0..(change.errors - 1)
        PROVE  evt[ErrorId(entry, i)] \in TerminalStatuses
    <3> DEFINE event == ErrorEvent(entry, i, change)
    <3>0. change.errors \in Nat
      BY <2>p, IntakeAssumption DEF ChangesOf, IsBody
    <3>1. event \in Reported(entry, change)
      <4>1. i + 1 \in 1..change.errors /\ (i + 1) - 1 = i
        BY <3>0
      <4> QED BY <4>1 DEF Reported
    <3>2. event.event_id = ErrorId(entry, i) /\ event.kind = "UNKNOWN"
      BY DEF ErrorEvent
    <3> HIDE DEF event, entry, change
    <3> QED BY <2>r, <3>1, <3>2 DEF Recorded, IsNotice
  <2> QED BY <2>1, <2>2
<1> QED BY <1>1, RecordedInvariant, SettlementInvariant, EveryMessageIsAccountedFor, PTL
        DEF EveryItemAccounted
=============================================================================
