--------------------------- MODULE MCWebhookPipeline ---------------------------
(* Instances of WebhookIntake for TLC: raw payloads and what they contain.  *)
EXTENDS WebhookIntake, TLC

CONSTANTS m1, m2, m3,    \* text messages
          u1, x1,        \* an unsupported message, an incomplete one
          n1,            \* a message without a type
          p1, p2, p3,    \* payloads
          e1,            \* the business account an entry is about
          c1             \* conversation

Message(id, type) == [id |-> id, from |-> c1, type |-> type]
Text(id) == Message(id, "text")

Change(phone, messages, statuses, errors) ==
  [field |-> "messages", sound |-> TRUE, phone |-> phone,
   messages |-> messages, statuses |-> statuses, errors |-> errors]
Entry(changes) == [id |-> e1, changes |-> changes]

Read == [id |-> m1, status |-> "read", recipient |-> c1]
OtherField == [Change(None, <<>>, <<>>, 0) EXCEPT !.field = "account_update"]
Malformed == [Change(e1, <<Text(m2), Message(n1, None)>>, <<>>, 0) EXCEPT !.sound = FALSE]

\* Each message in a payload of its own.
Single(m) == <<Entry(<<Change(e1, <<Text(m)>>, <<>>, 0)>>)>>
Singles == [p \in Payload |-> Single(CASE p = p1 -> m1 [] p = p2 -> m2 [] p = p3 -> m3)]

\* Messages, a status and an error in one change; then a batch that begins
\* with an incomplete message and a change that is none of ours, and repeats
\* a message; and one with a malformed item.
Batches ==
  [p \in Payload |->
     CASE p = p1 -> <<Entry(<<Change(e1, <<Text(m1), Message(u1, "image")>>, <<Read>>, 1)>>)>>
       [] p = p2 -> <<Entry(<<Change(None, <<Text(x1)>>, <<>>, 0), OtherField,
                              Change(e1, <<Text(m1), Text(m2)>>, <<>>, 0)>>)>>
       [] p = p3 -> <<Entry(<<Malformed>>)>>]
BatchEvents == {m1, m2, u1, x1, StatusId(Read), ErrorId([id |-> e1], 0)}

MCKind == (m1 :> "MESSAGE") @@ (m2 :> "MESSAGE") @@ (m3 :> "MESSAGE") @@ (x1 :> "MESSAGE")
          @@ (u1 :> "UNSUPPORTED") @@ (StatusId(Read) :> "STATUS")
          @@ (ErrorId([id |-> e1], 0) :> "UNKNOWN")
KindOf == [e \in Event |-> MCKind[e]]

\* ParsedEvents as a table: TLC parses each payload once.
EventTable == FoldSet(LAMBDA p, table : (p :> ParsedEvents[p]) @@ table, <<>>, Payload)

\* One user: all messages in one conversation.
OneUser == [e \in Event |-> c1]

DemoTexts == {"demo", "words", "yes", "no", "cancel"}
RaceTexts == {"demo", "words", "cancel"}
BatchTexts == {"demo", "words", "no"}

WorkerSymmetry == Permutations(Worker)
=============================================================================
