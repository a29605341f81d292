----------------------------- MODULE WebhookIntake -----------------------------
(***************************************************************************)
(* The pipeline on raw payloads: WebhookPipeline whose events, kinds and   *)
(* incomplete messages are what WebhookParser makes of the payloads.       *)
(***************************************************************************)
EXTENDS WebhookPipeline, WebhookParser

CONSTANT Raw     \* the body of each payload

EventIds(events) == [ i \in DOMAIN events |-> events[i].event_id ]

\* handle_webhook_payload works on the events of the parser.
ParsedEvents == [ p \in Payload |-> EventIds(Parse(Raw[p])) ]

ASSUME IntakeAssumption ==
  /\ \A p \in Payload : IsBody(Raw[p])
  /\ EventsOf = ParsedEvents
  /\ \A p \in Payload : \A i \in DOMAIN Parse(Raw[p]) :
       LET event == Parse(Raw[p])[i]
       IN  /\ Kind[event.event_id] = event.kind
           /\ event.kind = "MESSAGE" => (event.event_id \in Incomplete <=> ~Complete(event))

-----------------------------------------------------------------------------
\* What the payload reports, in any change that is about messages.
ChangesOf(p) ==
  { change \in UNION { { <<Raw[p][i], Raw[p][i].changes[j]>> : j \in DOMAIN Raw[p][i].changes }
                       : i \in DOMAIN Raw[p] } : Ours(change[2]) }

Messages(change) == { change.messages[i] : i \in DOMAIN change.messages }
Statuses(change) == { change.statuses[i] : i \in DOMAIN change.statuses }

\* No message in a payload that was answered 200 is overlooked, wherever in
\* its entries and changes it stands: a text message with a sender and a phone
\* number is answered or refused, and every other message is on record
\* (parser.py parse_webhook_payload, inbound.py handle_webhook_payload).
MessagesAccounted ==
  \A p \in acked : Valid(Raw[p]) =>
    \A found \in ChangesOf(p) : \A m \in Messages(found[2]) :
      /\ evt[m.id] # "absent"
      /\ m.type \in SupportedTypes /\ m.from # None /\ found[2].phone # None =>
           accepted[m.id] > 0 \/ m.id \in rejected

\* Nor is a status or an error, each of which is recorded and closed.
NoticesAccounted ==
  \A p \in acked : Valid(Raw[p]) =>
    \A found \in ChangesOf(p) :
      /\ \A s \in Statuses(found[2]) : evt[StatusId(s)] \in TerminalStatuses
      /\ \A i \in 0..(found[2].errors - 1) : evt[ErrorId(found[1], i)] \in TerminalStatuses

\* Nothing in a payload that was answered 200 is overlooked.  The exception is
\* a payload with one malformed item, which is answered 200 and dropped as a
\* whole.
EveryItemAccounted == MessagesAccounted /\ NoticesAccounted
=============================================================================
