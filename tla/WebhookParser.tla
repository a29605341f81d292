----------------------------- MODULE WebhookParser -----------------------------
(***************************************************************************)
(* parse_webhook_payload: the events in a payload as Meta sends it.        *)
(*                                                                         *)
(* A raw payload is a sequence of entries, an entry an id and a sequence   *)
(* of changes.  A change has a field, the phone number of its metadata     *)
(* (or None), messages, statuses, and a number of errors; it is sound when *)
(* every item in it has what the schema demands.  An event is its id, its  *)
(* kind, its sender and the phone number; ids of statuses and errors are   *)
(* tuples where the code formats strings.                                  *)
(*                                                                         *)
(* A definition marked as a seeded error is used by no other.              *)
(***************************************************************************)
EXTENDS Naturals, Sequences, SequencesExt

\* No value, or an empty string: _phone_number_id and to_internal_message
\* take the two for the same.
None == "none"

\* The shape of a body: its entries, their changes and the items are lists.
IsList(s) == s \in Seq(Range(s))
IsBody(raw) ==
  /\ IsList(raw)
  /\ \A i \in DOMAIN raw :
       /\ IsList(raw[i].changes)
       /\ \A j \in DOMAIN raw[i].changes :
            LET change == raw[i].changes[j]
            IN  IsList(change.messages) /\ IsList(change.statuses) /\ change.errors \in Nat

\* MetaWebhookPayload.model_validate: all or nothing.
Valid(raw) == \A i \in DOMAIN raw : \A j \in DOMAIN raw[i].changes : raw[i].changes[j].sound

StatusId(status) == <<"status", status.id, status.status>>
ErrorId(entry, index) == <<"error", entry.id, index>>

SupportedTypes == {"text"}

MessageEvent(message, change) ==
  [ event_id |-> message.id, sender_id |-> message.from, phone_number_id |-> change.phone,
    kind |-> IF message.type \in SupportedTypes THEN "MESSAGE" ELSE "UNSUPPORTED" ]

StatusEvent(status, change) ==
  [ event_id |-> StatusId(status), sender_id |-> status.recipient,
    phone_number_id |-> change.phone, kind |-> "STATUS" ]

ErrorEvent(entry, index, change) ==
  [ event_id |-> ErrorId(entry, index), sender_id |-> None,
    phone_number_id |-> change.phone, kind |-> "UNKNOWN" ]

ChangeEvents(entry, change) ==
  [ i \in DOMAIN change.messages |-> MessageEvent(change.messages[i], change) ]
  \o [ i \in DOMAIN change.statuses |-> StatusEvent(change.statuses[i], change) ]
  \o [ i \in 1..change.errors |-> ErrorEvent(entry, i - 1, change) ]

\* Changes of another field are skipped.  (UpToForeign: seeded error, they
\* end the entry.)
Ours(change) == change.field = "messages"
UpToForeign(changes) == { i \in DOMAIN changes : \A j \in 1..i : Ours(changes[j]) }
Recognized(changes) == { i \in DOMAIN changes : Ours(changes[i]) }

EntryEvents(entry) ==
  FlattenSeq([ i \in DOMAIN entry.changes |->
                 IF i \in Recognized(entry.changes) THEN ChangeEvents(entry, entry.changes[i]) ELSE <<>> ])

\* A payload that is not valid has no events, and is answered 200 all the
\* same (handle_webhook_payload catches MessageParsingError).
Parse(raw) == IF Valid(raw) THEN FlattenSeq([ i \in DOMAIN raw |-> EntryEvents(raw[i]) ]) ELSE <<>>

\* to_internal_message accepts the event.
Complete(event) == event.sender_id # None /\ event.phone_number_id # None
=============================================================================
