--------------------------- MODULE AtLeastOnceReply ---------------------------
(***************************************************************************)
(* What the webhook promises Meta and its users, without saying how: a     *)
(* payload is acknowledged only when every message in it has been answered *)
(* at least once, or has been refused by the bot.  Nothing that was        *)
(* answered, refused or acknowledged is ever taken back.                   *)
(***************************************************************************)
CONSTANTS Payload, Message, MessagesOf

VARIABLES answered, refused, acked
vars == <<answered, refused, acked>>

Init == answered = {} /\ refused = {} /\ acked = {}

Answer(m) == answered' = answered \cup {m} /\ UNCHANGED <<refused, acked>>

Refuse(m) == refused' = refused \cup {m} /\ UNCHANGED <<answered, acked>>

Acknowledge(p) ==
  /\ MessagesOf[p] \subseteq answered \cup refused
  /\ acked' = acked \cup {p}
  /\ UNCHANGED <<answered, refused>>

Next ==
  \/ \E m \in Message : Answer(m) \/ Refuse(m)
  \/ \E p \in Payload : Acknowledge(p)

Spec == Init /\ [][Next]_vars
=============================================================================
