----------------------------- MODULE AtomicIdentity -----------------------------
(***************************************************************************)
(* What register_inbound's transaction promises, without saying how: a     *)
(* message is registered once, in one step with whatever its sender still  *)
(* lacks (phone number, contact, conversation, session), and nothing that  *)
(* is registered ever disappears.                                          *)
(***************************************************************************)
CONSTANTS Message, UserOf

VARIABLES provisioned, contacts, conversations, sessions, messages
vars == <<provisioned, contacts, conversations, sessions, messages>>

Init ==
  /\ provisioned = FALSE
  /\ contacts = {} /\ conversations = {} /\ sessions = {} /\ messages = {}

Register(m) ==
  /\ m \notin messages
  /\ messages' = messages \cup {m}
  /\ provisioned' = TRUE
  /\ contacts' = contacts \cup {UserOf[m]}
  /\ conversations' = conversations \cup {UserOf[m]}
  /\ sessions' = sessions \cup {UserOf[m]}

Next == \E m \in Message : Register(m)

Spec == Init /\ [][Next]_vars
=============================================================================
