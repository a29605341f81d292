------------------------------- MODULE BotEngine -------------------------------
(***************************************************************************)
(* The deterministic bot: command registry, router, demo-flow handlers and *)
(* the conversation state machine, as operators.                           *)
(*                                                                         *)
(* A text is abstracted to what the router and the handlers can tell       *)
(* apart.  The four command kinds stand for every text whose first token,  *)
(* lower-cased and with one optional leading "/", is that command          *)
(* (so "start over" and "/START" are both "start", and "1" is "demo").     *)
(* The other kinds are:                                                    *)
(*   cancel, yes, no  the whole stripped text is that word ("y", "n" too)  *)
(*   words            any other text without a leading "/"                 *)
(*   slashWord        "/" followed by a token that is no command           *)
(*   slash            "/" alone: split()[0] raises IndexError              *)
(*   blank            white space only                                     *)
(*   absent           the event carries no text, or an empty one           *)
(***************************************************************************)

ConversationState ==
  {"MAIN_MENU", "DEMO_FLOW", "DEMO_COLLECTING", "DEMO_CONFIRMATION", "COMPLETED"}

AllowedTransitions ==
  [ MAIN_MENU         |-> {"MAIN_MENU", "DEMO_FLOW"},
    DEMO_FLOW         |-> {"DEMO_CONFIRMATION", "MAIN_MENU"},
    DEMO_COLLECTING   |-> {"DEMO_CONFIRMATION", "MAIN_MENU"},
    DEMO_CONFIRMATION |-> {"COMPLETED", "DEMO_COLLECTING", "MAIN_MENU"},
    COMPLETED         |-> {"MAIN_MENU"} ]

\* state_data is {} or {"demo_name": ...}
StateData == {"empty", "named"}
Session == [state : ConversationState, data : StateData]
NewSession == [state |-> "MAIN_MENU", data |-> "empty"]

CommandName == {"start", "help", "menu", "demo"}
FreeText == {"cancel", "yes", "no", "words", "blank"}
TextKind == CommandName \cup FreeText \cup {"slashWord", "slash", "absent"}

-----------------------------------------------------------------------------
(* A HandlerResult: the reply and, where the handler sets them, the next   *)
(* state and data.  "keep" is Python's None.                               *)

Replies(reply) == [reply |-> reply, next |-> "keep", data |-> "keep"]
MovesTo(reply, next, data) == [reply |-> reply, next |-> next, data |-> data]

CommandHandler ==
  [ start |-> MovesTo("WELCOME", "MAIN_MENU", "empty"),
    help  |-> Replies("HELP"),
    menu  |-> Replies("MENU"),
    demo  |-> MovesTo("DEMO_FLOW_START", "DEMO_FLOW", "empty") ]

DemoCancelled == MovesTo("DEMO_FLOW_CANCELLED", "MAIN_MENU", "empty")

\* DemoFlowHandler while it waits for a name.
DemoFlow(text) ==
  CASE text = "cancel" -> DemoCancelled
    [] text = "blank"  -> Replies("DEMO_FLOW_INVALID")
    [] OTHER           -> MovesTo("DEMO_FLOW_COLLECTED", "DEMO_CONFIRMATION", "named")

\* DemoFlowHandler while it waits for yes or no.
DemoConfirmation(text) ==
  CASE text = "cancel" -> DemoCancelled
    [] text = "yes"    -> MovesTo("DEMO_FLOW_CONFIRMED", "MAIN_MENU", "empty")
    [] text = "no"     -> MovesTo("DEMO_FLOW_START", "DEMO_FLOW", "empty")
    [] OTHER           -> Replies("DEMO_FLOW_CONFIRM_INVALID")

\* BotRouter.route: a command in any state, then unknown commands, then the
\* handler of the state, then the default handler (canned text or AI reply).
Route(text, state) ==
  CASE text \in CommandName          -> CommandHandler[text]
    [] text = "slashWord"            -> Replies("UNKNOWN_COMMAND")
    [] text \in FreeText /\ state = "DEMO_FLOW"         -> DemoFlow(text)
    [] text \in FreeText /\ state = "DEMO_CONFIRMATION" -> DemoConfirmation(text)
    [] OTHER                         -> Replies("DEFAULT")

Or(value, default) == IF value = "keep" THEN default ELSE value

\* (Seeded error: the state machine is not asked.)
TransitionUnchecked(s, result) ==
  [ allowed |-> TRUE,
    reply   |-> result.reply,
    session |-> [state |-> Or(result.next, s.state), data |-> Or(result.data, s.data)] ]

\* BotEngine._apply_state_transition: only a change of state is validated.
Transition(s, result) ==
  LET next == Or(result.next, s.state)
  IN  [ allowed |-> next = s.state \/ next \in AllowedTransitions[s.state],
        reply   |-> result.reply,
        session |-> [state |-> next, data |-> Or(result.data, s.data)] ]

\* What the message processor gets back for one message: the reply to send
\* and the session to persist, or a refusal (InvalidConversationStateError).
\* A message without text and a handler that raises both fall back to the
\* default reply with the session as it was.
Process(text, s) ==
  IF text \in {"absent", "slash"}
  THEN [allowed |-> TRUE, reply |-> "DEFAULT", session |-> s]
  ELSE Transition(s, Route(text, s.state))

\* The state a reply tells the user the conversation is now in.
Announces ==
  [ WELCOME             |-> "MAIN_MENU",
    DEMO_FLOW_START     |-> "DEMO_FLOW",
    DEMO_FLOW_COLLECTED |-> "DEMO_CONFIRMATION",
    DEMO_FLOW_CONFIRMED |-> "MAIN_MENU",
    DEMO_FLOW_CANCELLED |-> "MAIN_MENU" ]

SilentReply == {"HELP", "MENU", "UNKNOWN_COMMAND", "DEFAULT", "DEMO_FLOW_INVALID",
                "DEMO_FLOW_CONFIRM_INVALID"}
Reply == DOMAIN Announces \cup SilentReply
=============================================================================
