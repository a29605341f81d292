------------------------------- MODULE AIContext -------------------------------
(***************************************************************************)
(* ConversationContextBuilder: which stored messages of a conversation     *)
(* accompany a text to the AI provider.  A message is who it is (Current:  *)
(* the one being answered, or Other) and how many characters its sanitized *)
(* text has; the conversation grows while the text waits for its turn, so  *)
(* the current message need not be the last one.                           *)
(*                                                                         *)
(* A definition marked as a seeded error is used by no other.              *)
(***************************************************************************)
EXTENDS Selections

CONSTANTS
  Limit,          \* ai_max_context_messages
  Budget,         \* ai_max_input_chars
  Length,         \* lengths of sanitized texts, 0 for a message without one
  MaxHistory      \* bound: messages of the conversation

ASSUME ContextAssumption ==
  /\ Limit \in Nat \ {0} /\ Budget \in Nat /\ Length \subseteq Nat /\ MaxHistory \in Nat

VARIABLE history    \* the conversation's messages by created_at

Message == [wamid : {"current", "other"}, chars : Length]

LastOf(seq, n) == SubSeq(seq, IF Len(seq) > n THEN Len(seq) - n + 1 ELSE 1, Len(seq))
Chars(turns) ==
  LET total[n \in 0..Len(turns)] == IF n = 0 THEN 0 ELSE total[n - 1] + turns[n].chars
  IN  total[Len(turns)]

\* get_recent_messages(limit + 1).  (FetchTooFew: seeded error.)
FetchTooFew == LastOf(history, Limit)
Fetched == LastOf(history, Limit + 1)

Other == { m \in Message : m.wamid # "current" }
Spoken == { m \in Message : m.chars > 0 }

\* _load_recent_turns: the current message and empty texts are left out.
\* (KeepsCurrent: seeded error.)
KeepsCurrent == LastOf(Only(Fetched, Spoken), Limit)
Turns == LastOf(Only(Fetched, Other \cap Spoken), Limit)

\* _truncate_turns: from the newest turn back, until one does not fit: the
\* next is looked at when all before it were kept.  (TruncatedSkipping:
\* seeded error, the others are looked at as well.)
Fits(kept, turn) == Chars(kept) + turn.chars <= Budget
TruncatedSkipping(turns) ==
  LET kept[n \in 0..Len(turns)] ==
        IF n = 0 THEN <<>>
        ELSE LET newer == kept[n - 1]
                 turn == turns[Len(turns) - n + 1]
             IN  IF Fits(newer, turn) THEN <<turn>> \o newer ELSE newer
  IN  kept[Len(turns)]
Truncated(turns) ==
  LET kept[n \in 0..Len(turns)] ==
        IF n = 0 THEN <<>>
        ELSE LET newer == kept[n - 1]
                 turn == turns[Len(turns) - n + 1]
             IN  IF Len(newer) = n - 1 /\ Fits(newer, turn) THEN <<turn>> \o newer ELSE newer
  IN  kept[Len(turns)]

Context == Truncated(Turns)

Init == history = <<>>

\* A message is stored; the current one once.
Store(m) ==
  /\ Len(history) < MaxHistory
  /\ m.wamid = "current" => \A i \in DOMAIN history : history[i].wamid # "current"
  /\ history' = Append(history, m)

Full == Len(history) = MaxHistory /\ UNCHANGED history

Next == (\E m \in Message : Store(m)) \/ Full

Spec == Init /\ [][Next]_history

-----------------------------------------------------------------------------
\* The text being answered is never also sent as history, wherever in the
\* conversation it is.
CurrentExcluded == \A i \in DOMAIN Context : Context[i].wamid # "current"

\* When every message has a text, the context is the longest run of the
\* conversation's newest other messages that the message limit and the
\* character budget admit: nothing in between is missing, and no turn that
\* would fit is left out (the extra message fetched makes up for the current
\* one).
NewestThatFit ==
  LET others == Only(history, Other)
      admitted(n) == n <= Limit /\ Chars(LastOf(others, n)) <= Budget
  IN  (\A i \in DOMAIN history : history[i].chars > 0) =>
        \E n \in 0..Len(others) :
          /\ admitted(n) /\ Context = LastOf(others, n)
          /\ \A m \in (n + 1)..Len(others) : ~admitted(m)
=============================================================================
