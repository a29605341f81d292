------------------------------- MODULE ReplySend -------------------------------
(***************************************************************************)
(* What one call of send_text_message means to its caller: the provider    *)
(* may take the message without the caller learning of it, any number of   *)
(* times, and then the call returns once, either a success that the        *)
(* provider vouches for or an error, of one of two sorts.                  *)
(***************************************************************************)
EXTENDS Naturals

VARIABLES taken, result
vars == <<taken, result>>

Init == taken = 0 /\ result = "pending"

TakenUnheard ==
  result = "pending" /\ taken' = taken + 1 /\ UNCHANGED result

Succeed ==
  result = "pending" /\ taken' = taken + 1 /\ result' = "ok"

\* "provider": a failure the message processor has a clause for.
RaiseError ==
  /\ result = "pending" /\ result' \in {"provider", "other"}
  /\ UNCHANGED taken

Next == TakenUnheard \/ Succeed \/ RaiseError

Spec == Init /\ [][Next]_vars
=============================================================================
