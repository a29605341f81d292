------------------------------- MODULE MCAIReply -------------------------------
(***************************************************************************)
(* Two requests for one conversation; the first also brings a text of      *)
(* another one.  A limit of one message in two moments is reached, and     *)
(* left behind, within the three messages of c1.                           *)
(***************************************************************************)
EXTENDS AIReply, TLC

CONSTANTS r1, r2, c1, c2

\* r1 is a payload that batches three texts of c1 and one of c2.
Payloads == (r1 :> <<c1, c2, c1, c1>>) @@ (r2 :> <<c1>>)
=============================================================================
