------------------------------ MODULE MCRetryLoops ------------------------------
(***************************************************************************)
(* The two loops of the backend that call an HTTP provider and retry: the  *)
(* AI orchestrator's and the outbound service's, in instances for TLC.     *)
(* They share no state, so a behaviour is one of either.                   *)
(***************************************************************************)
EXTENDS MCAIReply, OutboundDelivery

VARIABLE loop

RetryLoopsInit == Init /\ SendInit /\ loop \in {"generate", "send"}

GenerateReplies == loop = "generate" /\ Next /\ UNCHANGED <<sendVars, loop>>
SendReply == loop = "send" /\ SendNext /\ UNCHANGED <<vars, loop>>

RetryLoopsNext == GenerateReplies \/ SendReply

RetryLoopsSpec == RetryLoopsInit /\ [][RetryLoopsNext]_<<vars, sendVars, loop>>
=============================================================================
