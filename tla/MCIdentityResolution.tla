-------------------------- MODULE MCIdentityResolution --------------------------
(***************************************************************************)
(* Three requests: two messages of a new user and one of another, on a     *)
(* phone number that is new too.                                           *)
(***************************************************************************)
EXTENDS IdentityResolution, TLC

CONSTANTS m1, m2, m3, anna, ben, w1, w2, w3

Senders == (m1 :> anna) @@ (m2 :> anna) @@ (m3 :> ben)
=============================================================================
