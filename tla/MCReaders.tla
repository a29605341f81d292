------------------------------- MODULE MCReaders -------------------------------
(***************************************************************************)
(* The two readers of the rows the webhook path stores, an AI context      *)
(* query and an administrator's listing, in instances for TLC.  They share *)
(* no state but the database, so a behaviour is one of either.             *)
(***************************************************************************)
EXTENDS AIContext, AdminRead, TLC

CONSTANTS a, b, c, d    \* rows

VARIABLE reader

ReadersInit == Init /\ AdminInit /\ reader \in {"context", "listing"}

ReadContext == reader = "context" /\ Next /\ UNCHANGED <<adminVars, reader>>
ReadListing == reader = "listing" /\ AdminNext /\ UNCHANGED <<history, reader>>

ReadersNext == ReadContext \/ ReadListing

ReadersSpec == ReadersInit /\ [][ReadersNext]_<<history, adminVars, reader>>

RowSymmetry == Permutations(Row)
=============================================================================
