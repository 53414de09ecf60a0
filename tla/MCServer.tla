------------------------------- MODULE MCServer -------------------------------
(***************************************************************************)
(* Instances of Server for TLC.                                            *)
(***************************************************************************)
EXTENDS Server, TLC

CONSTANTS good, odd, bad

\* One message that is dispatched, one the switch ignores, a malformed one.
MCKindOf == good :> "subscribe" @@ odd :> "answer" @@ bad :> "malformed"

RequestSymmetry == Permutations(Requests)
=============================================================================
