------------------------------ MODULE MCPipeline ------------------------------
(***************************************************************************)
(* An instance of Pipeline for TLC; which tracks are forwarded makes no    *)
(* difference to the daemons, so there are none.                           *)
(***************************************************************************)
EXTENDS Pipeline, TLC

Symmetry == Permutations(Users) \cup Permutations(Daemons)

\* The configuration of NewConfig.
OnlyVP8 == [video |-> [mime |-> "VP8", line |-> NoLine]]

NoTracks == [t \in Tracks |-> t]
=============================================================================
