----------------------------- MODULE MCSignalling -----------------------------
(***************************************************************************)
(* An instance of Signalling for TLC.                                      *)
(***************************************************************************)
EXTENDS Signalling
=============================================================================
