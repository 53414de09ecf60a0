----------------------------- MODULE MCTranscoder -----------------------------
(***************************************************************************)
(* Instances of OrderlyTranscoder for TLC.                                 *)
(***************************************************************************)
EXTENDS OrderlyTranscoder
=============================================================================
