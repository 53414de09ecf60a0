------------------------------- MODULE MCMedia -------------------------------
(***************************************************************************)
(* An instance of Media for TLC: the codecs of the configuration, and      *)
(* tracks with payload types of the client's choice.                       *)
(***************************************************************************)
EXTENDS Media

\* The configuration of NewConfig.
OnlyVP8 == [video |-> [mime |-> "VP8", line |-> NoLine]]

OwnIds == [t \in Tracks |-> t]

\* VP8 under the payload type of the server, and under the 98 of the example
\* SDPs in the repository.
ChosenByClients == [t \in Tracks |-> IF t = "ours" THEN 96 ELSE 98]
=============================================================================
