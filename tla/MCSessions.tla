------------------------------ MODULE MCSessions ------------------------------
(***************************************************************************)
(* Instances of Sessions for TLC.                                          *)
(***************************************************************************)
EXTENDS Sessions, TLC

UserSymmetry == Permutations(Users)

\* Ids of tracks that are all different, and one id for the encodings of a
\* simulcast track, as RIDs share it, beside two tracks with ids of their own.
OwnIds == [t \in Tracks |-> t]
SharedId == [t \in Tracks |-> IF t \in {"ours", "theirs"} THEN t ELSE "video"]

\* Every track has the first codec, as when only one is enabled.
OneCodec == [t \in Tracks |-> CHOOSE c \in Codecs : TRUE]

\* One track has a payload type that the server does not know.
ChosenByClients == [t \in Tracks |-> IF t = "theirs" THEN 98 ELSE 96]
=============================================================================
