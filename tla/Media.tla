-------------------------------- MODULE Media --------------------------------
(***************************************************************************)
(* The participants with the codecs of their media engine: Participant     *)
(* allocates a port for each of Codecs, which are here what NewParticipant *)
(* finds in the package variable that MediaEngine fills.                   *)
(***************************************************************************)
EXTENDS Participant, MediaEngine

ASSUME MediaAssumption ==
    Codecs = UNION {{PayloadsOf(k)[i] : i \in DOMAIN PayloadsOf(k)} : k \in Kinds}

codecVars == <<participantVars, enabledCodecParams>>

MediaTypeOK ==
    /\ ParticipantTypeOK
    /\ enabledCodecParams \in [Kinds -> Seq(Codecs)]

MediaInit == ParticipantInit /\ enabledCodecParams = NoCodecParams

\* NewPCTransport makes a media engine, before the loop over the codecs.
Begin(p) ==
    /\ \E u \in Users : NewParticipant(p, u)
    /\ RegisterCodecs

\* What a participant does by itself, without a message to a transcoder.
Alone(p) ==
    /\ \/ \E port \in Ports : \/ FreePort(p, port)
                              \/ \E c \in Codecs : AllocatePort(p, c, port)
       \/ CloseTracks(p, "router")
       \/ FailedCallback(p)
       \/ ClosePeer(p)
       \/ HandleOffer(p)
       \/ PeerConnects(p)
       \/ PeerFails(p)
       \/ \E t \in Tracks : \/ TrackArrives(p, t)
                            \/ LookUpPort(p, t)
                            \/ RegisterTrack(p, t)
                            \/ DialTranscoder(p, t)
                            \/ ForwardingEnds(p, t)
    /\ UNCHANGED enabledCodecParams

\* The next process starts with an empty variable.
Ends == Crash /\ enabledCodecParams' = NoCodecParams

MediaNext ==
    \/ \E p \in Participants :
         \/ Begin(p)
         \/ Alone(p)
         \/ (NewParticipantReturns(p) \/ CloseReturns(p)) /\ UNCHANGED enabledCodecParams
    \/ Ends
    \/ Restart /\ UNCHANGED enabledCodecParams

MediaSpec == MediaInit /\ [][MediaNext]_codecVars

-----------------------------------------------------------------------------
(* Safety.                                                                 *)

\* NewParticipant loops over the package variable, which lists every enabled
\* codec once, for the first participant of the process and for all that follow,
\* so that no port is allocated twice for a payload type and lost from
\* allocatedPorts.
PayloadTypesAreCodecs ==
    \A p \in Participants : phase[p] = "building" =>
        /\ {CodecParams[i] : i \in DOMAIN CodecParams} = Codecs
        /\ \A i, j \in DOMAIN CodecParams : CodecParams[i] = CodecParams[j] => i = j
=============================================================================
