------------------------------- MODULE Pipeline -------------------------------
(***************************************************************************)
(* From the participants to their ffmpeg processes: what NewParticipant    *)
(* and Close of Media publish is what the daemons of OrderlyTranscoder     *)
(* receive.  Joins, rejoins and closes of a user overlap as they may, and  *)
(* the daemons handle each message in a goroutine of its own; a message    *)
(* that ends with the SFU process before it is sent is one that is never   *)
(* handled.                                                                *)
(***************************************************************************)
EXTENDS Media, OrderlyTranscoder

ASSUME PipelineAssumption ==
    /\ "nats" \notin Faults          \* publishing fails only with the process
    /\ "exit" \in DaemonFaults       \* as when a port cannot be bound

VARIABLE origin   \* of each message: the participant, and the ports in its SDP

pipelineVars == <<codecVars, orderlyVars, origin>>

Origins == [part : Participants \cup {NoParticipant}, ports : SUBSET Ports]

NoOrigin == [part |-> NoParticipant, ports |-> {}]

PipelineTypeOK ==
    /\ MediaTypeOK
    /\ TranscoderTypeOK
    /\ orderly \in SUBSET Users
    /\ origin \in [Messages -> Origins]

PipelineInit ==
    /\ MediaInit
    /\ OrderlyInit
    /\ origin = [m \in Messages |-> NoOrigin]

-----------------------------------------------------------------------------
(* The participants.                                                       *)

\* The message has the SDP, with a port for each codec.
Start(p) ==
    /\ NewParticipantReturns(p)
    /\ OrderlyStart(userOf[p])
    /\ origin' = [origin EXCEPT ![published + 1] = [part |-> p, ports |-> PortsOf(p)]]
    /\ UNCHANGED enabledCodecParams

\* All ports have been freed by now, and may have been given away.
Stop(p) ==
    /\ CloseReturns(p)
    /\ OrderlyStop(userOf[p])
    /\ UNCHANGED <<enabledCodecParams, origin>>

\* The daemons and their processes live on when the SFU ends.
Apart ==
    /\ \/ \E p \in Participants : Begin(p) \/ Alone(p)
       \/ Ends
       \/ Restart /\ UNCHANGED enabledCodecParams
    /\ UNCHANGED <<orderlyVars, origin>>

-----------------------------------------------------------------------------
(* The daemons.                                                            *)

\* The ports ffmpeg has bound.
Listens(m) ==
    IF ffmpeg[m] = "running" THEN origin[input[m]].ports ELSE {}

\* ffmpeg runs only with all ports of its SDP, of which no other process on the
\* host has one; without them it ends.
BindsOwnPorts ==
    \A m \in Messages : ffmpeg[m] = "starting" /\ ffmpeg'[m] = "running" =>
        \A n \in Messages \ {m} :
            Daemon(n) = Daemon(m) => Listens(n) \cap origin[input'[m]].ports = {}

DaemonStep ==
    /\ \/ Handling /\ BindsOwnPorts
       \/ \E d \in Daemons : OrderlyRestart(d)
    /\ UNCHANGED <<codecVars, origin>>

PipelineNext ==
    \/ \E p \in Participants : Start(p) \/ Stop(p)
    \/ Apart
    \/ DaemonStep

PipelineSpec == PipelineInit /\ [][PipelineNext]_pipelineVars

-----------------------------------------------------------------------------
(* Safety.                                                                 *)

\* Close frees the ports before it publishes the stop, so the next participant
\* may get a port on which the ffmpeg of the former one still listens, and send
\* its RTP there.  For a user whose messages come in turn that does not last:
\* the owner of such an ffmpeg is inside Close, or a later stop is with the
\* daemon that runs it, or the process that would have sent one is gone.
LeftoversAreStopping ==
    \A m \in Messages :
        User(m) \in orderly /\ ffmpeg[m] = "running"
            /\ ~(Listens(m) \subseteq Owned(origin[m].part)) =>
            \/ lock[origin[m].part] # "free"
            \/ phase[origin[m].part] = "gone"
            \/ \E n \in Messages :
                 /\ n > m /\ User(n) = User(m) /\ msg[n].kind = "stop"
                 /\ stopper[n][Daemon(m)].at \in {"received", "found"}
=============================================================================
