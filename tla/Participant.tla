----------------------------- MODULE Participant -----------------------------
(***************************************************************************)
(* Every participant of one SFU process, internal/rtc/participant.go and   *)
(* internal/rtc/mediatrack.go: construction with its port allocations, the *)
(* peer connection, the tracks forwarded over UDP to the transcoder, and   *)
(* Close, which the router goroutine and the callback of a failed peer     *)
(* connection may both call.                                               *)
(*                                                                         *)
(* The goroutines that touch a participant are                             *)
(*   - the router's, which runs NewParticipant, HandleOffer and Close;     *)
(*   - one for each state change of the peer connection (pion starts one   *)
(*     per callback), which runs Close when the state is "failed";         *)
(*   - one for each remote track, which runs onMediaTrack and ForwardRTP;  *)
(*   - the one Close starts to close the peer connection.                  *)
(* Nothing recovers from a panic in any of them: it ends the process.      *)
(*                                                                         *)
(* The caller of NewParticipant, HandleOffer and Close is left free here;  *)
(* module Sessions says when SessionsManager calls them.                   *)
(***************************************************************************)
EXTENDS PortsAllocator, Clients

CONSTANTS MaxParticipants,  \* bound: participants created in a behaviour
          Codecs,           \* payload types of enabledCodecParams
          Tracks,           \* remote tracks a client may add, per participant
          TrackName,        \* of each track: track.ID(); RIDs share one
          TrackPayload,     \* of each track: the payload type in the offer
          Faults            \* what may go wrong around the process

FaultKinds == {"nats",      \* nats.Conn.Publish returns an error
               "sink",      \* eventbus.Publisher.PublishClient returns an error
               "db",        \* the UPDATE of SetOffline returns an error
               "kill"}      \* the process is killed

ASSUME ParticipantAssumption ==
    /\ MaxParticipants \in Nat
    /\ Faults \subseteq FaultKinds

\* Numbered in the order in which they are created.
Participants == 1 .. MaxParticipants
NoParticipant == 0

VARIABLES
    up,              \* the process runs
    phase,           \* where each participant is in its life
    userOf,          \* p.ID, the user the participant belongs to
    allocatedPorts,  \* p.allocatedPorts; a missing key reads NoPort
    lock,            \* which goroutine holds p's mutex for Close
    toFree,          \* ports the loop of a running Close has yet to free
    pc,              \* state of p.publisher.pc
    failedCb,        \* the callback of the state "failed"
    publishedTracks, \* p.publishedTracks
    track,           \* each onMediaTrack goroutine with its MediaTrack
    transcoder       \* of each user: the participant that the last message
                     \* put on NATS asks a transcoder for

peerVars == <<pc, failedCb>>
mediaVars == <<publishedTracks, track>>
portVars == <<udpPorts, allocatedPorts, toFree>>
participantVars == <<up, udpPorts, phase, userOf, allocatedPorts, lock, toFree,
                     pc, failedCb, publishedTracks, track, transcoder>>

-----------------------------------------------------------------------------
NoPorts == [c \in Codecs |-> NoPort]

\* The ports in p.allocatedPorts.
PortsOf(p) == {allocatedPorts[p][c] : c \in Codecs} \ {NoPort}

\* Where the goroutine of a track is, the port and the socket of its MediaTrack.
TrackStates ==
    [at : {"none", "arrived", "looked", "registered", "forwarding", "ended"},
     port : Ports \cup {NoPort},
     conn : {"none", "open", "closed"}]

NoTrack == [at |-> "none", port |-> NoPort, conn |-> "none"]

Phases == {"unborn",    \* NewParticipant has not been called
           "building",  \* NewParticipant is running
           "open",      \* NewParticipant has returned
           "closed",    \* Close has run to its end at least once
           "gone"}      \* the process ended while it existed

ParticipantTypeOK ==
    /\ up \in BOOLEAN
    /\ udpPorts \in [Ports -> BOOLEAN]
    /\ phase \in [Participants -> Phases]
    /\ userOf \in [Participants -> Users \cup {NoUser}]
    /\ allocatedPorts \in [Participants -> [Codecs -> Ports \cup {NoPort}]]
    /\ lock \in [Participants -> {"free", "router", "callback"}]
    /\ toFree \in [Participants -> SUBSET Ports]
    /\ pc \in [Participants ->
                 {"new", "negotiated", "connected", "failed", "closed"}]
    /\ failedCb \in [Participants -> {"none", "pending", "done"}]
    /\ publishedTracks \in [Participants -> SUBSET Tracks]
    /\ track \in [Participants -> [Tracks -> TrackStates]]
    /\ transcoder \in [Users -> Participants \cup {NoParticipant}]

ParticipantInit ==
    /\ up = TRUE
    /\ udpPorts = NewPortsAllocator
    /\ phase = [p \in Participants |-> "unborn"]
    /\ userOf = [p \in Participants |-> NoUser]
    /\ allocatedPorts = [p \in Participants |-> NoPorts]
    /\ lock = [p \in Participants |-> "free"]
    /\ toFree = [p \in Participants |-> {}]
    /\ pc = [p \in Participants |-> "new"]
    /\ failedCb = [p \in Participants |-> "none"]
    /\ publishedTracks = [p \in Participants |-> {}]
    /\ track = [p \in Participants |-> [t \in Tracks |-> NoTrack]]
    /\ transcoder = [u \in Users |-> NoParticipant]

-----------------------------------------------------------------------------
(* NewParticipant, run by the router.                                      *)

\* Entry: the maps are made, the peer connection gets its callbacks.
\* Participants are numbered by creation, so p is the first one left.
NewParticipant(p, u) ==
    /\ up
    /\ phase[p] = "unborn"
    /\ \A q \in 1 .. (p - 1) : phase[q] # "unborn"
    /\ phase' = [phase EXCEPT ![p] = "building"]
    /\ userOf' = [userOf EXCEPT ![p] = u]
    /\ UNCHANGED <<up, portVars, lock, peerVars, mediaVars, transcoder>>

\* One round of the loop over the enabled codecs, in a random order.
AllocatePort(p, c, port) ==
    /\ up
    /\ phase[p] = "building"
    /\ allocatedPorts[p][c] = NoPort
    /\ Allocate(port)
    /\ allocatedPorts' = [allocatedPorts EXCEPT ![p][c] = port]
    /\ UNCHANGED <<up, phase, userOf, toFree, lock, peerVars, mediaVars,
                   transcoder>>

AllPortsAllocated(p) == \A c \in Codecs : allocatedPorts[p][c] # NoPort

\* The message names the user, not the participant.
AnnounceStart(u, p) == transcoder' = [transcoder EXCEPT ![u] = p]

\* The SDP with the ports is published and NewParticipant returns.
NewParticipantReturns(p) ==
    /\ up
    /\ phase[p] = "building"
    /\ AllPortsAllocated(p)
    /\ AnnounceStart(userOf[p], p)
    /\ phase' = [phase EXCEPT ![p] = "open"]
    /\ UNCHANGED <<up, userOf, portVars, lock, peerVars, mediaVars>>

\* NewParticipant runs out of ports or cannot publish.  (Its errors before the
\* loop depend on the configuration only and would meet every participant.)
NewParticipantErrs(p) ==
    /\ phase[p] = "building"
    /\ \/ ~AllPortsAllocated(p) /\ Exhausted
       \/ AllPortsAllocated(p) /\ "nats" \in Faults

-----------------------------------------------------------------------------
(* Close.  The mutex of p is held from the first step to the last one.     *)

\* p.Lock() does not block.
MutexFree(p) == lock[p] = "free"

MutexNeverUnlocked(p) == UNCHANGED lock                          \* a mutant

Unlock(p) == lock' = [lock EXCEPT ![p] = "free"]

MapsKept(p) == FALSE                                             \* a mutant

\* The maps of p have been set to nil.
MapsAreNil(p) == phase[p] = "closed"

\* A track whose Dial has not succeeded has a nil *net.UDPConn.
Undialled(p) == {t \in publishedTracks[p] : track[p][t].conn = "none"}

CloseConns(p) ==
    [t \in Tracks |-> IF t \in publishedTracks[p]
                      THEN [track[p][t] EXCEPT !.conn = "closed"]
                      ELSE track[p][t]]

\* Lock; every published track is closed and deleted.  Once the maps are nil
\* the loops find nothing, which makes a second Close possible at all.
CloseTracks(p, by) ==
    /\ up
    /\ phase[p] \in {"open", "closed"}
    /\ MutexFree(p)
    /\ Undialled(p) = {}
    /\ lock' = [lock EXCEPT ![p] = by]
    /\ toFree' = [toFree EXCEPT ![p] = PortsOf(p)]
    /\ track' = [track EXCEPT ![p] = CloseConns(p)]
    /\ publishedTracks' = [publishedTracks EXCEPT ![p] = {}]
    /\ UNCHANGED <<up, phase, userOf, udpPorts, allocatedPorts, peerVars,
                   transcoder>>

\* One round of the loop over p.allocatedPorts.
FreePort(p, port) ==
    /\ up
    /\ lock[p] # "free"
    /\ port \in toFree[p]
    /\ Deallocate(port)
    /\ toFree' = [toFree EXCEPT ![p] = @ \ {port}]
    /\ UNCHANGED <<up, phase, userOf, allocatedPorts, lock, peerVars, mediaVars,
                   transcoder>>

PortsRemembered(p) == UNCHANGED allocatedPorts                   \* a mutant

\* p.allocatedPorts becomes nil.
ForgetPorts(p) == allocatedPorts' = [allocatedPorts EXCEPT ![p] = NoPorts]

\* The user again.  An error of Publish is logged and nothing else.
AnnounceStop(u) ==
    \/ transcoder' = [transcoder EXCEPT ![u] = NoParticipant]
    \/ "nats" \in Faults /\ UNCHANGED transcoder

\* The maps become nil, the closing of the peer connection is started in a
\* goroutine (ClosePeer below), the stop is published, and the mutex released.
CloseReturns(p) ==
    /\ up
    /\ lock[p] # "free"
    /\ toFree[p] = {}
    /\ ForgetPorts(p)
    /\ phase' = [phase EXCEPT ![p] = "closed"]
    /\ AnnounceStop(userOf[p])
    /\ failedCb' = [failedCb EXCEPT ![p] =
                      IF lock[p] = "callback" THEN "done" ELSE @]
    /\ Unlock(p)
    /\ UNCHANGED <<up, userOf, udpPorts, toFree, pc, mediaVars>>

PeerLeftOpen(p) == FALSE                                         \* a mutant

\* The goroutine started by Close.
ClosePeer(p) ==
    /\ up
    /\ phase[p] = "closed"
    /\ pc[p] # "closed"
    /\ pc' = [pc EXCEPT ![p] = "closed"]
    /\ UNCHANGED <<up, phase, userOf, portVars, lock, failedCb, mediaVars,
                   transcoder>>

FailureIgnored(p) == FALSE                                       \* a mutant

\* handlePrimaryStateChange with "failed": closeSignalConnection is empty, so
\* Close is all the callback does.
FailedCallback(p) == failedCb[p] = "pending" /\ CloseTracks(p, "callback")

-----------------------------------------------------------------------------
(* The peer connection (external) and HandleOffer.                         *)

\* HandleOffer of a publisher: the remote and then the local description are
\* set.  Whether the answer reaches the client shows in PeerConnects.
HandleOffer(p) ==
    /\ up
    /\ phase[p] \in {"open", "closed"}
    /\ pc[p] = "new"
    /\ pc' = [pc EXCEPT ![p] = "negotiated"]
    /\ UNCHANGED <<up, phase, userOf, portVars, lock, failedCb, mediaVars,
                   transcoder>>

PeerConnects(p) ==
    /\ up
    /\ pc[p] = "negotiated"
    /\ pc' = [pc EXCEPT ![p] = "connected"]
    /\ UNCHANGED <<up, phase, userOf, portVars, lock, failedCb, mediaVars,
                   transcoder>>

\* No connectivity, or none for iceFailedTimeout.
PeerFails(p) ==
    /\ up
    /\ pc[p] \in {"negotiated", "connected"}
    /\ pc' = [pc EXCEPT ![p] = "failed"]
    /\ failedCb' = [failedCb EXCEPT ![p] = "pending"]
    /\ UNCHANGED <<up, phase, userOf, portVars, lock, mediaVars, transcoder>>

-----------------------------------------------------------------------------
(* onMediaTrack and ForwardRTP, one goroutine per remote track.            *)

TrackVarsUnchanged ==
    UNCHANGED <<up, phase, userOf, portVars, lock, peerVars, transcoder>>

SetTrack(p, t, state) == track' = [track EXCEPT ![p][t] = state]

\* pion starts the goroutine of onMediaTrack.
TrackArrives(p, t) ==
    /\ up
    /\ pc[p] = "connected"
    /\ track[p][t].at = "none"
    /\ SetTrack(p, t, [track[p][t] EXCEPT !.at = "arrived"])
    /\ UNCHANGED publishedTracks
    /\ TrackVarsUnchanged

\* p.allocatedPorts[payloadType].  The keys are the payload types of the server,
\* the type of the track is the client's choice; a missing key reads 0.
PortFor(p, t) ==
    IF TrackPayload[t] \in Codecs THEN allocatedPorts[p][TrackPayload[t]] ELSE NoPort

\* p.allocatedPorts is read without the mutex and NewMediaTrack is made.
LookUpPort(p, t) ==
    /\ up
    /\ track[p][t].at = "arrived"
    /\ SetTrack(p, t, [track[p][t] EXCEPT !.at = "looked",
                          !.port = PortFor(p, t)])
    /\ UNCHANGED publishedTracks
    /\ TrackVarsUnchanged

\* The track is put in p.publishedTracks under the mutex, over any track with
\* the same id.  After Close the map is nil: see RegisterPanics.
RegisterTrack(p, t) ==
    /\ up
    /\ track[p][t].at = "looked"
    /\ MutexFree(p)
    /\ ~MapsAreNil(p)
    /\ publishedTracks' = [publishedTracks EXCEPT ![p] =
         {s \in @ : TrackName[s] # TrackName[t]} \cup {t}]
    /\ SetTrack(p, t, [track[p][t] EXCEPT !.at = "registered"])
    /\ TrackVarsUnchanged

\* DialUDP.  A socket it opens is stored in the track without the mutex.
DialTranscoder(p, t) ==
    /\ up
    /\ track[p][t].at = "registered"
    /\ \/ SetTrack(p, t, [track[p][t] EXCEPT !.at = "forwarding", !.conn = "open"])
       \/ SetTrack(p, t, [track[p][t] EXCEPT !.at = "ended"])
    /\ UNCHANGED publishedTracks
    /\ TrackVarsUnchanged

\* The loop of ForwardRTP ends: the track cannot be read or the socket not
\* written any more.  The track stays published and its socket as it is.
ForwardingEnds(p, t) ==
    /\ up
    /\ track[p][t].at = "forwarding"
    /\ SetTrack(p, t, [track[p][t] EXCEPT !.at = "ended"])
    /\ UNCHANGED publishedTracks
    /\ TrackVarsUnchanged

-----------------------------------------------------------------------------
(* The end of the process, and its next start.                             *)

\* All memory is lost; sockets and peer connections close with the process.
\* The transcoders, which are children of another process, keep running.
ProcessDies ==
    /\ up' = FALSE
    /\ udpPorts' = NewPortsAllocator
    /\ phase' = [p \in Participants |->
                   IF phase[p] = "unborn" THEN "unborn" ELSE "gone"]
    /\ allocatedPorts' = [p \in Participants |-> NoPorts]
    /\ lock' = [p \in Participants |-> "free"]
    /\ toFree' = [p \in Participants |-> {}]
    /\ pc' = [p \in Participants |-> "new"]
    /\ failedCb' = [p \in Participants |-> "none"]
    /\ publishedTracks' = [p \in Participants |-> {}]
    /\ track' = [p \in Participants |-> [t \in Tracks |-> NoTrack]]
    /\ UNCHANGED <<userOf, transcoder>>

\* StartSession calls Close on the nil *Participant that came with the error.
NilParticipantPanics(p) == up /\ NewParticipantErrs(p) /\ ProcessDies

\* Close closes the nil *net.UDPConn of a track that has not been dialled:
\* Close is promoted from a struct embedded in UDPConn, so nil is dereferenced.
NilConnPanics(p) ==
    /\ up
    /\ phase[p] \in {"open", "closed"}
    /\ MutexFree(p)
    /\ Undialled(p) # {}
    /\ ProcessDies

\* onMediaTrack writes to the map that Close has set to nil.
RegisterPanics(p, t) ==
    /\ up
    /\ track[p][t].at = "looked"
    /\ MutexFree(p)
    /\ MapsAreNil(p)
    /\ ProcessDies

\* AddICECandidate for the target "receiver" uses p.subscriber, which nothing
\* ever sets.
ReceiverCandidatePanics(p) ==
    /\ up
    /\ phase[p] \in {"open", "closed"}
    /\ ProcessDies

Kill == "kill" \in Faults /\ up /\ ProcessDies

Restart ==
    /\ ~up
    /\ up' = TRUE
    /\ UNCHANGED <<phase, userOf, portVars, lock, peerVars, mediaVars,
                   transcoder>>

-----------------------------------------------------------------------------
\* Steps of the goroutines of p itself and of its peer connection.
GoroutineStep(p) ==
    \/ FailedCallback(p)
    \/ lock[p] = "callback" /\ \E port \in Ports : FreePort(p, port)
    \/ lock[p] = "callback" /\ CloseReturns(p)
    \/ ClosePeer(p)
    \/ PeerConnects(p)
    \/ PeerFails(p)
    \/ \E t \in Tracks : \/ TrackArrives(p, t)
                         \/ LookUpPort(p, t)
                         \/ RegisterTrack(p, t)
                         \/ DialTranscoder(p, t)
                         \/ ForwardingEnds(p, t)

\* What the router goroutine may do to p.
RouterStep(p) ==
    \/ \E u \in Users : NewParticipant(p, u)
    \/ \E c \in Codecs, port \in Ports : AllocatePort(p, c, port)
    \/ NewParticipantReturns(p)
    \/ HandleOffer(p)
    \/ CloseTracks(p, "router")
    \/ lock[p] = "router" /\ \E port \in Ports : FreePort(p, port)
    \/ lock[p] = "router" /\ CloseReturns(p)

\* The steps that end the process.
Crash ==
    \/ \E p \in Participants :
         \/ NilParticipantPanics(p)
         \/ NilConnPanics(p)
         \/ ReceiverCandidatePanics(p)
         \/ \E t \in Tracks : RegisterPanics(p, t)
    \/ Kill

ParticipantNext ==
    \/ \E p \in Participants : GoroutineStep(p) \/ RouterStep(p)
    \/ Crash
    \/ Restart

ParticipantSpec == ParticipantInit /\ [][ParticipantNext]_participantVars
-----------------------------------------------------------------------------
(* Safety.                                                                 *)

\* The ports p answers for: those in its map, until Close has freed them.
Owned(p) == IF lock[p] = "free" THEN PortsOf(p) ELSE toFree[p]

\* No two participants answer for one port, whatever joins, closes by the
\* router and closes by callbacks interleave (Allocate against the loop of
\* Close, and a second Close of the same participant).
PortsExclusive ==
    \A p, q \in Participants : p # q => Owned(p) \cap Owned(q) = {}

\* The allocator's flags and the participants' maps agree: no port is lost
\* while the process runs, and none is free while a participant answers for it.
PortsAccounted ==
    \A port \in Ports :
        udpPorts[port] <=> \E p \in Participants : port \in Owned(p)

\* No other track of a participant has the id of t.
HasOwnId(t) == \A s \in Tracks : TrackName[s] = TrackName[t] => s = t

\* RTP of a participant is forwarded to a port the participant answers for,
\* never to one that may have been given to another, although onMediaTrack
\* reads the port without the mutex; the RTP of a track whose payload type has
\* no port goes nowhere, to the port 0.  Tracks that share an id are excepted:
\* Close finds one of them.
RtpGoesToOwnPorts ==
    \A p \in Participants, t \in Tracks :
        HasOwnId(t) /\ track[p][t].at = "forwarding" /\ track[p][t].conn = "open" =>
            track[p][t].port \in
                IF TrackPayload[t] \in Codecs THEN Owned(p) ELSE {NoPort}

-----------------------------------------------------------------------------
(* What comments of the repository say and the code does not do.           *)

\* The ports are allocated for the transcoder, to which the tracks of a
\* participant are forwarded: each to a port of the range.
TracksReachTranscoders ==
    \A p \in Participants, t \in Tracks :
        track[p][t].at = "forwarding" /\ track[p][t].conn = "open" =>
            track[p][t].port \in Ports
-----------------------------------------------------------------------------
(* The abstract specification that allocator and participants implement.   *)

Lease == INSTANCE PortLease WITH
    Holders <- Participants,
    Resources <- Ports,
    free <- {port \in Ports : ~udpPorts[port]},
    leases <- {l \in Participants \X Ports : l[2] \in Owned(l[1])}

\* Allocate, the loop of Close and the end of the process are steps of
\* PortLease and every other step leaves the leases alone: a port changes hands
\* only through free, and only its holder frees it.
ImplementsPortLease == Lease!LeaseSpec
=============================================================================
