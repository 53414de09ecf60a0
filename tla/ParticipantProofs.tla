--------------------------- MODULE ParticipantProofs ---------------------------
(***************************************************************************)
(* Theorems about module Participant, for every number of participants,    *)
(* users, codecs, tracks and ports and for every set of faults.            *)
(***************************************************************************)
EXTENDS Participant, TLAPS

\* NoPort, the zero value, is not a port of the range.
LEMMA NoPortIsNoPort == NoPort \notin Ports
  BY PortRangeAssumption DEF NoPort, Ports

\* The variables that only the tracks' goroutines and Close change.
TracksTypeOK == track \in [Participants -> [Tracks -> TrackStates]]

\* What a goroutine of a track writes is a track state.
LEMMA SetTrackType ==
    ASSUME TracksTypeOK, NEW p \in Participants, NEW t \in Tracks,
           NEW state \in TrackStates, SetTrack(p, t, state)
    PROVE  TracksTypeOK'
  BY DEF TracksTypeOK, SetTrack

\* So is what Close leaves of the tracks it closes.
LEMMA CloseConnsType ==
    ASSUME TracksTypeOK, NEW p \in Participants
    PROVE  CloseConns(p) \in [Tracks -> TrackStates]
  <1>1. ASSUME NEW t \in Tracks
        PROVE  /\ track[p][t] \in TrackStates
               /\ [track[p][t] EXCEPT !.conn = "closed"] \in TrackStates
    <2>1. track[p][t] \in TrackStates
      BY DEF TracksTypeOK
    <2> QED
      BY <2>1 DEF TrackStates
  <1> QED
    BY <1>1 DEF CloseConns

\* Close keeps the types, whoever calls it.
LEMMA CloseTracksType ==
    ASSUME ParticipantTypeOK, NEW p \in Participants,
           NEW by \in {"router", "callback"}, CloseTracks(p, by)
    PROVE  ParticipantTypeOK'
  <1>1. PortsOf(p) \in SUBSET Ports
    BY DEF ParticipantTypeOK, PortsOf
  <1>2. CloseConns(p) \in [Tracks -> TrackStates]
    BY CloseConnsType DEF ParticipantTypeOK, TracksTypeOK
  <1> HIDE DEF PortsOf, CloseConns
  <1> QED
    BY <1>1, <1>2 DEF ParticipantTypeOK, CloseTracks, peerVars

LEMMA CloseReturnsType ==
    ASSUME ParticipantTypeOK, NEW p \in Participants, CloseReturns(p)
    PROVE  ParticipantTypeOK'
  BY DEF ParticipantTypeOK, CloseReturns, ForgetPorts, NoPorts, AnnounceStop,
         Unlock, Phases, mediaVars

LEMMA FreePortType ==
    ASSUME ParticipantTypeOK, NEW p \in Participants, NEW port \in Ports,
           FreePort(p, port)
    PROVE  ParticipantTypeOK'
  BY DEF ParticipantTypeOK, FreePort, Deallocate, peerVars, mediaVars

\* A step of the goroutine of a track.
TrackStep(p, t) ==
    \/ TrackArrives(p, t)
    \/ LookUpPort(p, t)
    \/ RegisterTrack(p, t)
    \/ DialTranscoder(p, t)
    \/ ForwardingEnds(p, t)

LEMMA TrackStepType ==
    ASSUME ParticipantTypeOK, NEW p \in Participants, NEW t \in Tracks,
           TrackStep(p, t)
    PROVE  ParticipantTypeOK'
  <1>1. PICK state \in TrackStates : SetTrack(p, t, state)
    <2>1. track[p][t] \in TrackStates
      BY DEF ParticipantTypeOK
    <2>2. PortFor(p, t) \in Ports \cup {NoPort}
      BY DEF ParticipantTypeOK, PortFor
    <2>3. \A at \in {"arrived", "registered", "ended"} :
            [track[p][t] EXCEPT !.at = at] \in TrackStates
      BY <2>1 DEF TrackStates
    <2>4. [track[p][t] EXCEPT !.at = "looked",
             !.port = PortFor(p, t)] \in TrackStates
      BY <2>1, <2>2 DEF TrackStates
    <2>5. [track[p][t] EXCEPT !.at = "forwarding", !.conn = "open"]
            \in TrackStates
      BY <2>1 DEF TrackStates
    <2>6. \E state \in TrackStates : SetTrack(p, t, state)
      <3>1. CASE TrackArrives(p, t)
        BY <3>1, <2>3 DEF TrackArrives
      <3>2. CASE LookUpPort(p, t)
        BY <3>2, <2>4 DEF LookUpPort
      <3>3. CASE RegisterTrack(p, t)
        BY <3>3, <2>3 DEF RegisterTrack
      <3>4. CASE DialTranscoder(p, t)
        BY <3>4, <2>3, <2>5 DEF DialTranscoder
      <3>5. CASE ForwardingEnds(p, t)
        BY <3>5, <2>3 DEF ForwardingEnds
      <3> QED
        BY <3>1, <3>2, <3>3, <3>4, <3>5 DEF TrackStep
    <2> QED
      BY <2>6
  <1>2. TracksTypeOK'
    BY <1>1, SetTrackType DEF ParticipantTypeOK, TracksTypeOK
  <1>3. publishedTracks' \in [Participants -> SUBSET Tracks]
    <2>1. CASE RegisterTrack(p, t)
      <3>1. {s \in publishedTracks[p] : TrackName[s] # TrackName[t]} \cup {t}
              \in SUBSET Tracks
        BY DEF ParticipantTypeOK
      <3> QED
        BY <2>1, <3>1 DEF ParticipantTypeOK, RegisterTrack
    <2>2. CASE ~RegisterTrack(p, t)
      BY <2>2 DEF ParticipantTypeOK, TrackStep, TrackArrives, LookUpPort,
                  DialTranscoder, ForwardingEnds
    <2> QED
      BY <2>1, <2>2
  <1>4. TrackVarsUnchanged
    BY DEF TrackStep, TrackArrives, LookUpPort, RegisterTrack, DialTranscoder,
           ForwardingEnds
  <1> QED
    BY <1>2, <1>3, <1>4 DEF ParticipantTypeOK, TracksTypeOK, TrackVarsUnchanged,
       portVars, peerVars

\* Every step keeps the types.
LEMMA ParticipantTypeStep ==
    ParticipantTypeOK /\ [ParticipantNext]_participantVars => ParticipantTypeOK'
  <1> SUFFICES ASSUME ParticipantTypeOK, [ParticipantNext]_participantVars
               PROVE  ParticipantTypeOK'
    OBVIOUS
  <1>1. ASSUME NEW p \in Participants, GoroutineStep(p)
        PROVE  ParticipantTypeOK'
    <2>1. CASE FailedCallback(p)
      BY <2>1, CloseTracksType DEF FailedCallback
    <2>2. CASE ClosePeer(p) \/ PeerConnects(p) \/ PeerFails(p)
      BY <2>2 DEF ParticipantTypeOK, ClosePeer, PeerConnects, PeerFails,
                  portVars, mediaVars
    <2>3. ASSUME NEW t \in Tracks, TrackStep(p, t)
          PROVE  ParticipantTypeOK'
      BY <2>3, TrackStepType
    <2> QED
      BY <1>1, <2>1, <2>2, <2>3, FreePortType, CloseReturnsType
         DEF GoroutineStep, TrackStep
  <1>2. ASSUME NEW p \in Participants, RouterStep(p)
        PROVE  ParticipantTypeOK'
    <2>1. CASE \E u \in Users : NewParticipant(p, u)
      BY <2>1 DEF ParticipantTypeOK, NewParticipant, Phases, portVars, peerVars,
                  mediaVars
    <2>2. CASE \E c \in Codecs, port \in Ports : AllocatePort(p, c, port)
      BY <2>2 DEF ParticipantTypeOK, AllocatePort, Allocate, peerVars, mediaVars
    <2>3. CASE NewParticipantReturns(p)
      BY <2>3
         DEF ParticipantTypeOK, NewParticipantReturns, AnnounceStart, Phases,
             portVars, peerVars, mediaVars
    <2>4. CASE HandleOffer(p)
      BY <2>4 DEF ParticipantTypeOK, HandleOffer, portVars, mediaVars
    <2>5. CASE CloseTracks(p, "router")
      BY <2>5, CloseTracksType
    <2> QED
      BY <1>2, <2>1, <2>2, <2>3, <2>4, <2>5, FreePortType, CloseReturnsType
         DEF RouterStep
  <1>3. CASE Crash
    <2>1. ProcessDies
      BY <1>3
         DEF Crash, Kill, NilParticipantPanics, NilConnPanics, RegisterPanics,
             ReceiverCandidatePanics
    <2> QED
      BY <2>1 DEF ParticipantTypeOK, ProcessDies, NewPortsAllocator, NoPorts,
                  NoTrack, TrackStates, Phases
  <1>4. CASE Restart
    BY <1>4 DEF ParticipantTypeOK, Restart, portVars, peerVars, mediaVars
  <1>5. CASE UNCHANGED participantVars
    BY <1>5 DEF ParticipantTypeOK, participantVars
  <1> QED
    BY <1>1, <1>2, <1>3, <1>4, <1>5 DEF ParticipantNext

\* Type correctness of every variable of a participant, its tracks included.
THEOREM ParticipantTypes == ParticipantSpec => []ParticipantTypeOK
  <1>1. ParticipantInit => ParticipantTypeOK
    BY DEF ParticipantInit, ParticipantTypeOK, Phases, NewPortsAllocator,
           NoPorts, NoTrack, TrackStates
  <1> QED
    BY <1>1, ParticipantTypeStep, PTL DEF ParticipantSpec
-----------------------------------------------------------------------------
(* The ports.                                                              *)

\* A participant has no ports before NewParticipant, after Close and after the
\* end of the process; the mutex is held only by a Close, which has yet to free
\* some of the ports in the map.
PortsLifecycle ==
    \A p \in Participants :
        /\ phase[p] \in {"unborn", "closed", "gone"} => PortsOf(p) = {}
        /\ lock[p] # "free" => phase[p] \in {"open", "closed"}
        /\ toFree[p] \subseteq PortsOf(p)

PortsIInv == /\ ParticipantTypeOK
             /\ PortsExclusive
             /\ PortsAccounted
             /\ PortsLifecycle

\* A step that changes neither flags nor maps nor locks changes no ownership.
LEMMA OwnedUnchanged ==
    ASSUME PortsIInv, ParticipantTypeOK', UNCHANGED <<portVars, lock>>,
           \A p \in Participants :
               \/ phase'[p] = phase[p]
               \/ phase'[p] \in {"building", "open"} /\ lock[p] = "free"
    PROVE  PortsIInv'
  BY DEF PortsIInv, PortsExclusive, PortsAccounted, PortsLifecycle, Owned,
         PortsOf, portVars

\* The first step of Close turns the ports in the map into the ports to free.
LEMMA CloseTracksOwned ==
    ASSUME PortsIInv, ParticipantTypeOK', NEW p \in Participants,
           NEW by \in {"router", "callback"}, CloseTracks(p, by)
    PROVE  /\ PortsIInv'
           /\ \A q \in Participants : Owned(q)' = Owned(q)
           /\ udpPorts' = udpPorts
  <1>1. \A q \in Participants : PortsOf(q)' = PortsOf(q)
    BY DEF CloseTracks, PortsOf
  <1>2. lock[p] = "free" /\ lock' = [lock EXCEPT ![p] = by] /\ phase' = phase
        /\ toFree' = [toFree EXCEPT ![p] = PortsOf(p)] /\ udpPorts' = udpPorts
        /\ phase[p] \in {"open", "closed"}
    BY DEF CloseTracks, MutexFree
  <1>3. \A q \in Participants : Owned(q)' = Owned(q)
    BY <1>1, <1>2 DEF Owned, PortsIInv, ParticipantTypeOK
  <1>4. PortsLifecycle'
    BY <1>1, <1>2 DEF PortsIInv, PortsLifecycle, ParticipantTypeOK
  <1> QED
    BY <1>2, <1>3, <1>4 DEF PortsIInv, PortsExclusive, PortsAccounted

\* A round of the loop of Close gives up one port and frees exactly that one.
LEMMA FreePortOwned ==
    ASSUME PortsIInv, NEW p \in Participants, NEW port \in Ports,
           FreePort(p, port)
    PROVE  /\ port \in Owned(p)
           /\ Owned(p)' = Owned(p) \ {port}
           /\ \A q \in Participants \ {p} : Owned(q)' = Owned(q)
           /\ udpPorts' = [udpPorts EXCEPT ![port] = FALSE]
  BY DEF FreePort, Deallocate, Owned, PortsOf, PortsIInv, ParticipantTypeOK

LEMMA FreePortKeeps ==
    ASSUME PortsIInv, ParticipantTypeOK', NEW p \in Participants,
           NEW port \in Ports, FreePort(p, port)
    PROVE  PortsIInv'
  <1>1. /\ port \in Owned(p)
        /\ Owned(p)' = Owned(p) \ {port}
        /\ \A q \in Participants \ {p} : Owned(q)' = Owned(q)
        /\ udpPorts' = [udpPorts EXCEPT ![port] = FALSE]
    BY FreePortOwned
  <1>2. PortsExclusive'
    BY <1>1 DEF PortsIInv, PortsExclusive
  <1>3. PortsAccounted'
    <2> SUFFICES ASSUME NEW x \in Ports
                 PROVE  udpPorts'[x] <=> \E q \in Participants : x \in Owned(q)'
      BY DEF PortsAccounted
    <2>1. CASE x = port
      <3>1. ~udpPorts'[x]
        BY <1>1, <2>1 DEF PortsIInv, ParticipantTypeOK
      <3>2. \A q \in Participants : x \notin Owned(q)'
        BY <1>1, <2>1 DEF PortsIInv, PortsExclusive
      <3> QED
        BY <3>1, <3>2
    <2>2. CASE x # port
      <3>1. udpPorts'[x] = udpPorts[x]
        BY <1>1, <2>2 DEF PortsIInv, ParticipantTypeOK
      <3>2. \A q \in Participants : x \in Owned(q)' <=> x \in Owned(q)
        BY <1>1, <2>2
      <3> QED
        BY <3>1, <3>2 DEF PortsIInv, PortsAccounted
    <2> QED
      BY <2>1, <2>2
  <1>4. PortsLifecycle'
    <2>1. \A q \in Participants : PortsOf(q)' = PortsOf(q)
      BY DEF FreePort, PortsOf
    <2>2. \A q \in Participants : toFree'[q] \subseteq toFree[q]
      BY DEF FreePort, PortsIInv, ParticipantTypeOK
    <2> QED
      BY <2>1, <2>2 DEF PortsIInv, PortsLifecycle, FreePort
  <1> QED
    BY <1>2, <1>3, <1>4 DEF PortsIInv

\* The last step of Close empties the map, whose ports have all been freed.
LEMMA CloseReturnsOwned ==
    ASSUME PortsIInv, ParticipantTypeOK', NEW p \in Participants,
           CloseReturns(p)
    PROVE  /\ PortsIInv'
           /\ \A q \in Participants : Owned(q)' = Owned(q)
           /\ udpPorts' = udpPorts
  <1>1. PortsOf(p)' = {}
    BY DEF PortsOf, CloseReturns, ForgetPorts, NoPorts, PortsIInv,
           ParticipantTypeOK
  <1>2. \A q \in Participants \ {p} : PortsOf(q)' = PortsOf(q)
    BY DEF PortsOf, CloseReturns, ForgetPorts, PortsIInv, ParticipantTypeOK
  <1>3. /\ lock[p] # "free" /\ toFree[p] = {} /\ lock' = [lock EXCEPT ![p] = "free"]
        /\ toFree' = toFree /\ udpPorts' = udpPorts
        /\ phase' = [phase EXCEPT ![p] = "closed"]
    BY DEF CloseReturns, Unlock
  <1>4. \A q \in Participants : Owned(q)' = Owned(q)
    BY <1>1, <1>2, <1>3 DEF Owned, PortsIInv, ParticipantTypeOK
  <1>5. PortsLifecycle'
    BY <1>1, <1>2, <1>3 DEF PortsIInv, PortsLifecycle, ParticipantTypeOK
  <1> QED
    BY <1>3, <1>4, <1>5 DEF PortsIInv, PortsExclusive, PortsAccounted

\* Allocate gives a free port to the participant that is being built.
LEMMA AllocatePortOwned ==
    ASSUME PortsIInv, NEW p \in Participants, NEW c \in Codecs,
           NEW port \in Ports, AllocatePort(p, c, port)
    PROVE  /\ ~udpPorts[port]
           /\ Owned(p)' = Owned(p) \cup {port}
           /\ PortsOf(p)' = PortsOf(p) \cup {port}
           /\ \A q \in Participants \ {p} :
                Owned(q)' = Owned(q) /\ PortsOf(q)' = PortsOf(q)
           /\ udpPorts' = [udpPorts EXCEPT ![port] = TRUE]
  <1>1. lock[p] = "free" /\ lock' = lock /\ toFree' = toFree
    BY DEF PortsIInv, PortsLifecycle, AllocatePort
  <1>2. PortsOf(p)' = PortsOf(p) \cup {port}
    <2>1. \A d \in Codecs : allocatedPorts'[p][d] =
            IF d = c THEN port ELSE allocatedPorts[p][d]
      BY DEF AllocatePort, PortsIInv, ParticipantTypeOK
    <2>2. allocatedPorts[p][c] = NoPort /\ port # NoPort
      BY NoPortIsNoPort DEF AllocatePort
    <2> QED
      BY <2>1, <2>2 DEF PortsOf
  <1>3. \A q \in Participants \ {p} : PortsOf(q)' = PortsOf(q)
    BY DEF PortsOf, AllocatePort, PortsIInv, ParticipantTypeOK
  <1> QED
    BY <1>1, <1>2, <1>3 DEF Owned, AllocatePort, Allocate

LEMMA AllocatePortKeeps ==
    ASSUME PortsIInv, ParticipantTypeOK', NEW p \in Participants,
           NEW c \in Codecs, NEW port \in Ports, AllocatePort(p, c, port)
    PROVE  PortsIInv'
  <1>1. /\ ~udpPorts[port]
        /\ Owned(p)' = Owned(p) \cup {port}
        /\ PortsOf(p)' = PortsOf(p) \cup {port}
        /\ \A q \in Participants \ {p} :
             Owned(q)' = Owned(q) /\ PortsOf(q)' = PortsOf(q)
        /\ udpPorts' = [udpPorts EXCEPT ![port] = TRUE]
    BY AllocatePortOwned
  <1>2. PortsExclusive'
    <2>1. \A q \in Participants : port \notin Owned(q)
      BY <1>1 DEF PortsIInv, PortsAccounted
    <2> QED
      BY <1>1, <2>1 DEF PortsIInv, PortsExclusive
  <1>3. PortsAccounted'
    <2> SUFFICES ASSUME NEW x \in Ports
                 PROVE  udpPorts'[x] <=> \E q \in Participants : x \in Owned(q)'
      BY DEF PortsAccounted
    <2>1. CASE x = port
      BY <1>1, <2>1 DEF PortsIInv, ParticipantTypeOK
    <2>2. CASE x # port
      <3>1. udpPorts'[x] = udpPorts[x]
        BY <1>1, <2>2 DEF PortsIInv, ParticipantTypeOK
      <3>2. \A q \in Participants : x \in Owned(q)' <=> x \in Owned(q)
        BY <1>1, <2>2
      <3> QED
        BY <3>1, <3>2 DEF PortsIInv, PortsAccounted
    <2> QED
      BY <2>1, <2>2
  <1>4. PortsLifecycle'
    <2>1. phase[p] = "building" /\ UNCHANGED <<phase, lock, toFree>>
      BY DEF AllocatePort
    <2> QED
      BY <1>1, <2>1 DEF PortsIInv, PortsLifecycle
  <1> QED
    BY <1>2, <1>3, <1>4 DEF PortsIInv

\* After the end of the process nobody owns a port and every port is free.
LEMMA ProcessDiesOwned ==
    ASSUME PortsIInv, ParticipantTypeOK', ProcessDies
    PROVE  /\ PortsIInv'
           /\ \A p \in Participants : Owned(p)' = {}
           /\ udpPorts' = NewPortsAllocator
  <1>1. \A p \in Participants : PortsOf(p)' = {}
    BY DEF PortsOf, ProcessDies, NoPorts
  <1>2. \A p \in Participants : Owned(p)' = {}
    BY <1>1 DEF Owned, ProcessDies
  <1>3. PortsLifecycle'
    BY <1>1 DEF PortsLifecycle, ProcessDies
  <1> QED
    BY <1>2, <1>3 DEF PortsIInv, PortsExclusive, PortsAccounted, ProcessDies,
       NewPortsAllocator

\* A step of a track's goroutine, of the peer connection or of a handler that
\* neither allocates nor closes.
LEMMA OtherStepKeeps ==
    ASSUME PortsIInv, ParticipantTypeOK', NEW p \in Participants,
           \/ \E t \in Tracks : TrackStep(p, t)
           \/ ClosePeer(p) \/ PeerConnects(p) \/ PeerFails(p)
           \/ HandleOffer(p)
           \/ \E u \in Users : NewParticipant(p, u)
           \/ NewParticipantReturns(p)
    PROVE  PortsIInv' /\ UNCHANGED <<portVars, lock>>
  <1>1. UNCHANGED <<portVars, lock>>
    BY DEF TrackStep, TrackArrives, LookUpPort, RegisterTrack, DialTranscoder,
           ForwardingEnds, TrackVarsUnchanged, ClosePeer, PeerConnects,
           PeerFails, HandleOffer, NewParticipant, NewParticipantReturns
  <1>2. ASSUME NEW q \in Participants
        PROVE  \/ phase'[q] = phase[q]
               \/ phase'[q] \in {"building", "open"} /\ lock[q] = "free"
    BY DEF TrackStep, TrackArrives, LookUpPort, RegisterTrack, DialTranscoder,
           ForwardingEnds, TrackVarsUnchanged, ClosePeer, PeerConnects,
           PeerFails, HandleOffer, NewParticipant, NewParticipantReturns,
           PortsIInv, PortsLifecycle, ParticipantTypeOK
  <1> QED
    BY <1>1, <1>2, OwnedUnchanged

LEMMA PortsStep == PortsIInv /\ [ParticipantNext]_participantVars => PortsIInv'
  <1> SUFFICES ASSUME PortsIInv, [ParticipantNext]_participantVars
               PROVE  PortsIInv'
    OBVIOUS
  <1>0. ParticipantTypeOK'
    BY ParticipantTypeStep DEF PortsIInv
  <1>1. ASSUME NEW p \in Participants, GoroutineStep(p) \/ RouterStep(p)
        PROVE  PortsIInv'
    <2>1. CASE \E by \in {"router", "callback"} : CloseTracks(p, by)
      BY <1>0, <2>1, CloseTracksOwned
    <2>2. CASE \E port \in Ports : FreePort(p, port)
      BY <1>0, <2>2, FreePortKeeps
    <2>3. CASE CloseReturns(p)
      BY <1>0, <2>3, CloseReturnsOwned
    <2>4. CASE \E c \in Codecs, port \in Ports : AllocatePort(p, c, port)
      BY <1>0, <2>4, AllocatePortKeeps
    <2>5. CASE \/ \E t \in Tracks : TrackStep(p, t)
               \/ ClosePeer(p) \/ PeerConnects(p) \/ PeerFails(p)
               \/ HandleOffer(p)
               \/ \E u \in Users : NewParticipant(p, u)
               \/ NewParticipantReturns(p)
      BY <1>0, <2>5, OtherStepKeeps
    <2> QED
      BY <1>1, <2>1, <2>2, <2>3, <2>4, <2>5
         DEF GoroutineStep, RouterStep, FailedCallback, TrackStep
  <1>2. CASE Crash
    <2>1. ProcessDies
      BY <1>2
         DEF Crash, Kill, NilParticipantPanics, NilConnPanics, RegisterPanics,
             ReceiverCandidatePanics
    <2> QED
      BY <1>0, <2>1, ProcessDiesOwned
  <1>3. CASE Restart \/ UNCHANGED participantVars
    BY <1>0, <1>3, OwnedUnchanged DEF Restart, participantVars, portVars
  <1> QED
    BY <1>1, <1>2, <1>3 DEF ParticipantNext

LEMMA PortsInit == ParticipantInit => PortsIInv
  <1> SUFFICES ASSUME ParticipantInit PROVE PortsIInv
    OBVIOUS
  <1>1. ParticipantTypeOK
    BY DEF ParticipantInit, ParticipantTypeOK, Phases, NewPortsAllocator,
           NoPorts, NoTrack, TrackStates
  <1>2. \A p \in Participants : PortsOf(p) = {}
    BY DEF ParticipantInit, PortsOf, NoPorts
  <1>3. \A p \in Participants : Owned(p) = {} /\ toFree[p] = {}
    BY <1>2 DEF ParticipantInit, Owned
  <1> QED
    BY <1>1, <1>2, <1>3 DEF ParticipantInit, PortsIInv, PortsExclusive,
       PortsAccounted, PortsLifecycle, NewPortsAllocator

LEMMA PortsInductive == ParticipantSpec => []PortsIInv
  BY PortsInit, PortsStep, PTL DEF ParticipantSpec

\* However joins, closes by the router and closes by callbacks interleave, no
\* two participants ever answer for one UDP port.
THEOREM PortsAreExclusive == ParticipantSpec => []PortsExclusive
  <1>1. PortsIInv => PortsExclusive
    BY DEF PortsIInv
  <1> QED
    BY <1>1, PortsInductive, PTL

\* The allocator never loses a port and never gives out one that is in use.
THEOREM PortsAreAccounted == ParticipantSpec => []PortsAccounted
  <1>1. PortsIInv => PortsAccounted
    BY DEF PortsIInv
  <1> QED
    BY <1>1, PortsInductive, PTL
-----------------------------------------------------------------------------
(* The implementation of PortLease.                                        *)

FreeBar == {port \in Ports : ~udpPorts[port]}
LeasesBar == {l \in Participants \X Ports : l[2] \in Owned(l[1])}

\* A step that changes no flag and no ownership is a stuttering step.
LEMMA LeaseStutters ==
    ASSUME udpPorts' = udpPorts, \A p \in Participants : Owned(p)' = Owned(p)
    PROVE  FreeBar' = FreeBar /\ LeasesBar' = LeasesBar
  BY DEF FreeBar, LeasesBar

LEMMA AllocateAcquires ==
    ASSUME PortsIInv, NEW p \in Participants, NEW c \in Codecs,
           NEW port \in Ports, AllocatePort(p, c, port)
    PROVE  Lease!Acquire(p, port)
  <1>1. /\ ~udpPorts[port]
        /\ Owned(p)' = Owned(p) \cup {port}
        /\ \A q \in Participants \ {p} : Owned(q)' = Owned(q)
        /\ udpPorts' = [udpPorts EXCEPT ![port] = TRUE]
    BY AllocatePortOwned
  <1>2. port \in FreeBar /\ FreeBar' = FreeBar \ {port}
    BY <1>1 DEF FreeBar, PortsIInv, ParticipantTypeOK
  <1>3. LeasesBar' = LeasesBar \cup {<<p, port>>}
    BY <1>1 DEF LeasesBar
  <1> QED
    BY <1>2, <1>3 DEF Lease!Acquire, FreeBar, LeasesBar

LEMMA FreePortReleases ==
    ASSUME PortsIInv, NEW p \in Participants, NEW port \in Ports,
           FreePort(p, port)
    PROVE  Lease!Release(p, port)
  <1>1. /\ port \in Owned(p)
        /\ Owned(p)' = Owned(p) \ {port}
        /\ \A q \in Participants \ {p} : Owned(q)' = Owned(q)
        /\ udpPorts' = [udpPorts EXCEPT ![port] = FALSE]
    BY FreePortOwned
  <1>2. FreeBar' = FreeBar \cup {port}
    BY <1>1 DEF FreeBar, PortsIInv, ParticipantTypeOK
  <1>3. <<p, port>> \in LeasesBar /\ LeasesBar' = LeasesBar \ {<<p, port>>}
    BY <1>1 DEF LeasesBar
  <1> QED
    BY <1>2, <1>3 DEF Lease!Release, FreeBar, LeasesBar

LEMMA ProcessDiesResets ==
    ASSUME PortsIInv, ParticipantTypeOK', ProcessDies
    PROVE  Lease!Reset
  <1>1. udpPorts' = NewPortsAllocator /\ \A p \in Participants : Owned(p)' = {}
    BY ProcessDiesOwned
  <1>2. FreeBar' = Ports /\ LeasesBar' = {}
    BY <1>1 DEF FreeBar, LeasesBar, NewPortsAllocator
  <1> QED
    BY <1>2 DEF Lease!Reset, FreeBar, LeasesBar

LEMMA LeaseStep ==
    PortsIInv /\ [ParticipantNext]_participantVars
        => [Lease!LeaseNext]_(Lease!leaseVars)
  <1> SUFFICES ASSUME PortsIInv, [ParticipantNext]_participantVars
               PROVE  Lease!LeaseNext \/ (FreeBar' = FreeBar /\ LeasesBar' = LeasesBar)
    BY DEF Lease!leaseVars, FreeBar, LeasesBar
  <1>0. ParticipantTypeOK'
    BY ParticipantTypeStep DEF PortsIInv
  <1>1. ASSUME NEW p \in Participants, GoroutineStep(p) \/ RouterStep(p)
        PROVE  Lease!LeaseNext \/ (FreeBar' = FreeBar /\ LeasesBar' = LeasesBar)
    <2>1. CASE \E by \in {"router", "callback"} : CloseTracks(p, by)
      <3>1. udpPorts' = udpPorts /\ \A q \in Participants : Owned(q)' = Owned(q)
        BY <1>0, <2>1, CloseTracksOwned
      <3> QED
        BY <3>1, LeaseStutters
    <2>2. CASE \E port \in Ports : FreePort(p, port)
      BY <2>2, FreePortReleases DEF Lease!LeaseNext
    <2>3. CASE CloseReturns(p)
      BY <1>0, <2>3, CloseReturnsOwned, LeaseStutters
    <2>4. CASE \E c \in Codecs, port \in Ports : AllocatePort(p, c, port)
      BY <2>4, AllocateAcquires DEF Lease!LeaseNext
    <2>5. CASE \/ \E t \in Tracks : TrackStep(p, t)
               \/ ClosePeer(p) \/ PeerConnects(p) \/ PeerFails(p)
               \/ HandleOffer(p)
               \/ \E u \in Users : NewParticipant(p, u)
               \/ NewParticipantReturns(p)
      <3>1. UNCHANGED <<portVars, lock>>
        BY <1>0, <2>5, OtherStepKeeps
      <3>2. udpPorts' = udpPorts /\ \A q \in Participants : Owned(q)' = Owned(q)
        BY <3>1 DEF portVars, Owned, PortsOf
      <3> QED
        BY <3>2, LeaseStutters
    <2> QED
      BY <1>1, <2>1, <2>2, <2>3, <2>4, <2>5
         DEF GoroutineStep, RouterStep, FailedCallback, TrackStep
  <1>2. CASE Crash
    <2>1. ProcessDies
      BY <1>2
         DEF Crash, Kill, NilParticipantPanics, NilConnPanics, RegisterPanics,
             ReceiverCandidatePanics
    <2> QED
      BY <1>0, <2>1, ProcessDiesResets DEF Lease!LeaseNext
  <1>3. CASE Restart \/ UNCHANGED participantVars
    <2>1. udpPorts' = udpPorts /\ \A q \in Participants : Owned(q)' = Owned(q)
      BY <1>3 DEF Restart, participantVars, portVars, Owned, PortsOf
    <2> QED
      BY <2>1, LeaseStutters
  <1> QED
    BY <1>1, <1>2, <1>3 DEF ParticipantNext

\* The participants with their allocator implement the leases of PortLease: a
\* port is acquired only when free and released only by its holder.
THEOREM PortsAreLeases == ParticipantSpec => ImplementsPortLease
  <1>1. ParticipantInit => Lease!LeaseInit
    <2> SUFFICES ASSUME ParticipantInit PROVE Lease!LeaseInit
      OBVIOUS
    <2>1. \A p \in Participants : Owned(p) = {}
      BY DEF ParticipantInit, Owned, PortsOf, NoPorts
    <2>2. FreeBar = Ports /\ LeasesBar = {}
      BY <2>1 DEF FreeBar, LeasesBar, ParticipantInit, NewPortsAllocator
    <2> QED
      BY <2>2 DEF Lease!LeaseInit, FreeBar, LeasesBar
  <1> QED
    BY <1>1, LeaseStep, PortsInductive, PTL
       DEF ParticipantSpec, ImplementsPortLease, Lease!LeaseSpec
-----------------------------------------------------------------------------
(* The forwarding of RTP.                                                  *)

\* A participant whose connection is past "new" has been built with all its
\* ports; a port looked up is the one in the map until Close has returned; the
\* tracks that are dialled or forwarded are published, and only Close, which
\* closes their sockets before it frees a port, takes those with an id of their
\* own out.
RtpParticipantOK(p) ==
    /\ phase[p] = "open" => AllPortsAllocated(p)
    /\ pc[p] # "new" => phase[p] \in {"open", "closed"}
    /\ publishedTracks[p] # {} => phase[p] = "open" /\ lock[p] = "free"

RtpTrackOK(p, t) ==
    /\ track[p][t].at # "none" => phase[p] \in {"open", "closed"}
    /\ track[p][t].at \notin {"none", "arrived"} /\ phase[p] = "open" =>
         track[p][t].port = PortFor(p, t)
    /\ track[p][t].at \in {"none", "arrived", "looked", "registered"} =>
         track[p][t].conn = "none"
    /\ HasOwnId(t) /\ track[p][t].at = "registered" => t \in publishedTracks[p]
    /\ HasOwnId(t) /\ track[p][t].conn = "open" => t \in publishedTracks[p]

RtpIInv == \A p \in Participants :
             RtpParticipantOK(p) /\ \A t \in Tracks : RtpTrackOK(p, t)

LEMMA RtpImplies ==
    ASSUME PortsIInv, RtpIInv
    PROVE  RtpGoesToOwnPorts
  <1> SUFFICES ASSUME NEW p \in Participants, NEW t \in Tracks, HasOwnId(t),
                      track[p][t].at = "forwarding", track[p][t].conn = "open"
               PROVE  track[p][t].port \in
                        IF TrackPayload[t] \in Codecs THEN Owned(p) ELSE {NoPort}
    BY DEF RtpGoesToOwnPorts
  <1>1. phase[p] = "open" /\ lock[p] = "free"
    BY DEF RtpIInv, RtpParticipantOK, RtpTrackOK
  <1>2. track[p][t].port = PortFor(p, t)
    BY <1>1 DEF RtpIInv, RtpParticipantOK, RtpTrackOK
  <1>3. CASE TrackPayload[t] \in Codecs
    <2>1. allocatedPorts[p][TrackPayload[t]] # NoPort
      BY <1>1, <1>3 DEF RtpIInv, RtpParticipantOK, AllPortsAllocated
    <2> QED
      BY <1>1, <1>2, <1>3, <2>1 DEF PortFor, Owned, PortsOf
  <1>4. CASE TrackPayload[t] \notin Codecs
    BY <1>2, <1>4 DEF PortFor
  <1> QED
    BY <1>3, <1>4

LEMMA SetTrackAt ==
    ASSUME TracksTypeOK, NEW p \in Participants, NEW t \in Tracks, NEW state,
           SetTrack(p, t, state)
    PROVE  /\ track'[p][t] = state
           /\ \A q \in Participants, r \in Tracks :
                ~(q = p /\ r = t) => track'[q][r] = track[q][r]
  BY DEF TracksTypeOK, SetTrack

\* A step that changes one track and publishes at most that one.
LEMMA RtpOneTrack ==
    ASSUME PortsIInv, RtpIInv, NEW p \in Participants, NEW t \in Tracks,
           UNCHANGED <<phase, allocatedPorts, lock, pc>>,
           \A q \in Participants, r \in Tracks :
             ~(q = p /\ r = t) =>
               /\ track'[q][r] = track[q][r]
               /\ HasOwnId(r) =>
                    (r \in publishedTracks'[q] <=> r \in publishedTracks[q]),
           RtpParticipantOK(p)', RtpTrackOK(p, t)',
           \A q \in Participants \ {p} : publishedTracks'[q] = publishedTracks[q]
    PROVE  RtpIInv'
  <1>1. \A q \in Participants : RtpParticipantOK(q)'
    BY DEF RtpIInv, RtpParticipantOK, AllPortsAllocated
  <1>2. ASSUME NEW q \in Participants, NEW r \in Tracks, ~(q = p /\ r = t)
        PROVE  RtpTrackOK(q, r)'
    BY <1>2 DEF RtpIInv, RtpTrackOK, PortFor
  <1> QED
    BY <1>1, <1>2 DEF RtpIInv

\* The goroutine of a track.
LEMMA RtpTrackStep ==
    ASSUME PortsIInv, RtpIInv, ParticipantTypeOK',
           NEW p \in Participants, NEW t \in Tracks, TrackStep(p, t)
    PROVE  RtpIInv'
  <1>1. UNCHANGED <<phase, allocatedPorts, lock, pc>>
    BY DEF TrackStep, TrackArrives, LookUpPort, RegisterTrack, DialTranscoder,
           ForwardingEnds, TrackVarsUnchanged, portVars, peerVars
  <1>2. track[p][t] \in TrackStates /\ TracksTypeOK
    BY DEF PortsIInv, ParticipantTypeOK, TracksTypeOK
  <1>3. RtpParticipantOK(p) /\ RtpTrackOK(p, t)
    BY DEF RtpIInv
  <1>4. CASE RegisterTrack(p, t)
    <2>1. /\ track'[p][t] = [track[p][t] EXCEPT !.at = "registered"]
          /\ \A q \in Participants, r \in Tracks :
               ~(q = p /\ r = t) => track'[q][r] = track[q][r]
      BY <1>2, <1>4, SetTrackAt DEF RegisterTrack
    <2>2. /\ track'[p][t].at = "registered"
          /\ track'[p][t].port = track[p][t].port
          /\ track'[p][t].conn = track[p][t].conn
      BY <1>2, <2>1 DEF TrackStates
    <2>3. /\ t \in publishedTracks'[p]
          /\ \A r \in Tracks : r # t /\ HasOwnId(r) =>
               (r \in publishedTracks'[p] <=> r \in publishedTracks[p])
          /\ \A q \in Participants \ {p} :
               publishedTracks'[q] = publishedTracks[q]
      BY <1>4 DEF RegisterTrack, HasOwnId, PortsIInv, ParticipantTypeOK
    <2>4. phase[p] = "open" /\ lock[p] = "free" /\ track[p][t].at = "looked"
      BY <1>3, <1>4
         DEF RegisterTrack, MutexFree, MapsAreNil, RtpTrackOK, PortFor
    <2>5. RtpParticipantOK(p)' /\ RtpTrackOK(p, t)'
      BY <1>1, <1>3, <2>2, <2>3, <2>4
         DEF RtpParticipantOK, RtpTrackOK, PortFor, AllPortsAllocated
    <2> QED
      BY <1>1, <2>1, <2>3, <2>5, RtpOneTrack
  <1>5. CASE ~RegisterTrack(p, t)
    <2>1. publishedTracks' = publishedTracks
      BY <1>5 DEF TrackStep, TrackArrives, LookUpPort, DialTranscoder,
                  ForwardingEnds
    <2>2. RtpParticipantOK(p)'
      BY <1>1, <1>3, <2>1 DEF RtpParticipantOK, AllPortsAllocated
    <2>3. /\ \A q \in Participants, r \in Tracks :
               ~(q = p /\ r = t) => track'[q][r] = track[q][r]
          /\ RtpTrackOK(p, t)'
      <3>1. CASE TrackArrives(p, t)
        <4>1. /\ track'[p][t] = [track[p][t] EXCEPT !.at = "arrived"]
              /\ \A q \in Participants, r \in Tracks :
                   ~(q = p /\ r = t) => track'[q][r] = track[q][r]
          BY <1>2, <3>1, SetTrackAt DEF TrackArrives
        <4>2. track'[p][t].at = "arrived" /\ track'[p][t].conn = track[p][t].conn
          BY <1>2, <4>1 DEF TrackStates
        <4> QED
          BY <1>1, <1>3, <2>1, <3>1, <4>1, <4>2
             DEF RtpTrackOK, PortFor, RtpParticipantOK, TrackArrives
      <3>2. CASE LookUpPort(p, t)
        <4>1. /\ track'[p][t] = [track[p][t] EXCEPT !.at = "looked",
                                   !.port = PortFor(p, t)]
              /\ \A q \in Participants, r \in Tracks :
                   ~(q = p /\ r = t) => track'[q][r] = track[q][r]
          BY <1>2, <3>2, SetTrackAt DEF LookUpPort
        <4>2. /\ track'[p][t].at = "looked"
              /\ track'[p][t].port = PortFor(p, t)
              /\ track'[p][t].conn = track[p][t].conn
          BY <1>2, <4>1 DEF TrackStates
        <4> QED
          BY <1>1, <1>3, <2>1, <3>2, <4>1, <4>2
             DEF RtpTrackOK, PortFor, LookUpPort
      <3>3. CASE DialTranscoder(p, t)
        <4>1. /\ track'[p][t] \in {[track[p][t] EXCEPT !.at = "forwarding",
                                      !.conn = "open"],
                                   [track[p][t] EXCEPT !.at = "ended"]}
              /\ \A q \in Participants, r \in Tracks :
                   ~(q = p /\ r = t) => track'[q][r] = track[q][r]
          BY <1>2, <3>3, SetTrackAt DEF DialTranscoder
        <4>2. /\ track'[p][t].at \in {"forwarding", "ended"}
              /\ track'[p][t].port = track[p][t].port
          BY <1>2, <4>1 DEF TrackStates
        <4> QED
          BY <1>1, <1>3, <2>1, <3>3, <4>1, <4>2
             DEF RtpTrackOK, PortFor, DialTranscoder
      <3>4. CASE ForwardingEnds(p, t)
        <4>1. /\ track'[p][t] = [track[p][t] EXCEPT !.at = "ended"]
              /\ \A q \in Participants, r \in Tracks :
                   ~(q = p /\ r = t) => track'[q][r] = track[q][r]
          BY <1>2, <3>4, SetTrackAt DEF ForwardingEnds
        <4>2. /\ track'[p][t].at = "ended"
              /\ track'[p][t].port = track[p][t].port
              /\ track'[p][t].conn = track[p][t].conn
          BY <1>2, <4>1 DEF TrackStates
        <4> QED
          BY <1>1, <1>3, <2>1, <3>4, <4>1, <4>2
             DEF RtpTrackOK, PortFor, ForwardingEnds
      <3> QED
        BY <1>5, <3>1, <3>2, <3>3, <3>4 DEF TrackStep
    <2> QED
      BY <1>1, <2>1, <2>2, <2>3, RtpOneTrack
  <1> QED
    BY <1>4, <1>5

\* Close closes the sockets of the published tracks, the only open ones.
LEMMA RtpCloseTracks ==
    ASSUME PortsIInv, RtpIInv, ParticipantTypeOK', NEW p \in Participants,
           NEW by \in {"router", "callback"}, CloseTracks(p, by)
    PROVE  RtpIInv'
  <1>1. /\ UNCHANGED <<phase, allocatedPorts, pc>>
        /\ lock' = [lock EXCEPT ![p] = by]
        /\ publishedTracks' = [publishedTracks EXCEPT ![p] = {}]
        /\ \A t \in publishedTracks[p] : track[p][t].conn # "none"
    BY DEF CloseTracks, Undialled, peerVars
  <1>2. \A q \in Participants :
          publishedTracks'[q] = IF q = p THEN {} ELSE publishedTracks[q]
    BY <1>1 DEF PortsIInv, ParticipantTypeOK
  <1>3. \A q \in Participants : RtpParticipantOK(q)'
    BY <1>1, <1>2
       DEF RtpIInv, RtpParticipantOK, AllPortsAllocated, PortsIInv,
           ParticipantTypeOK
  <1>4. ASSUME NEW q \in Participants, NEW t \in Tracks
        PROVE  RtpTrackOK(q, t)'
    <2>1. track[q][t] \in TrackStates /\ RtpTrackOK(q, t)
      BY DEF PortsIInv, ParticipantTypeOK, RtpIInv
    <2>2. track' = [track EXCEPT ![p] = CloseConns(p)]
      BY DEF CloseTracks
    <2>3. CASE q = p /\ t \in publishedTracks[p]
      <3>1. CloseConns(p)[t] = [track[p][t] EXCEPT !.conn = "closed"]
        BY <2>3 DEF CloseConns
      <3>2. track'[q][t] = [track[q][t] EXCEPT !.conn = "closed"]
        BY <2>2, <2>3, <3>1 DEF PortsIInv, ParticipantTypeOK
      <3>3. /\ track'[q][t].at = track[q][t].at
            /\ track'[q][t].port = track[q][t].port
            /\ track'[q][t].conn = "closed"
        BY <2>1, <3>2 DEF TrackStates
      <3> QED
        BY <1>1, <2>1, <2>3, <3>3 DEF RtpTrackOK, PortFor
    <2>4. CASE q = p /\ t \notin publishedTracks[p]
      <3>1. CloseConns(p)[t] = track[p][t]
        BY <2>4 DEF CloseConns
      <3>2. track'[q][t] = track[q][t]
        BY <2>2, <2>4, <3>1 DEF PortsIInv, ParticipantTypeOK
      <3> QED
        BY <1>1, <2>1, <2>4, <3>2 DEF RtpTrackOK, PortFor
    <2>5. CASE q # p
      <3>1. track'[q][t] = track[q][t]
        BY <2>2, <2>5 DEF PortsIInv, ParticipantTypeOK
      <3> QED
        BY <1>1, <1>2, <2>1, <2>5, <3>1 DEF RtpTrackOK, PortFor
    <2> QED
      BY <2>3, <2>4, <2>5
  <1> QED
    BY <1>3, <1>4 DEF RtpIInv

\* The steps that change neither tracks nor the map of a finished participant.
LEMMA RtpOtherStep ==
    ASSUME PortsIInv, RtpIInv, ParticipantTypeOK', NEW p \in Participants,
           \/ \E port \in Ports : FreePort(p, port)
           \/ CloseReturns(p)
           \/ \E c \in Codecs, port \in Ports : AllocatePort(p, c, port)
           \/ ClosePeer(p) \/ PeerConnects(p) \/ PeerFails(p)
           \/ HandleOffer(p)
           \/ \E u \in Users : NewParticipant(p, u)
           \/ NewParticipantReturns(p)
    PROVE  RtpIInv'
  <1>0. UNCHANGED mediaVars
    BY DEF FreePort, CloseReturns, AllocatePort, ClosePeer, PeerConnects,
           PeerFails, HandleOffer, NewParticipant, NewParticipantReturns
  <1>1. CASE \E port \in Ports : FreePort(p, port)
    BY <1>0, <1>1
       DEF FreePort, RtpIInv, RtpParticipantOK, RtpTrackOK, PortFor,
           AllPortsAllocated, peerVars, mediaVars
  <1>2. CASE CloseReturns(p)
    <2>1. /\ phase' = [phase EXCEPT ![p] = "closed"]
          /\ allocatedPorts' = [allocatedPorts EXCEPT ![p] = NoPorts]
          /\ lock' = [lock EXCEPT ![p] = "free"] /\ pc' = pc
          /\ lock[p] # "free"
      BY <1>2 DEF CloseReturns, ForgetPorts, Unlock
    <2> QED
      BY <1>0, <2>1
         DEF RtpIInv, RtpParticipantOK, RtpTrackOK, PortFor, AllPortsAllocated,
             mediaVars, PortsIInv, ParticipantTypeOK
  <1>3. CASE \E c \in Codecs, port \in Ports : AllocatePort(p, c, port)
    <2>1. /\ UNCHANGED <<phase, lock, pc>> /\ phase[p] = "building"
          /\ \A q \in Participants \ {p} : allocatedPorts'[q] = allocatedPorts[q]
      BY <1>3 DEF AllocatePort, peerVars, PortsIInv, ParticipantTypeOK
    <2> QED
      BY <1>0, <2>1
         DEF RtpIInv, RtpParticipantOK, RtpTrackOK, PortFor, AllPortsAllocated,
             mediaVars
  <1>4. CASE ClosePeer(p) \/ PeerConnects(p) \/ PeerFails(p) \/ HandleOffer(p)
    <2>1. /\ UNCHANGED <<phase, lock, allocatedPorts>>
          /\ \A q \in Participants \ {p} : pc'[q] = pc[q]
          /\ phase[p] \in {"open", "closed"} \/ pc[p] # "new"
      BY <1>4 DEF ClosePeer, PeerConnects, PeerFails, HandleOffer, portVars,
                  PortsIInv, ParticipantTypeOK
    <2> QED
      BY <1>0, <2>1
         DEF RtpIInv, RtpParticipantOK, RtpTrackOK, PortFor, AllPortsAllocated,
             mediaVars
  <1>5. CASE \E u \in Users : NewParticipant(p, u)
    <2>1. /\ UNCHANGED <<lock, allocatedPorts, pc>> /\ phase[p] = "unborn"
          /\ phase' = [phase EXCEPT ![p] = "building"]
      BY <1>5 DEF NewParticipant, portVars, peerVars
    <2> QED
      BY <1>0, <2>1
         DEF RtpIInv, RtpParticipantOK, RtpTrackOK, PortFor, AllPortsAllocated,
             mediaVars, PortsIInv, ParticipantTypeOK
  <1>6. CASE NewParticipantReturns(p)
    <2>1. /\ UNCHANGED <<lock, allocatedPorts, pc>> /\ phase[p] = "building"
          /\ phase' = [phase EXCEPT ![p] = "open"] /\ AllPortsAllocated(p)
      BY <1>6 DEF NewParticipantReturns, portVars, peerVars
    <2> QED
      BY <1>0, <2>1
         DEF RtpIInv, RtpParticipantOK, RtpTrackOK, PortFor, AllPortsAllocated,
             mediaVars, PortsIInv, ParticipantTypeOK
  <1> QED
    BY <1>1, <1>2, <1>3, <1>4, <1>5, <1>6

LEMMA RtpStep ==
    ASSUME PortsIInv, RtpIInv, [ParticipantNext]_participantVars
    PROVE  RtpIInv'
  <1>0. ParticipantTypeOK'
    BY ParticipantTypeStep DEF PortsIInv
  <1>1. ASSUME NEW p \in Participants, GoroutineStep(p) \/ RouterStep(p)
        PROVE  RtpIInv'
    <2>1. CASE \E by \in {"router", "callback"} : CloseTracks(p, by)
      BY <1>0, <2>1, RtpCloseTracks
    <2>2. CASE \E t \in Tracks : TrackStep(p, t)
      BY <1>0, <2>2, RtpTrackStep
    <2>3. CASE ~(\E by \in {"router", "callback"} : CloseTracks(p, by))
               /\ ~\E t \in Tracks : TrackStep(p, t)
      BY <1>0, <1>1, <2>3, RtpOtherStep
         DEF GoroutineStep, RouterStep, FailedCallback, TrackStep
    <2> QED
      BY <2>1, <2>2, <2>3
  <1>2. CASE Crash
    <2>1. ProcessDies
      BY <1>2
         DEF Crash, Kill, NilParticipantPanics, NilConnPanics, RegisterPanics,
             ReceiverCandidatePanics
    <2> QED
      BY <2>1
         DEF ProcessDies, RtpIInv, RtpParticipantOK, RtpTrackOK, PortFor,
             NoTrack, PortsIInv, ParticipantTypeOK
  <1>3. CASE Restart \/ UNCHANGED participantVars
    BY <1>3
       DEF Restart, participantVars, RtpIInv, RtpParticipantOK, RtpTrackOK,
           PortFor, AllPortsAllocated, portVars, peerVars, mediaVars
  <1> QED
    BY <1>1, <1>2, <1>3 DEF ParticipantNext

\* The RTP of a track with an id of its own is only ever sent to a port that its
\* participant answers for, or to port 0 if there is none for its payload type.
THEOREM RtpStaysOnOwnPorts == ParticipantSpec => []RtpGoesToOwnPorts
  <1>1. ParticipantInit => RtpIInv
    BY
       DEF ParticipantInit, RtpIInv, RtpParticipantOK, RtpTrackOK, PortFor,
           NoTrack
  <1>2. PortsIInv /\ RtpIInv /\ [ParticipantNext]_participantVars => RtpIInv'
    BY RtpStep
  <1>3. PortsIInv /\ RtpIInv => RtpGoesToOwnPorts
    BY RtpImplies
  <1> QED
    BY <1>1, <1>2, <1>3, PortsInductive, PTL DEF ParticipantSpec
=============================================================================
