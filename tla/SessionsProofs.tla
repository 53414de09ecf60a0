---------------------------- MODULE SessionsProofs ----------------------------
(***************************************************************************)
(* Theorems about module Sessions: it implements module Participant, whose *)
(* theorems it inherits, and its rooms, its rows and its participants stay *)
(* in step.                                                                *)
(***************************************************************************)
EXTENDS Sessions, ParticipantProofs

\* What the handler that runs knows of its participant.
RouterOK ==
    /\ router.op = "join" =>
         /\ router.part \in Participants
         /\ phase[router.part] = "building"
         /\ userOf[router.part] = router.user
         /\ \A q \in Participants : q > router.part => phase[q] = "unborn"
    /\ router.op \in {"greet", "close", "abort"} =>
         /\ router.part \in Participants
         /\ joined[router.user] = router.part
    /\ router.op = "offline" /\ joined[router.user] \in Participants =>
         phase[joined[router.user]] = "closed"
    /\ router.op # "idle" => router.user \in rooms

\* Participants are created in their order, by the router, each for a user; the
\* one in a room is one of the room's user that has been built.
CreationOK ==
    /\ \A p, q \in Participants :
         q < p /\ phase[p] # "unborn" => phase[q] # "unborn"
    /\ \A p \in Participants :
         /\ userOf[p] \in Users <=> phase[p] # "unborn"
         /\ phase[p] = "building" => router.op = "join" /\ router.part = p
    /\ \A u \in Users :
         joined[u] # NoParticipant => phase[joined[u]] \in {"open", "closed"}

SessionsIInv ==
    /\ SessionsTypeOK
    /\ PortsIInv
    /\ RouterOK
    /\ CreationOK
    /\ RoomsHaveParticipants
    /\ OnlyReplacedParticipantsStray
    /\ RoomsAreOnline

LEMMA NoParticipantIsNone == NoParticipant \notin Participants
  BY DEF NoParticipant, Participants

LEMMA ParticipantsAreNumbers == Participants \subseteq Nat
  BY DEF Participants

-----------------------------------------------------------------------------
(* Sessions takes only steps that module Participant allows.               *)

LEMMA ParticipantSimulation ==
    ASSUME SessionsIInv, [SessionsNext]_vars
    PROVE  [ParticipantNext]_participantVars
  <1> SUFFICES ParticipantNext \/ UNCHANGED participantVars
    OBVIOUS
  <1>1. CASE RouterNext
    <2>1. ASSUME NEW u \in Users, NEW p \in Participants, StartSession(u, p)
          PROVE  ParticipantNext
      BY <2>1 DEF StartSession, ParticipantNext, RouterStep
    <2>2. ASSUME NEW u \in Users, Offer(u)
          PROVE  ParticipantNext
      <3>1. joined[u] \in Participants
        BY <2>2 DEF Offer, SessionsIInv, SessionsTypeOK
      <3> QED
        BY <2>2, <3>1 DEF Offer, ParticipantNext, RouterStep
    <2>3. CASE JoinAllocates \/ JoinRoom
      <3>1. router.part \in Participants
        BY <2>3 DEF JoinAllocates, JoinRoom, SessionsIInv, RouterOK
      <3> QED
        BY <2>3, <3>1 DEF JoinAllocates, JoinRoom, ParticipantNext, RouterStep
    <2>4. CASE RouterCloses \/ RouterFreesPort \/ RouterCloseReturns
      <3>1. router.part \in Participants
        BY <2>4 DEF RouterCloses, RouterFreesPort, RouterCloseReturns,
                    SessionsIInv, RouterOK
      <3> QED
        BY <2>4, <3>1 DEF RouterCloses, RouterFreesPort, RouterCloseReturns,
                          ParticipantNext, RouterStep
    <2>5. CASE \/ GreetClient \/ GoOffline
               \/ \E u \in Users :
                    CloseSession(u) \/ PublishStream(u) \/ StopStream(u)
      BY <2>5 DEF GreetClient, GoOffline, CloseSession, PublishStream, StopStream
    <2> QED
      BY <1>1, <2>1, <2>2, <2>3, <2>4, <2>5 DEF RouterNext
  <1>2. CASE GoroutinesNext
    BY <1>2 DEF GoroutinesNext, ParticipantNext
  <1>3. CASE SessionsCrash /\ SessionsLost
    <2>1. CASE JoinPanics \/ RouterClosePanics
      <3>1. router.part \in Participants
        BY <2>1 DEF JoinPanics, RouterClosePanics, SessionsIInv, RouterOK
      <3> QED
        BY <2>1, <3>1 DEF JoinPanics, RouterClosePanics, ParticipantNext, Crash
    <2>2. ASSUME NEW u \in Users, AddReceiverCandidate(u)
          PROVE  ParticipantNext
      <3>1. joined[u] \in Participants
        BY <2>2 DEF AddReceiverCandidate, SessionsIInv, SessionsTypeOK
      <3> QED
        BY <2>2, <3>1 DEF AddReceiverCandidate, ParticipantNext, Crash
    <2>3. CASE \/ Kill
               \/ \E p \in Participants : \/ CallbackPanics(p)
                                          \/ \E t \in Tracks : RegisterPanics(p, t)
      BY <2>3 DEF CallbackPanics, ParticipantNext, Crash
    <2> QED
      BY <1>3, <2>1, <2>2, <2>3 DEF SessionsCrash
  <1>4. CASE Restart \/ UNCHANGED vars
    BY <1>4 DEF ParticipantNext, vars
  <1> QED
    BY <1>1, <1>2, <1>3, <1>4 DEF SessionsNext

-----------------------------------------------------------------------------
(* The types.                                                              *)

LEMMA SessionsTypeStep ==
    ASSUME SessionsIInv, [SessionsNext]_vars
    PROVE  SessionsTypeOK'
  <1>1. ParticipantTypeOK'
    BY ParticipantSimulation, ParticipantTypeStep DEF SessionsIInv, SessionsTypeOK
  <1> USE DEF SessionsTypeOK, Ops
  <1>2. CASE RouterNext
    <2>1. ASSUME NEW u \in Users, NEW p \in Participants, StartSession(u, p)
          PROVE  SessionsTypeOK'
      BY <1>1, <2>1 DEF StartSession, Save, Row, SessionsIInv
    <2>2. ASSUME NEW u \in Users, CloseSession(u)
          PROVE  SessionsTypeOK'
      BY <1>1, <2>2 DEF CloseSession, RoomClose, SessionsIInv
    <2>3. ASSUME NEW u \in Users, PublishStream(u)
          PROVE  SessionsTypeOK'
      BY <1>1, <2>3 DEF PublishStream, StartPublish, Update, Row, SessionsIInv
    <2>4. ASSUME NEW u \in Users, StopStream(u)
          PROVE  SessionsTypeOK'
      BY <1>1, <2>4 DEF StopStream, StopPublish, Row, SessionsIInv
    <2>5. ASSUME NEW u \in Users, Offer(u)
          PROVE  SessionsTypeOK'
      BY <1>1, <2>5 DEF Offer, sessionVars, SessionsIInv
    <2>6. CASE JoinAllocates \/ RouterCloses \/ RouterFreesPort
      BY <1>1, <2>6 DEF JoinAllocates, RouterCloses, RouterFreesPort,
                        sessionVars, SessionsIInv
    <2>7. CASE JoinRoom
      BY <1>1, <2>7 DEF JoinRoom, RoomJoin, SessionsIInv, RouterOK
    <2>8. CASE GreetClient
      BY <1>1, <2>8 DEF GreetClient, Idle, SessionsIInv
    <2>9. CASE RouterCloseReturns
      BY <1>1, <2>9 DEF RouterCloseReturns, Idle, SessionsIInv
    <2>10. CASE GoOffline
      <3>1. /\ rooms' \subseteq Users
            /\ joined' \in [Users -> Participants \cup {NoParticipant}]
        BY <2>10 DEF GoOffline, DeleteRoom, SessionsIInv
      <3>2. rows' \in [Users -> Row \cup {NoRow}]
        <4>1. [is_online |-> FALSE, state |-> "idle", media_type |-> "NULL"] \in Row
          BY DEF Row
        <4>2. rows \in [Users -> Row \cup {NoRow}]
          BY DEF SessionsIInv
        <4> QED
          BY <2>10, <4>1, <4>2 DEF GoOffline, SetOffline, Update
      <3>3. router' = Idle
        BY <2>10 DEF GoOffline
      <3> QED
        BY <1>1, <3>1, <3>2, <3>3 DEF Idle
    <2> QED
      BY <1>2, <2>1, <2>2, <2>3, <2>4, <2>5, <2>6, <2>7, <2>8, <2>9, <2>10
         DEF RouterNext
  <1>3. CASE SessionsLost
    BY <1>1, <1>3 DEF SessionsLost, Idle, SessionsIInv
  <1>4. CASE UNCHANGED sessionVars
    BY <1>1, <1>4 DEF sessionVars, SessionsIInv
  <1> QED
    BY <1>2, <1>3, <1>4 DEF SessionsNext, GoroutinesNext, vars

\* What of the invariant a step has to keep beside types and ports.
RoomsIInv ==
    /\ RouterOK
    /\ CreationOK
    /\ RoomsHaveParticipants
    /\ OnlyReplacedParticipantsStray
    /\ RoomsAreOnline

-----------------------------------------------------------------------------
(* The steps of the participants and of the handlers.                      *)

\* A step that at most closes participants and leaves the manager alone.
LEMMA QuietStep ==
    ASSUME SessionsIInv, SessionsTypeOK', UNCHANGED <<sessionVars, userOf>>,
           \A p \in Participants :
               \/ phase'[p] = phase[p]
               \/ phase[p] \in {"open", "closed"} /\ phase'[p] = "closed"
    PROVE  RoomsIInv'
  <1> USE DEF SessionsIInv, SessionsTypeOK, sessionVars
  <1>1. RouterOK'
    BY DEF RouterOK, CreationOK
  <1>2. CreationOK'
    BY NoParticipantIsNone DEF CreationOK
  <1>3. RoomsHaveParticipants' /\ RoomsAreOnline'
    BY DEF RoomsHaveParticipants, RoomsAreOnline
  <1>4. OnlyReplacedParticipantsStray'
    BY DEF OnlyReplacedParticipantsStray
  <1> QED
    BY <1>1, <1>2, <1>3, <1>4 DEF RoomsIInv

LEMMA CloseReturnsIsQuiet ==
    ASSUME SessionsIInv, NEW p \in Participants, CloseReturns(p)
    PROVE  /\ userOf' = userOf
           /\ phase[p] \in {"open", "closed"}
           /\ phase' = [phase EXCEPT ![p] = "closed"]
  BY DEF CloseReturns, SessionsIInv, PortsIInv, PortsLifecycle

LEMMA GoroutineIsQuiet ==
    ASSUME SessionsIInv, NEW p \in Participants,
           GoroutineStep(p) \/ CloseTracks(p, "router") \/ HandleOffer(p)
             \/ (\E port \in Ports : FreePort(p, port))
             \/ \E c \in Codecs, port \in Ports : AllocatePort(p, c, port)
    PROVE  /\ userOf' = userOf
           /\ \A q \in Participants :
                \/ phase'[q] = phase[q]
                \/ phase[q] \in {"open", "closed"} /\ phase'[q] = "closed"
  <1>1. CASE CloseReturns(p)
    BY <1>1, CloseReturnsIsQuiet DEF SessionsIInv, SessionsTypeOK, ParticipantTypeOK
  <1>2. CASE ~CloseReturns(p)
    <2>1. UNCHANGED <<phase, userOf>>
      BY <1>2 DEF GoroutineStep, FailedCallback, CloseTracks, FreePort, ClosePeer,
             PeerConnects, PeerFails, HandleOffer, AllocatePort, TrackArrives,
             LookUpPort, RegisterTrack, DialTranscoder, ForwardingEnds,
             TrackVarsUnchanged
    <2> QED
      BY <2>1
  <1> QED
    BY <1>1, <1>2

LEMMA StartSessionStep ==
    ASSUME SessionsIInv, SessionsTypeOK', NEW u \in Users,
           NEW p \in Participants, StartSession(u, p)
    PROVE  RoomsIInv'
  <1>1. /\ phase[p] = "unborn" /\ phase' = [phase EXCEPT ![p] = "building"]
        /\ userOf' = [userOf EXCEPT ![p] = u]
        /\ \A q \in Participants : q < p => phase[q] # "unborn"
        /\ router.op = "idle" /\ joined' = joined /\ rooms' = rooms \cup {u}
        /\ router' = [op |-> "join", user |-> u, part |-> p]
    BY DEF StartSession, NewParticipant, Participants
  <1>2. /\ \A q \in Participants : q > p => phase[q] = "unborn"
        /\ \A v \in Users : joined[v] # p
    BY <1>1, NoParticipantIsNone DEF SessionsIInv, CreationOK
  <1>3. RouterOK'
    BY <1>1, <1>2, ParticipantsAreNumbers DEF RouterOK, SessionsIInv,
       SessionsTypeOK, ParticipantTypeOK
  <1>4. CreationOK'
    <2>1. \A q, r \in Participants :
            r < q /\ phase'[q] # "unborn" => phase'[r] # "unborn"
      BY <1>1, <1>2, ParticipantsAreNumbers DEF SessionsIInv, CreationOK,
         SessionsTypeOK, ParticipantTypeOK
    <2>2. \A q \in Participants :
            /\ userOf'[q] \in Users <=> phase'[q] # "unborn"
            /\ phase'[q] = "building" => router'.op = "join" /\ router'.part = q
      BY <1>1 DEF SessionsIInv, CreationOK, SessionsTypeOK, ParticipantTypeOK
    <2>3. \A v \in Users :
            joined'[v] # NoParticipant => phase'[joined'[v]] \in {"open", "closed"}
      BY <1>1, <1>2 DEF SessionsIInv, CreationOK, SessionsTypeOK, ParticipantTypeOK
    <2> QED
      BY <2>1, <2>2, <2>3 DEF CreationOK
  <1>5. RoomsHaveParticipants'
    <2>1. \A v \in Users : joined[v] # NoParticipant => userOf'[joined[v]] = v
      BY <1>1, <1>2 DEF SessionsIInv, RoomsHaveParticipants, SessionsTypeOK,
                        ParticipantTypeOK
    <2> QED
      BY <1>1, <2>1 DEF SessionsIInv, RoomsHaveParticipants
  <1>6. OnlyReplacedParticipantsStray'
    <2> SUFFICES ASSUME NEW q \in Participants, phase'[q] = "open",
                        joined'[userOf'[q]] # q
                 PROVE  \E r \in (q + 1) .. MaxParticipants : userOf'[r] = userOf'[q]
      BY DEF OnlyReplacedParticipantsStray
    <2>1. q # p /\ phase[q] = "open" /\ userOf'[q] = userOf[q]
      BY <1>1 DEF SessionsIInv, SessionsTypeOK, ParticipantTypeOK
    <2>2. PICK r \in (q + 1) .. MaxParticipants : userOf[r] = userOf[q]
      BY <1>1, <2>1 DEF SessionsIInv, OnlyReplacedParticipantsStray
    <2>3. r \in Participants
      BY <2>2 DEF Participants
    <2>4. phase[r] # "unborn"
      BY <2>1, <2>2, <2>3 DEF SessionsIInv, CreationOK
    <2>5. userOf'[r] = userOf[r]
      BY <1>1, <2>3, <2>4 DEF SessionsIInv, SessionsTypeOK, ParticipantTypeOK
    <2> QED
      BY <2>1, <2>2, <2>5
  <1>7. RoomsAreOnline'
    <2>1. PICK row \in Row : row.is_online /\ rows' = [rows EXCEPT ![u] = row]
      <3>1. CASE rows[u] = NoRow
        <4>1. PICK row : row = [is_online |-> TRUE, state |-> "idle",
                                media_type |-> "NULL"]
          OBVIOUS
        <4>2. row \in Row /\ row.is_online
          BY <4>1 DEF Row
        <4> QED
          BY <3>1, <4>1, <4>2 DEF StartSession, Save
      <3>2. CASE rows[u] # NoRow
        <4>1. rows[u] \in Row
          BY <3>2 DEF SessionsIInv, SessionsTypeOK
        <4>2. /\ [rows[u] EXCEPT !.is_online = TRUE] \in Row
              /\ [rows[u] EXCEPT !.is_online = TRUE].is_online
          BY <4>1 DEF Row
        <4> QED
          BY <3>2, <4>2 DEF StartSession, Save
      <3> QED
        BY <3>1, <3>2
    <2> QED
      BY <1>1, <2>1, SessionsAssumption
         DEF SessionsIInv, RoomsAreOnline, SessionsTypeOK
  <1> QED
    BY <1>3, <1>4, <1>5, <1>6, <1>7 DEF RoomsIInv

LEMMA JoinRoomStep ==
    ASSUME SessionsIInv, SessionsTypeOK', JoinRoom
    PROVE  RoomsIInv'
  <1> DEFINE p == router.part
             u == router.user
  <1>1. /\ router.op = "join" /\ rooms' = rooms /\ rows' = rows
        /\ userOf' = userOf /\ phase' = [phase EXCEPT ![p] = "open"]
        /\ joined' = [joined EXCEPT ![u] = p]
        /\ router' = [router EXCEPT !.op = "greet"]
    BY DEF JoinRoom, RoomJoin, NewParticipantReturns
  <1>2. /\ p \in Participants /\ phase[p] = "building" /\ userOf[p] = u
        /\ \A q \in Participants : q > p => phase[q] = "unborn"
        /\ u \in rooms /\ u \in Users
    BY <1>1 DEF SessionsIInv, RouterOK, SessionsTypeOK
  <1>3. /\ router'.op = "greet" /\ router'.part = p /\ router'.user = u
    BY <1>1 DEF SessionsIInv, SessionsTypeOK
  <1> HIDE DEF p, u
  <1>4. RouterOK'
    BY <1>1, <1>2, <1>3 DEF RouterOK, SessionsIInv, SessionsTypeOK
  <1>5. CreationOK'
    BY <1>1, <1>2, <1>3 DEF CreationOK, SessionsIInv, SessionsTypeOK,
                            ParticipantTypeOK, p
  <1>6. RoomsHaveParticipants'
    BY <1>1, <1>2, <1>3, NoParticipantIsNone
       DEF RoomsHaveParticipants, SessionsIInv, SessionsTypeOK, u
  <1>7. OnlyReplacedParticipantsStray'
    <2> SUFFICES ASSUME NEW q \in Participants, phase'[q] = "open",
                        joined'[userOf'[q]] # q
                 PROVE  \E r \in (q + 1) .. MaxParticipants : userOf'[r] = userOf'[q]
      BY DEF OnlyReplacedParticipantsStray
    <2>1. q # p /\ phase[q] = "open" /\ userOf[q] \in Users
      BY <1>1, <1>2 DEF SessionsIInv, CreationOK, SessionsTypeOK, ParticipantTypeOK
    <2>2. CASE userOf[q] = u
      <3>1. q < p
        BY <1>2, <2>1, ParticipantsAreNumbers
      <3>2. p \in (q + 1) .. MaxParticipants
        BY <1>2, <3>1 DEF Participants
      <3> QED
        BY <1>1, <1>2, <2>2, <3>2
    <2>3. CASE userOf[q] # u
      <3>1. joined[userOf[q]] # q
        BY <1>1, <1>2, <2>1, <2>3 DEF SessionsIInv, SessionsTypeOK
      <3> QED
        BY <1>1, <2>1, <3>1 DEF SessionsIInv, OnlyReplacedParticipantsStray
    <2> QED
      BY <2>2, <2>3
  <1>8. RoomsAreOnline'
    BY <1>1 DEF SessionsIInv, RoomsAreOnline
  <1> QED
    BY <1>4, <1>5, <1>6, <1>7, <1>8 DEF RoomsIInv

LEMMA GreetClientStep ==
    ASSUME SessionsIInv, SessionsTypeOK', GreetClient
    PROVE  RoomsIInv'
  <1>1. /\ router.op = "greet" /\ UNCHANGED <<rooms, joined, rows, phase, userOf>>
        /\ router' = Idle \/ router' = [router EXCEPT !.op = "abort"]
    BY DEF GreetClient, participantVars
  <1>2. RouterOK'
    BY <1>1 DEF Idle, RouterOK, SessionsIInv, SessionsTypeOK
  <1>3. CreationOK'
    BY <1>1 DEF CreationOK, SessionsIInv
  <1>4. RoomsHaveParticipants' /\ OnlyReplacedParticipantsStray' /\ RoomsAreOnline'
    BY <1>1 DEF RoomsHaveParticipants, OnlyReplacedParticipantsStray,
                RoomsAreOnline, SessionsIInv
  <1> QED
    BY <1>2, <1>3, <1>4 DEF RoomsIInv

LEMMA CloseSessionStep ==
    ASSUME SessionsIInv, SessionsTypeOK', NEW u \in Users, CloseSession(u)
    PROVE  RoomsIInv'
  <1>1. /\ router.op = "idle" /\ UNCHANGED <<rooms, joined, rows, phase, userOf>>
        /\ u \in rooms
        /\ router' = [op |-> RoomClose(u), user |-> u, part |-> joined[u]]
    BY DEF CloseSession, participantVars
  <1>2. joined[u] \in Participants /\ RoomClose(u) = "close"
    BY <1>1 DEF RoomClose, SessionsIInv, RoomsHaveParticipants, SessionsTypeOK
  <1>3. RouterOK'
    BY <1>1, <1>2 DEF RouterOK
  <1>4. CreationOK'
    BY <1>1 DEF CreationOK, SessionsIInv
  <1>5. RoomsHaveParticipants' /\ OnlyReplacedParticipantsStray' /\ RoomsAreOnline'
    BY <1>1 DEF RoomsHaveParticipants, OnlyReplacedParticipantsStray,
                RoomsAreOnline, SessionsIInv
  <1> QED
    BY <1>3, <1>4, <1>5 DEF RoomsIInv

LEMMA RouterCloseReturnsStep ==
    ASSUME SessionsIInv, SessionsTypeOK', RouterCloseReturns
    PROVE  RoomsIInv'
  <1> DEFINE p == router.part
  <1>1. /\ p \in Participants /\ joined[router.user] = p
        /\ router.user \in rooms
        /\ UNCHANGED <<rooms, joined, rows, userOf>>
        /\ phase' = [phase EXCEPT ![p] = "closed"]
        /\ phase[p] \in {"open", "closed"}
        /\ router.op \in {"close", "abort"}
    BY CloseReturnsIsQuiet DEF RouterCloseReturns, SessionsIInv, RouterOK
  <1>2. \/ /\ router'.op = "offline"
           /\ router'.user = router.user
        \/ router' = Idle
    BY DEF RouterCloseReturns, SessionsIInv, SessionsTypeOK
  <1>3. RouterOK'
    BY <1>1, <1>2 DEF Idle, RouterOK, SessionsIInv, SessionsTypeOK,
                      ParticipantTypeOK
  <1>4. CreationOK'
    BY <1>1 DEF CreationOK, SessionsIInv, SessionsTypeOK, ParticipantTypeOK
  <1>5. RoomsHaveParticipants' /\ RoomsAreOnline'
    BY <1>1 DEF RoomsHaveParticipants, RoomsAreOnline, SessionsIInv
  <1>6. OnlyReplacedParticipantsStray'
    BY <1>1 DEF OnlyReplacedParticipantsStray, SessionsIInv, SessionsTypeOK,
                ParticipantTypeOK
  <1> QED
    BY <1>3, <1>4, <1>5, <1>6 DEF RoomsIInv

LEMMA GoOfflineStep ==
    ASSUME SessionsIInv, SessionsTypeOK', GoOffline
    PROVE  RoomsIInv'
  <1> DEFINE u == router.user
  <1>1. /\ router.op = "offline" /\ router' = Idle
        /\ UNCHANGED <<phase, userOf>>
        /\ u \in Users /\ rooms' = rooms \ {u}
        /\ joined' = [joined EXCEPT ![u] = NoParticipant]
        /\ \A v \in Users \ {u} : rows'[v] = rows[v]
    <2>1. u \in Users
      BY DEF GoOffline, SessionsIInv, RouterOK, SessionsTypeOK
    <2>2. \A v \in Users \ {u} : rows'[v] = rows[v]
      BY DEF GoOffline, SetOffline, Update, SessionsIInv, SessionsTypeOK
    <2> QED
      BY <2>1, <2>2 DEF GoOffline, DeleteRoom, participantVars
  <1>2. joined[u] \in Participants => phase[joined[u]] = "closed"
    BY <1>1 DEF SessionsIInv, RouterOK
  <1>3. \A v \in Users : joined'[v] = IF v = u THEN NoParticipant ELSE joined[v]
    BY <1>1 DEF SessionsIInv, SessionsTypeOK
  <1> HIDE DEF u
  <1>4. RouterOK'
    BY <1>1 DEF Idle, RouterOK
  <1>5. CreationOK'
    BY <1>1, <1>3 DEF Idle, CreationOK, SessionsIInv
  <1>6. RoomsHaveParticipants' /\ RoomsAreOnline'
    BY <1>1, <1>3 DEF RoomsHaveParticipants, RoomsAreOnline, SessionsIInv,
                      SessionsTypeOK
  <1>7. OnlyReplacedParticipantsStray'
    <2> SUFFICES ASSUME NEW q \in Participants, phase[q] = "open",
                        joined'[userOf[q]] # q
                 PROVE  \E r \in (q + 1) .. MaxParticipants : userOf[r] = userOf[q]
      BY <1>1 DEF OnlyReplacedParticipantsStray
    <2>1. userOf[q] \in Users
      BY DEF SessionsIInv, CreationOK
    <2>2. joined[userOf[q]] # q
      BY <1>2, <1>3, <2>1
    <2> QED
      BY <2>2 DEF SessionsIInv, OnlyReplacedParticipantsStray
  <1> QED
    BY <1>4, <1>5, <1>6, <1>7 DEF RoomsIInv

\* StartPublish and StopPublish leave a row and leave it online.
LEMMA PublishStep ==
    ASSUME SessionsIInv, SessionsTypeOK', NEW u \in Users,
           PublishStream(u) \/ StopStream(u)
    PROVE  RoomsIInv'
  <1>1. UNCHANGED <<rooms, joined, router, phase, userOf>> /\ u \in rooms
    BY DEF PublishStream, StopStream, participantVars
  <1>2. rows[u] \in Row /\ rows[u].is_online
    BY <1>1 DEF SessionsIInv, RoomsAreOnline, SessionsTypeOK
  <1>3. PICK row \in Row : row.is_online /\ rows' = [rows EXCEPT ![u] = row]
    <2>1. rows[u] # NoRow
      BY <1>2, SessionsAssumption
    <2>2. CASE PublishStream(u)
      BY <2>1, <2>2 DEF PublishStream, StartPublish, Update, Row
    <2>3. CASE StopStream(u)
      <3>1. /\ [rows[u] EXCEPT !.state = "idle", !.media_type = "NULL"] \in Row
            /\ [rows[u] EXCEPT !.state = "idle", !.media_type = "NULL"].is_online
        BY <1>2 DEF Row
      <3> QED
        BY <2>1, <2>3, <3>1 DEF StopStream, StopPublish
    <2> QED
      BY <2>2, <2>3
  <1>4. RoomsAreOnline'
    BY <1>1, <1>3, SessionsAssumption
       DEF SessionsIInv, RoomsAreOnline, SessionsTypeOK
  <1>5. RouterOK' /\ CreationOK' /\ RoomsHaveParticipants'
        /\ OnlyReplacedParticipantsStray'
    BY <1>1 DEF SessionsIInv, RouterOK, CreationOK, RoomsHaveParticipants,
                OnlyReplacedParticipantsStray
  <1> QED
    BY <1>4, <1>5 DEF RoomsIInv

LEMMA CrashStep ==
    ASSUME SessionsIInv, SessionsTypeOK', SessionsCrash /\ SessionsLost
    PROVE  RoomsIInv'
  <1>1. ProcessDies
    BY DEF SessionsCrash, JoinPanics, RouterClosePanics, CallbackPanics,
           RegisterPanics, AddReceiverCandidate, ReceiverCandidatePanics, Kill,
           NilParticipantPanics, NilConnPanics
  <1>2. /\ \A p \in Participants :
             phase'[p] = IF phase[p] = "unborn" THEN "unborn" ELSE "gone"
        /\ userOf' = userOf /\ rooms' = {} /\ router' = Idle
        /\ joined' = [u \in Users |-> NoParticipant]
    BY <1>1 DEF ProcessDies, SessionsLost
  <1>3. CreationOK'
    BY <1>2 DEF CreationOK, SessionsIInv
  <1> QED
    BY <1>2, <1>3 DEF Idle, RoomsIInv, RouterOK, RoomsHaveParticipants,
       OnlyReplacedParticipantsStray, RoomsAreOnline

-----------------------------------------------------------------------------
LEMMA SessionsStep ==
    SessionsIInv /\ [SessionsNext]_vars => SessionsIInv'
  <1> SUFFICES ASSUME SessionsIInv, [SessionsNext]_vars
               PROVE  SessionsIInv'
    OBVIOUS
  <1>1. SessionsTypeOK'
    BY SessionsTypeStep
  <1>2. PortsIInv'
    BY ParticipantSimulation, PortsStep DEF SessionsIInv
  <1>3. ASSUME RouterNext PROVE RoomsIInv'
    <2>1. ASSUME NEW u \in Users, NEW p \in Participants, StartSession(u, p)
          PROVE  RoomsIInv'
      BY <1>1, <2>1, StartSessionStep
    <2>2. ASSUME NEW u \in Users, CloseSession(u)
          PROVE  RoomsIInv'
      BY <1>1, <2>2, CloseSessionStep
    <2>3. ASSUME NEW u \in Users, PublishStream(u) \/ StopStream(u)
          PROVE  RoomsIInv'
      BY <1>1, <2>3, PublishStep
    <2>4. ASSUME NEW u \in Users, Offer(u)
          PROVE  RoomsIInv'
      <3>1. joined[u] \in Participants /\ HandleOffer(joined[u])
            /\ UNCHANGED sessionVars
        BY <2>4 DEF Offer, SessionsIInv, SessionsTypeOK
      <3> QED
        BY <1>1, <3>1, GoroutineIsQuiet, QuietStep
    <2>5. ASSUME JoinAllocates \/ RouterCloses \/ RouterFreesPort
          PROVE  RoomsIInv'
      <3>1. router.part \in Participants /\ UNCHANGED sessionVars
        BY <2>5 DEF JoinAllocates, RouterCloses, RouterFreesPort, SessionsIInv,
                    RouterOK
      <3>2. \/ CloseTracks(router.part, "router")
            \/ \E port \in Ports : FreePort(router.part, port)
            \/ \E c \in Codecs, port \in Ports : AllocatePort(router.part, c, port)
        BY <2>5 DEF JoinAllocates, RouterCloses, RouterFreesPort
      <3>3. /\ userOf' = userOf
            /\ \A q \in Participants :
                 \/ phase'[q] = phase[q]
                 \/ phase[q] \in {"open", "closed"} /\ phase'[q] = "closed"
        BY <3>1, <3>2, GoroutineIsQuiet
      <3> QED
        BY <1>1, <3>1, <3>3, QuietStep
    <2>6. ASSUME JoinRoom PROVE RoomsIInv'
      BY <1>1, <2>6, JoinRoomStep
    <2>7. ASSUME GreetClient PROVE RoomsIInv'
      BY <1>1, <2>7, GreetClientStep
    <2>8. ASSUME RouterCloseReturns PROVE RoomsIInv'
      BY <1>1, <2>8, RouterCloseReturnsStep
    <2>9. ASSUME GoOffline PROVE RoomsIInv'
      BY <1>1, <2>9, GoOfflineStep
    <2> QED
      BY <1>3, <2>1, <2>2, <2>3, <2>4, <2>5, <2>6, <2>7, <2>8, <2>9
         DEF RouterNext
  <1>4. CASE GoroutinesNext
    <2>1. PICK p \in Participants : GoroutineStep(p) /\ UNCHANGED sessionVars
      BY <1>4 DEF GoroutinesNext
    <2>2. /\ userOf' = userOf
          /\ \A q \in Participants :
               \/ phase'[q] = phase[q]
               \/ phase[q] \in {"open", "closed"} /\ phase'[q] = "closed"
      BY <2>1, GoroutineIsQuiet
    <2>3. RoomsIInv'
      BY <1>1, <2>1, <2>2, QuietStep
    <2> QED
      BY <1>1, <1>2, <2>3 DEF RoomsIInv, SessionsIInv
  <1>5. CASE SessionsCrash /\ SessionsLost
    BY <1>1, <1>2, <1>5, CrashStep DEF RoomsIInv, SessionsIInv
  <1>6. CASE (Restart /\ UNCHANGED sessionVars) \/ UNCHANGED vars
    <2>1. UNCHANGED <<sessionVars, userOf, phase>>
      BY <1>6 DEF Restart, vars, participantVars
    <2>2. RoomsIInv'
      BY <1>1, <2>1, QuietStep
    <2> QED
      BY <1>1, <1>2, <2>2 DEF RoomsIInv, SessionsIInv
  <1>7. CASE RouterNext
    BY <1>1, <1>2, <1>3, <1>7 DEF RoomsIInv, SessionsIInv
  <1> QED
    BY <1>4, <1>5, <1>6, <1>7 DEF SessionsNext

LEMMA SessionsInitOK == SessionsInit => SessionsIInv
  <1> SUFFICES ASSUME SessionsInit PROVE SessionsIInv
    OBVIOUS
  <1>1. PortsIInv
    BY PortsInit DEF SessionsInit
  <1>2. SessionsTypeOK
    BY <1>1 DEF SessionsInit, SessionsTypeOK, PortsIInv, Idle, Ops
  <1>3. RouterOK /\ RoomsHaveParticipants /\ RoomsAreOnline
    BY DEF SessionsInit, Idle, RouterOK, RoomsHaveParticipants, RoomsAreOnline
  <1>4. CreationOK /\ OnlyReplacedParticipantsStray
    BY ClientsAssumption
       DEF SessionsInit, ParticipantInit, CreationOK,
           OnlyReplacedParticipantsStray
  <1> QED
    BY <1>1, <1>2, <1>3, <1>4 DEF SessionsIInv

LEMMA SessionsInductive == SessionsSpec => []SessionsIInv
  BY SessionsInitOK, SessionsStep, PTL DEF SessionsSpec

-----------------------------------------------------------------------------
(* The broadcasts that the table shows.                                    *)

\* Only the end of the process makes a participant "gone", and for good.
LEMMA GoneIsForGood ==
    ASSUME SessionsIInv, [SessionsNext]_vars, NoCrashYet'
    PROVE  NoCrashYet
  <1> SUFFICES ASSUME NEW p \in Participants, phase[p] = "gone"
               PROVE  FALSE
    BY DEF NoCrashYet
  <1>1. phase'[p] # "gone"
    BY DEF NoCrashYet
  <1> USE DEF SessionsIInv, SessionsTypeOK, ParticipantTypeOK
  <1>2. ASSUME NEW u \in Users, NEW q \in Participants, StartSession(u, q)
        PROVE  FALSE
    BY <1>1, <1>2 DEF StartSession, NewParticipant
  <1>3. ASSUME NEW q \in Participants,
               GoroutineStep(q) \/ CloseTracks(q, "router") \/ HandleOffer(q)
                 \/ (\E port \in Ports : FreePort(q, port))
                 \/ \E c \in Codecs, port \in Ports : AllocatePort(q, c, port)
        PROVE  FALSE
    <2>1. phase'[p] = phase[p] \/ phase[p] \in {"open", "closed"}
      BY <1>3, GoroutineIsQuiet
    <2> QED
      BY <1>1, <2>1
  <1>4. CASE JoinRoom
    <2>1. phase' = [phase EXCEPT ![router.part] = "open"] /\ phase[router.part] = "building"
      BY <1>4 DEF JoinRoom, NewParticipantReturns, RouterOK
    <2> QED
      BY <1>1, <2>1
  <1>5. CASE RouterCloseReturns
    <2>1. router.part \in Participants /\ CloseReturns(router.part)
      BY <1>5 DEF RouterCloseReturns, RouterOK
    <2>2. /\ phase[router.part] \in {"open", "closed"}
          /\ phase' = [phase EXCEPT ![router.part] = "closed"]
      BY <2>1, CloseReturnsIsQuiet
    <2> QED
      BY <1>1, <2>2
  <1>6. CASE \/ GreetClient \/ GoOffline \/ Restart \/ UNCHANGED vars
             \/ \E u \in Users : CloseSession(u) \/ PublishStream(u) \/ StopStream(u)
    BY <1>1, <1>6 DEF GreetClient, GoOffline, Restart, vars, CloseSession, PublishStream,
                      StopStream, participantVars
  <1>7. CASE JoinAllocates \/ RouterCloses \/ RouterFreesPort
    <2>1. router.part \in Participants
      BY <1>7 DEF JoinAllocates, RouterCloses, RouterFreesPort, RouterOK
    <2> QED
      BY <1>3, <1>7, <2>1 DEF JoinAllocates, RouterCloses, RouterFreesPort
  <1>8. ASSUME NEW u \in Users, Offer(u)
        PROVE  FALSE
    BY <1>3, <1>8 DEF Offer
  <1>9. CASE SessionsCrash /\ SessionsLost
    <2>1. ProcessDies
      BY <1>9 DEF SessionsCrash, JoinPanics, RouterClosePanics, CallbackPanics,
             RegisterPanics, AddReceiverCandidate, ReceiverCandidatePanics, Kill,
             NilParticipantPanics, NilConnPanics
    <2> QED
      BY <1>1, <2>1 DEF ProcessDies
  <1> QED
    BY <1>2, <1>3, <1>4, <1>5, <1>6, <1>7, <1>8, <1>9
       DEF SessionsNext, RouterNext, GoroutinesNext

\* A process that ends with a room has a participant that is gone.
LEMMA CrashesAreSeen ==
    ASSUME SessionsIInv, SessionsCrash /\ SessionsLost, NoCrashYet'
    PROVE  rooms = {}
  <1> SUFFICES ASSUME NEW u \in rooms PROVE FALSE
    OBVIOUS
  <1>1. PICK p \in Participants : phase[p] # "unborn"
    <2>1. CASE joined[u] = NoParticipant
      BY <2>1 DEF SessionsIInv, SessionsTypeOK, RoomsHaveParticipants, RouterOK
    <2>2. CASE joined[u] # NoParticipant
      BY <2>2 DEF SessionsIInv, SessionsTypeOK, CreationOK
    <2> QED
      BY <2>1, <2>2
  <1>2. ProcessDies
    BY DEF SessionsCrash, JoinPanics, RouterClosePanics, CallbackPanics,
           RegisterPanics, AddReceiverCandidate, ReceiverCandidatePanics, Kill,
           NilParticipantPanics, NilConnPanics
  <1> QED
    BY <1>1, <1>2 DEF ProcessDies, NoCrashYet, SessionsIInv, SessionsTypeOK, ParticipantTypeOK

\* A broadcast begins in a room and ends at the latest with it.
LEMMA BroadcastsStep ==
    ASSUME "db" \notin Faults, SessionsIInv, BroadcastsHaveRooms, [SessionsNext]_vars
    PROVE  BroadcastsHaveRooms'
  <1> SUFFICES ASSUME NoCrashYet', NEW v \in Users,
                      rows'[v] # NoRow, rows'[v].state = "broadcast_single"
               PROVE  v \in rooms' /\ rows'[v].is_online /\ rows'[v].media_type = "video"
    BY DEF BroadcastsHaveRooms
  <1>1. rows[v] # NoRow /\ rows[v].state = "broadcast_single" =>
            v \in rooms /\ rows[v].is_online /\ rows[v].media_type = "video"
    BY GoneIsForGood DEF BroadcastsHaveRooms
  <1>2. rows \in [Users -> Row \cup {NoRow}]
    BY DEF SessionsIInv, SessionsTypeOK
  <1>3. ASSUME NEW u \in Users, NEW p \in Participants, StartSession(u, p)
        PROVE  v \in rooms' /\ rows'[v].is_online /\ rows'[v].media_type = "video"
    <2>1. CASE u = v /\ rows[v] = NoRow
      BY <1>2, <1>3, <2>1 DEF StartSession, Save
    <2>2. CASE u = v /\ rows[v] # NoRow
      <3>1. rows'[v] = [rows[v] EXCEPT !.is_online = TRUE] /\ rows[v] \in Row
        BY <1>2, <1>3, <2>2 DEF StartSession, Save
      <3>2. /\ rows'[v].is_online = TRUE /\ rows'[v].state = rows[v].state
            /\ rows'[v].media_type = rows[v].media_type
        BY <3>1 DEF Row
      <3> QED
        BY <1>1, <1>3, <2>2, <3>2 DEF StartSession
    <2>3. CASE u # v
      <3>1. rows'[v] = rows[v]
        BY <1>2, <1>3, <2>3 DEF StartSession, Save
      <3> QED
        BY <1>1, <1>3, <3>1 DEF StartSession
    <2> QED
      BY <2>1, <2>2, <2>3
  <1>4. ASSUME NEW u \in Users, PublishStream(u)
        PROVE  v \in rooms' /\ rows'[v].is_online /\ rows'[v].media_type = "video"
    BY <1>1, <1>2, <1>4 DEF PublishStream, StartPublish, Update
  <1>5. ASSUME NEW u \in Users, StopStream(u)
        PROVE  v \in rooms' /\ rows'[v].is_online /\ rows'[v].media_type = "video"
    <2>1. CASE u = v
      <3>1. /\ rows[v] # NoRow /\ rows[v] \in Row
            /\ rows'[v] = [rows[v] EXCEPT !.state = "idle", !.media_type = "NULL"]
        BY <1>2, <1>5, <2>1 DEF StopStream, StopPublish
      <3>2. rows'[v].state = "idle"
        BY <3>1 DEF Row
      <3> QED
        BY <3>2
    <2>2. CASE u # v
      BY <1>1, <1>2, <1>5, <2>2 DEF StopStream, StopPublish
    <2> QED
      BY <2>1, <2>2
  <1>6. CASE GoOffline
    <2>1. /\ rooms' = rooms \ {router.user}
          /\ rows' = [rows EXCEPT ![router.user] =
                        IF @ = NoRow THEN @
                        ELSE [is_online |-> FALSE, state |-> "idle", media_type |-> "NULL"]]
      BY <1>6 DEF GoOffline, SetOffline, Update, DeleteRoom
    <2>2. v # router.user
      BY <1>2, <2>1
    <2> QED
      BY <1>1, <1>2, <2>1, <2>2
  <1>7. CASE SessionsCrash /\ SessionsLost
    BY <1>1, <1>7, CrashesAreSeen DEF SessionsLost
  <1>8. CASE UNCHANGED <<rooms, rows>>
    BY <1>1, <1>8
  <1> QED
    BY <1>3, <1>4, <1>5, <1>6, <1>7, <1>8
       DEF SessionsNext, RouterNext, GoroutinesNext, JoinAllocates, JoinRoom, GreetClient,
           RouterCloses, RouterFreesPort, RouterCloseReturns, CloseSession, Offer,
           sessionVars, vars

-----------------------------------------------------------------------------
(* The mutexes of the participants.                                        *)

\* A step that takes no mutex, ends no Close and leaves the handler alone.
LEMMA MutexesUntouched ==
    ASSUME MutexHoldersAreClosing, PortsIInv', UNCHANGED <<up, lock>>,
           UNCHANGED router \/ (router.op \notin {"close", "abort"}),
           \A p \in Participants : failedCb'[p] = failedCb[p] \/ failedCb'[p] = "pending"
    PROVE  MutexHoldersAreClosing'
  BY DEF MutexHoldersAreClosing, PortsIInv, PortsLifecycle

\* A step inside a Close, up to the one that releases the mutex.
LEMMA ClosersStep ==
    ASSUME SessionsIInv, MutexHoldersAreClosing, PortsIInv',
           NEW p \in Participants, NEW by \in {"router", "callback"},
           by = "router" => /\ router.op \in {"close", "abort"} /\ router.part = p
                            /\ lock[p] # "free" => lock[p] = "router",
           by = "callback" => UNCHANGED router /\ failedCb[p] = "pending",
           \/ CloseTracks(p, by) /\ UNCHANGED router
           \/ lock[p] = by /\ CloseReturns(p)
    PROVE  MutexHoldersAreClosing'
  <1> USE DEF SessionsIInv, SessionsTypeOK, ParticipantTypeOK
  <1>1. CASE CloseTracks(p, by) /\ UNCHANGED router
    BY <1>1 DEF CloseTracks, MutexFree, peerVars, MutexHoldersAreClosing, PortsIInv,
                PortsLifecycle
  <1>2. CASE lock[p] = by /\ CloseReturns(p)
    <2>1. /\ up' = up /\ lock' = [lock EXCEPT ![p] = "free"]
          /\ \A q \in Participants : q # p => failedCb'[q] = failedCb[q]
      BY <1>2 DEF CloseReturns, Unlock
    <2>2. ASSUME NEW q \in Participants, lock'[q] # "free"
          PROVE  q # p /\ lock'[q] = lock[q] /\ failedCb'[q] = failedCb[q]
      BY <2>1, <2>2
    <2>3. ASSUME NEW q \in Participants, lock'[q] = "router"
          PROVE  UNCHANGED router
      BY <2>2, <2>3 DEF MutexHoldersAreClosing
    <2> QED
      BY <2>1, <2>2, <2>3 DEF MutexHoldersAreClosing, PortsIInv, PortsLifecycle
  <1> QED
    BY <1>1, <1>2

LEMMA MutexesStep ==
    ASSUME SessionsIInv, MutexHoldersAreClosing, [SessionsNext]_vars
    PROVE  MutexHoldersAreClosing'
  <1>1. PortsIInv'
    BY SessionsStep DEF SessionsIInv
  <1> USE DEF SessionsIInv, SessionsTypeOK, ParticipantTypeOK
  <1>2. ASSUME NEW u \in Users,
               \/ \E p \in Participants : StartSession(u, p)
               \/ CloseSession(u) \/ PublishStream(u) \/ StopStream(u) \/ Offer(u)
        PROVE  MutexHoldersAreClosing'
    <2>1. UNCHANGED <<up, lock, failedCb>> /\ router.op = "idle"
      BY <1>2 DEF StartSession, NewParticipant, CloseSession, PublishStream, StopStream,
                  Offer, HandleOffer, peerVars, participantVars
    <2> QED
      BY <1>1, <2>1, MutexesUntouched
  <1>3. CASE JoinAllocates \/ JoinRoom \/ GreetClient \/ GoOffline
    <2>1. /\ UNCHANGED <<up, lock, failedCb>>
          /\ router.op \in {"join", "greet", "offline"}
      BY <1>3 DEF JoinAllocates, AllocatePort, JoinRoom, NewParticipantReturns,
                  GreetClient, GoOffline, peerVars, participantVars
    <2> QED
      BY <1>1, <2>1, MutexesUntouched
  <1>4. CASE RouterCloses \/ RouterFreesPort \/ RouterCloseReturns
    <2>1. router.op \in {"close", "abort"} /\ router.part \in Participants
      BY <1>4 DEF RouterCloses, RouterFreesPort, RouterCloseReturns, RouterOK
    <2>2. CASE RouterFreesPort
      <3>1. UNCHANGED <<up, lock, failedCb, router>>
        BY <2>2 DEF RouterFreesPort, FreePort, peerVars, sessionVars
      <3> QED
        BY <1>1, <3>1, MutexesUntouched
    <2>3. CASE RouterCloses
      <3>1. CloseTracks(router.part, "router") /\ UNCHANGED router
        BY <2>3 DEF RouterCloses, sessionVars
      <3>2. lock[router.part] = "free"
        BY <3>1 DEF CloseTracks, MutexFree
      <3> QED
        BY <1>1, <2>1, <3>1, <3>2, ClosersStep
    <2>4. CASE RouterCloseReturns
      <3>1. lock[router.part] = "router" /\ CloseReturns(router.part)
        BY <2>4 DEF RouterCloseReturns
      <3> QED
        BY <1>1, <2>1, <3>1, ClosersStep
    <2> QED
      BY <1>4, <2>2, <2>3, <2>4
  <1>5. CASE GoroutinesNext
    <2>1. PICK p \in Participants : GoroutineStep(p) /\ UNCHANGED sessionVars
      BY <1>5 DEF GoroutinesNext
    <2>2. UNCHANGED router
      BY <2>1 DEF sessionVars
    <2>3. CASE FailedCallback(p) \/ (lock[p] = "callback" /\ CloseReturns(p))
      <3>1. failedCb[p] = "pending"
        BY <2>3 DEF FailedCallback, MutexHoldersAreClosing
      <3> QED
        BY <1>1, <2>2, <2>3, <3>1, ClosersStep DEF FailedCallback
    <2>4. CASE ~(FailedCallback(p) \/ (lock[p] = "callback" /\ CloseReturns(p)))
      <3>1. /\ UNCHANGED <<up, lock>>
            /\ failedCb' = failedCb \/ failedCb' = [failedCb EXCEPT ![p] = "pending"]
        BY <2>1, <2>4
           DEF GoroutineStep, FreePort, ClosePeer, PeerConnects, PeerFails,
               TrackArrives, LookUpPort, RegisterTrack, DialTranscoder,
               ForwardingEnds, TrackVarsUnchanged, peerVars
      <3> QED
        BY <1>1, <2>2, <3>1, MutexesUntouched
    <2> QED
      BY <2>3, <2>4
  <1>6. CASE SessionsCrash /\ SessionsLost
    <2>1. ProcessDies
      BY <1>6 DEF SessionsCrash, JoinPanics, RouterClosePanics, CallbackPanics,
             RegisterPanics, AddReceiverCandidate, ReceiverCandidatePanics, Kill,
             NilParticipantPanics, NilConnPanics
    <2> QED
      BY <2>1 DEF ProcessDies, MutexHoldersAreClosing
  <1>7. CASE Restart /\ UNCHANGED sessionVars
    <2>1. ~up /\ UNCHANGED <<lock, router>>
      BY <1>7 DEF Restart, sessionVars
    <2>2. \A p \in Participants : lock[p] = "free"
      BY <2>1 DEF MutexHoldersAreClosing
    <2> QED
      BY <2>1, <2>2 DEF MutexHoldersAreClosing
  <1>8. CASE UNCHANGED vars
    BY <1>8 DEF vars, participantVars, sessionVars, MutexHoldersAreClosing
  <1> QED
    BY <1>2, <1>3, <1>4, <1>5, <1>6, <1>7, <1>8 DEF SessionsNext, RouterNext

-----------------------------------------------------------------------------
(* The theorems.                                                           *)

\* Every behaviour of the manager is one of its participants: what holds of
\* them whoever calls them holds of them under SessionsManager.
THEOREM SessionsImplementParticipants == SessionsSpec => ParticipantSpec
  <1>1. SessionsInit => ParticipantInit
    BY DEF SessionsInit
  <1>2. SessionsIInv /\ [SessionsNext]_vars => [ParticipantNext]_participantVars
    BY ParticipantSimulation
  <1> QED
    BY <1>1, <1>2, SessionsInductive, PTL DEF SessionsSpec, ParticipantSpec

\* Under SessionsManager too, no two participants answer for one port and none
\* is lost.
THEOREM SessionsKeepPorts == SessionsSpec => [](PortsExclusive /\ PortsAccounted)
  BY SessionsImplementParticipants, PortsAreExclusive, PortsAreAccounted, PTL

\* Through every handler of the manager, and every crash, the ports are leased
\* as module PortLease says.
THEOREM SessionsKeepLeases == SessionsSpec => ImplementsPortLease
  BY SessionsImplementParticipants, PortsAreLeases

THEOREM SessionsTypes == SessionsSpec => []SessionsTypeOK
  <1>1. SessionsIInv => SessionsTypeOK
    BY DEF SessionsIInv
  <1> QED
    BY <1>1, SessionsInductive, PTL

\* A room is empty only while the join that made it runs, so no handler finds
\* an empty room, and nobody is in a room that does not exist.
THEOREM RoomsAreNeverEmpty == SessionsSpec => []RoomsHaveParticipants
  <1>1. SessionsIInv => RoomsHaveParticipants
    BY DEF SessionsIInv
  <1> QED
    BY <1>1, SessionsInductive, PTL

\* The only open participants out of their user's room are those that a later
\* join of the same user replaced.
THEOREM StrayParticipantsWereReplaced ==
    SessionsSpec => []OnlyReplacedParticipantsStray
  <1>1. SessionsIInv => OnlyReplacedParticipantsStray
    BY DEF SessionsIInv
  <1> QED
    BY <1>1, SessionsInductive, PTL

\* The table shows the user of every room as online, whatever faults happen.
THEOREM UsersWithRoomsAreOnline == SessionsSpec => []RoomsAreOnline
  <1>1. SessionsIInv => RoomsAreOnline
    BY DEF SessionsIInv
  <1> QED
    BY <1>1, SessionsInductive, PTL

\* For any participants, users and faults, the mutex of a participant is held
\* only by the handler that runs or by a callback, inside Close of that
\* participant: there is no circle of goroutines that wait for each other.
THEOREM ClosesNeverDeadlock == SessionsSpec => []MutexHoldersAreClosing
  <1>1. SessionsInit => MutexHoldersAreClosing
    BY DEF SessionsInit, ParticipantInit, MutexHoldersAreClosing
  <1>2. SessionsIInv /\ MutexHoldersAreClosing /\ [SessionsNext]_vars
          => MutexHoldersAreClosing'
    BY MutexesStep
  <1> QED
    BY <1>1, <1>2, SessionsInductive, PTL DEF SessionsSpec

\* As long as SetOffline can write the table, and until a process first ends
\* with a participant in it, a row shows a broadcast only of a user who has a
\* room, and as online video: StartPublish writes before it asks the room, a
\* join keeps the state of the row, and the row goes offline before the room
\* is deleted.
THEOREM BroadcastsNeedRooms ==
    "db" \notin Faults => (SessionsSpec => []BroadcastsHaveRooms)
  <1> SUFFICES ASSUME "db" \notin Faults
               PROVE  SessionsSpec => []BroadcastsHaveRooms
    OBVIOUS
  <1>1. SessionsInit => BroadcastsHaveRooms
    BY DEF SessionsInit, BroadcastsHaveRooms
  <1>2. SessionsIInv /\ BroadcastsHaveRooms /\ [SessionsNext]_vars => BroadcastsHaveRooms'
    BY BroadcastsStep
  <1> QED
    BY <1>1, <1>2, SessionsInductive, PTL DEF SessionsSpec
=============================================================================
