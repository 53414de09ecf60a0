------------------------------- MODULE Sessions -------------------------------
(***************************************************************************)
(* SessionsManager (internal/service/sessions_manager.go) with the rooms   *)
(* it keeps (internal/rtc/room.go), the rows of the sessions table it      *)
(* writes (internal/core/sessions_repository.go) and the participants of   *)
(* module Participant.                                                     *)
(*                                                                         *)
(* The router reads messages and calls the handlers in one goroutine       *)
(* (internal/eventbus/router.go), so at most one handler runs; it is kept  *)
(* in the variable router.  The goroutines of the participants run between *)
(* any two steps of a handler.  A handler that fails before it has changed *)
(* anything (no room, an error of Save, StartPublish or StopPublish) is a  *)
(* stuttering step and has no action.                                      *)
(***************************************************************************)
EXTENDS Participant

CONSTANT NoRow       \* a user with no row in the sessions table

Row == [is_online : BOOLEAN,
        state : {"idle", "broadcast_single"},
        media_type : {"NULL", "video"}]

ASSUME SessionsAssumption == NoRow \notin Row

VARIABLES
    rooms,           \* the keys of SessionsManager.sessions
    joined,          \* the participant in the room of each user
    rows,            \* the sessions table (external): survives the process
    router           \* the handler that runs: [op, user, part]

sessionVars == <<rooms, joined, rows, router>>
vars == <<participantVars, sessionVars>>

Ops == {"idle",
        "join",     \* StartSession, inside NewParticipant
        "greet",    \* StartSession, before it publishes the Join RPC
        "abort",    \* StartSession, in the Close after that publish failed
        "close",    \* CloseSession, in room.Close
        "offline"}  \* CloseSession, before SetOffline

Idle == [op |-> "idle", user |-> NoUser, part |-> NoParticipant]

SessionsTypeOK ==
    /\ ParticipantTypeOK
    /\ rooms \subseteq Users
    /\ joined \in [Users -> Participants \cup {NoParticipant}]
    /\ rows \in [Users -> Row \cup {NoRow}]
    /\ router \in [op : Ops, user : Users \cup {NoUser},
                   part : Participants \cup {NoParticipant}]

SessionsInit ==
    /\ ParticipantInit
    /\ rooms = {}
    /\ joined = [u \in Users |-> NoParticipant]
    /\ rows = [u \in Users |-> NoRow]
    /\ router = Idle

-----------------------------------------------------------------------------
(* The statements of SessionsRepository.                                   *)

\* A mutant: the conflict updates nothing.
SaveKeepsRow(u) ==
    rows' = [rows EXCEPT ![u] =
               IF @ = NoRow
               THEN [is_online |-> TRUE, state |-> "idle", media_type |-> "NULL"]
               ELSE @]

\* INSERT ... ON CONFLICT DO UPDATE: an existing row keeps state and media.
Save(u) ==
    rows' = [rows EXCEPT ![u] =
               IF @ = NoRow
               THEN [is_online |-> TRUE, state |-> "idle", media_type |-> "NULL"]
               ELSE [@ EXCEPT !.is_online = TRUE]]

\* An UPDATE of the row of u; it matches no row if there is none.
Update(u, row) == rows' = [rows EXCEPT ![u] = IF @ = NoRow THEN @ ELSE row]

OfflineKeepsState(u) ==                                          \* a mutant
    Update(u, [rows[u] EXCEPT !.is_online = FALSE])

SetOffline(u) ==
    Update(u, [is_online |-> FALSE, state |-> "idle", media_type |-> "NULL"])

StartPublish(u) ==
    Update(u, [is_online |-> TRUE, state |-> "broadcast_single",
               media_type |-> "video"])

StopPublish(u) ==
    rows' = [rows EXCEPT ![u] =
               IF @ = NoRow THEN @
               ELSE [@ EXCEPT !.state = "idle", !.media_type = "NULL"]]

-----------------------------------------------------------------------------
(* StartSession                                                            *)

\* The row is saved, the room found or made, NewParticipant entered.
StartSession(u, p) ==
    /\ router.op = "idle"
    /\ Save(u)
    /\ rooms' = rooms \cup {u}
    /\ NewParticipant(p, u)
    /\ router' = [op |-> "join", user |-> u, part |-> p]
    /\ UNCHANGED joined

JoinAllocates ==
    /\ router.op = "join"
    /\ \E c \in Codecs, port \in Ports : AllocatePort(router.part, c, port)
    /\ UNCHANGED sessionVars

JoinDropped(u, p) == UNCHANGED joined                            \* a mutant

\* room.Join: whoever was in the room before is dropped, not closed.
RoomJoin(u, p) == joined' = [joined EXCEPT ![u] = p]

\* NewParticipant returns a participant and it joins the room.
JoinRoom ==
    /\ router.op = "join"
    /\ NewParticipantReturns(router.part)
    /\ RoomJoin(router.user, router.part)
    /\ router' = [router EXCEPT !.op = "greet"]
    /\ UNCHANGED <<rooms, rows>>

\* The Join RPC is published to the client, or the participant is closed
\* again; it stays in the room.
GreetClient ==
    /\ up
    /\ router.op = "greet"
    /\ \/ router' = Idle
       \/ "sink" \in Faults /\ router' = [router EXCEPT !.op = "abort"]
    /\ UNCHANGED <<participantVars, rooms, joined, rows>>

-----------------------------------------------------------------------------
(* CloseSession                                                            *)

RoomNeverClosed(u) == "offline"                                  \* a mutant

\* room.Close answers errNoParticipant for an empty room, which is logged.
RoomClose(u) == IF joined[u] = NoParticipant THEN "offline" ELSE "close"

CloseSession(u) ==
    /\ up
    /\ router.op = "idle"
    /\ u \in rooms
    /\ router' = [op |-> RoomClose(u), user |-> u, part |-> joined[u]]
    /\ UNCHANGED <<participantVars, rooms, joined, rows>>

\* participant.Close, called by room.Close or by StartSession.
RouterCloses ==
    /\ router.op \in {"close", "abort"}
    /\ CloseTracks(router.part, "router")
    /\ UNCHANGED sessionVars

RouterFreesPort ==
    /\ router.op \in {"close", "abort"}
    /\ lock[router.part] = "router"
    /\ \E port \in Ports : FreePort(router.part, port)
    /\ UNCHANGED sessionVars

RouterCloseReturns ==
    /\ router.op \in {"close", "abort"}
    /\ lock[router.part] = "router"
    /\ CloseReturns(router.part)
    /\ router' = IF router.op = "close" THEN [router EXCEPT !.op = "offline"]
                                        ELSE Idle
    /\ UNCHANGED <<rooms, joined, rows>>

\* The room with its participant is deleted.
DeleteRoom(u) ==
    /\ rooms' = rooms \ {u}
    /\ joined' = [joined EXCEPT ![u] = NoParticipant]

\* SetOffline, whose error is only logged, then the room is deleted.
GoOffline ==
    /\ up
    /\ router.op = "offline"
    /\ SetOffline(router.user) \/ ("db" \in Faults /\ UNCHANGED rows)
    /\ DeleteRoom(router.user)
    /\ router' = Idle
    /\ UNCHANGED participantVars

-----------------------------------------------------------------------------
(* The handlers that are one step.                                         *)

\* room.PublishStream changes nothing: Participant.StartPublish is empty.
PublishStream(u) ==
    /\ up
    /\ router.op = "idle"
    /\ u \in rooms
    /\ StartPublish(u)
    /\ UNCHANGED <<participantVars, rooms, joined, router>>

\* room.StopStream changes nothing.
StopStream(u) ==
    /\ up
    /\ router.op = "idle"
    /\ u \in rooms
    /\ StopPublish(u)
    /\ UNCHANGED <<participantVars, rooms, joined, router>>

Offer(u) ==
    /\ router.op = "idle"
    /\ u \in rooms
    /\ joined[u] # NoParticipant
    /\ HandleOffer(joined[u])
    /\ UNCHANGED sessionVars

-----------------------------------------------------------------------------
(* The end of the process.  Only the table survives it.                    *)

SessionsLost ==
    /\ rooms' = {}
    /\ joined' = [u \in Users |-> NoParticipant]
    /\ router' = Idle
    /\ UNCHANGED rows

\* NewParticipant answers nil and an error, and Close is called on the nil.
JoinPanics == router.op = "join" /\ NilParticipantPanics(router.part)

RouterClosePanics ==
    /\ router.op \in {"close", "abort"}
    /\ lock[router.part] = "free"
    /\ NilConnPanics(router.part)

CallbackPanics(p) == failedCb[p] = "pending" /\ NilConnPanics(p)

\* AddICECandidate, with a candidate for the target "receiver".
AddReceiverCandidate(u) ==
    /\ router.op = "idle"
    /\ u \in rooms
    /\ joined[u] # NoParticipant
    /\ ReceiverCandidatePanics(joined[u])

SessionsCrash ==
    \/ JoinPanics
    \/ RouterClosePanics
    \/ \E p \in Participants : \/ CallbackPanics(p)
                               \/ \E t \in Tracks : RegisterPanics(p, t)
    \/ \E u \in Users : AddReceiverCandidate(u)
    \/ Kill

-----------------------------------------------------------------------------
RouterNext ==
    \/ \E u \in Users : \/ \E p \in Participants : StartSession(u, p)
                        \/ CloseSession(u)
                        \/ PublishStream(u)
                        \/ StopStream(u)
                        \/ Offer(u)
    \/ JoinAllocates
    \/ JoinRoom
    \/ GreetClient
    \/ RouterCloses
    \/ RouterFreesPort
    \/ RouterCloseReturns
    \/ GoOffline

GoroutinesNext ==
    \E p \in Participants : GoroutineStep(p) /\ UNCHANGED sessionVars

SessionsNext ==
    \/ RouterNext
    \/ GoroutinesNext
    \/ SessionsCrash /\ SessionsLost
    \/ Restart /\ UNCHANGED sessionVars

SessionsSpec == SessionsInit /\ [][SessionsNext]_vars

-----------------------------------------------------------------------------
(* Fairness: a goroutine that can run does run.  Nothing is assumed of the *)
(* clients, the network, the faults or the restarts.                       *)

\* The router goroutine, once it is inside a handler.
RouterInHandler ==
    \/ JoinAllocates \/ JoinRoom \/ GreetClient \/ GoOffline
    \/ RouterCloses \/ RouterFreesPort \/ RouterCloseReturns
    \/ (JoinPanics \/ RouterClosePanics) /\ SessionsLost

\* The goroutine of the callback of the failed peer connection of p.
CallbackInClose(p) ==
    \/ FailedCallback(p) /\ UNCHANGED sessionVars
    \/ /\ lock[p] = "callback"
       /\ (\E port \in Ports : FreePort(p, port)) \/ CloseReturns(p)
       /\ UNCHANGED sessionVars
    \/ CallbackPanics(p) /\ SessionsLost

\* The goroutine of a track whose peer connection is closed: reading fails.
ForwarderStops(p, t) ==
    /\ pc[p] = "closed"
    /\ ForwardingEnds(p, t) \/ DialTranscoder(p, t)
    /\ UNCHANGED sessionVars

SessionsFairness ==
    /\ WF_vars(RouterInHandler)
    /\ \A p \in Participants :
         /\ WF_vars(CallbackInClose(p))
         /\ WF_vars(ClosePeer(p) /\ UNCHANGED sessionVars)
         /\ \A t \in Tracks : WF_vars(ForwarderStops(p, t))

FairSessionsSpec == SessionsSpec /\ SessionsFairness
-----------------------------------------------------------------------------
(* Safety.                                                                 *)

\* Every room has a participant, except the one being made by the join that
\* runs; and nobody is in a room that does not exist.  It is why
\* errNoParticipant never leaves the table changed and memory not
\* (PublishStream writes the row before it asks the room).
RoomsHaveParticipants ==
    \A u \in Users :
        IF joined[u] = NoParticipant
        THEN u \in rooms => router.op = "join" /\ router.user = u
        ELSE u \in rooms /\ userOf[joined[u]] = u

\* An open participant is out of its user's room only if a later participant
\* of the same user has been created: no close and no failed join leaves one
\* behind.
OnlyReplacedParticipantsStray ==
    \A p \in Participants :
        phase[p] = "open" /\ joined[userOf[p]] # p =>
            \E q \in (p + 1) .. MaxParticipants : userOf[q] = userOf[p]

\* The table shows the user of every room as online, whatever the faults.
RoomsAreOnline ==
    \A u \in rooms : rows[u] # NoRow /\ rows[u].is_online

NoCrashYet == \A p \in Participants : phase[p] # "gone"

\* Until the process first ends with a participant in it, and if the table can
\* be written, the table shows a broadcast only for a user who has a room, and
\* only as online video.
BroadcastsHaveRooms ==
    NoCrashYet => \A u \in Users :
        rows[u] # NoRow /\ rows[u].state = "broadcast_single" =>
            u \in rooms /\ rows[u].is_online /\ rows[u].media_type = "video"

\* Whoever holds the mutex of a participant is inside Close of that participant
\* in a process that runs, and waits for no other participant's: the router in
\* the handler that runs (it cannot wait for a mutex that it holds), or the
\* callback of a failed connection that has not returned.  So router and
\* callbacks, which call Close on the same participants, never wait in a circle.
MutexHoldersAreClosing ==
    \A p \in Participants :
        /\ lock[p] # "free" => up /\ phase[p] \in {"open", "closed"}
        /\ lock[p] = "router" => router.op \in {"close", "abort"} /\ router.part = p
        /\ lock[p] = "callback" => failedCb[p] = "pending"

-----------------------------------------------------------------------------
(* Liveness, under SessionsFairness.                                       *)

\* Every handler returns, or the process ends: a Close of the router and one
\* of a callback never block each other for good.
HandlersReturn == router.op # "idle" ~> router.op = "idle"

\* A participant whose peer connection failed is closed, unless the process
\* ends first.
FailedAreClosed ==
    \A p \in Participants :
        pc[p] = "failed" ~> phase[p] \in {"closed", "gone"}

\* A closed participant ends up with its peer connection closed and none of
\* its tracks forwarded, those with an overwritten entry in publishedTracks
\* included, unless the process ends first.
ClosedBecomeSilent ==
    \A p \in Participants :
        phase[p] = "closed" ~>
            \/ phase[p] = "gone"
            \/ pc[p] = "closed" /\ \A t \in Tracks : track[p][t].at # "forwarding"

-----------------------------------------------------------------------------
(* What comments of the repository say and the code does not do.           *)

\* "Here is creating SDP and sending signal to run a transcoder": the open
\* participant in a room has the transcoder its SDP asked for.
JoinedHaveTranscoders ==
    \A u \in Users :
        joined[u] # NoParticipant /\ phase[joined[u]] = "open"
            /\ lock[joined[u]] = "free" => transcoder[u] = joined[u]

\* An error of NewParticipant is returned by StartSession and logged by the
\* router: running out of ports does not end the process.
ExhaustionIsAnError ==
    [][router.op = "join" /\ Exhausted => up']_vars
=============================================================================
