------------------------------ MODULE Signalling ------------------------------
(***************************************************************************)
(* The negotiation of a peer connection between the bot                    *)
(* (internal/bot/bot.go) and a participant of the server                   *)
(* (internal/rtc/transport.go, participant.go, room.go): Join, offer,      *)
(* answer, and ICE candidates of both sides, which are sent by goroutines  *)
(* of their own as they are found and may overtake offer and answer.       *)
(*                                                                         *)
(* The user may connect again while messages to and from the connection    *)
(* before are still on their way.  A session of the server and the peer    *)
(* connection that the bot makes on its Join have the same number.         *)
(***************************************************************************)
EXTENDS Integers, Sequences

CONSTANTS MaxSessions,    \* bound: how often the user connects
          BotCandidates,  \* what a peer connection of the bot gathers
          BadCandidates,  \* those that AddICECandidate refuses
          Candidates      \* what a participant gathers

Sessions == 1 .. MaxSessions
None == 0

ASSUME SignallingAssumption ==
    /\ MaxSessions \in Nat
    /\ BadCandidates \subseteq BotCandidates
    /\ BotCandidates \cap Candidates = {}

VARIABLES
    toServer,     \* what the websocket has published for the router
    toClient,     \* what was published for the subscription of the user
    \* the server
    room,         \* the participant in the room of the user
    begun,        \* how many sessions there have been
    offered,      \* the peer connection whose offer a participant has
    pending,      \* pendingCandidates of PCTransport
    added,        \* the candidates pion has taken
    answering,    \* the participant whose answer the router has to publish
    gathered,     \* the candidates a participant has sent
    \* the bot
    up,           \* whether the bot runs and its websocket is open
    connects,     \* how often it has connected
    stage,        \* createPeerConnection on the Join of a session
    peer,         \* bot.peerConnection
    offerOf,      \* the peer connection a goroutine made its offer on
    signaling,    \* the signaling state of a peer connection
    answeredBy,   \* the participant whose answer it has
    botPending,   \* bot.pendingCandidates
    botAdded,
    botGathered,
    writing       \* who is inside websocketConn.WriteMessage

busVars == <<toServer, toClient>>
serverVars == <<room, begun, offered, pending, added, answering, gathered>>
botVars == <<up, connects, stage, peer, offerOf, signaling, answeredBy,
             botPending, botAdded, botGathered, writing>>
vars == <<busVars, serverVars, botVars>>

BotCandidate == Sessions \X BotCandidates
Candidate == Sessions \X Candidates

Message(method, s, c) == [method |-> method, session |-> s, candidate |-> c]
NoCandidate == <<None, None>>

Writers == [session : Sessions, candidate : BotCandidates \cup {None}]

SignallingTypeOK ==
    /\ room \in Sessions \cup {None}
    /\ begun \in 0 .. MaxSessions
    /\ offered \in [Sessions -> Sessions \cup {None}]
    /\ \A s \in Sessions : /\ pending[s] \in Seq(BotCandidate)
                           /\ added[s] \subseteq Sessions \X (BotCandidates \ BadCandidates)
                           /\ gathered[s] \subseteq Candidates
                           /\ botAdded[s] \subseteq Candidate
                           /\ botGathered[s] \subseteq BotCandidates
    /\ answering \in Sessions \cup {None}
    /\ up \in BOOLEAN
    /\ connects \in 0 .. MaxSessions
    /\ stage \in [Sessions -> {"none", "started", "created", "local", "writing",
                               "offered", "failed"}]
    /\ peer \in Sessions \cup {None}
    /\ offerOf \in [Sessions -> Sessions \cup {None}]
    /\ signaling \in [Sessions -> {"new", "have-local-offer", "stable"}]
    /\ answeredBy \in [Sessions -> Sessions \cup {None}]
    /\ botPending \in Seq(Candidate)
    /\ writing \subseteq Writers

\* A bot that has just been started, with nothing but its websocket.
FreshBot ==
    /\ stage' = [s \in Sessions |-> "none"]
    /\ peer' = None
    /\ offerOf' = [s \in Sessions |-> None]
    /\ signaling' = [s \in Sessions |-> "new"]
    /\ answeredBy' = [s \in Sessions |-> None]
    /\ botPending' = <<>>
    /\ botAdded' = [s \in Sessions |-> {}]
    /\ botGathered' = [s \in Sessions |-> {}]
    /\ writing' = {}

SignallingInit ==
    /\ toServer = <<>> /\ toClient = <<>>
    /\ room = None
    /\ begun = 0
    /\ offered = [s \in Sessions |-> None]
    /\ pending = [s \in Sessions |-> <<>>]
    /\ added = [s \in Sessions |-> {}]
    /\ answering = None
    /\ gathered = [s \in Sessions |-> {}]
    /\ up = FALSE
    /\ connects = 0
    /\ stage = [s \in Sessions |-> "none"]
    /\ peer = None
    /\ offerOf = [s \in Sessions |-> None]
    /\ signaling = [s \in Sessions |-> "new"]
    /\ answeredBy = [s \in Sessions |-> None]
    /\ botPending = <<>>
    /\ botAdded = [s \in Sessions |-> {}]
    /\ botGathered = [s \in Sessions |-> {}]
    /\ writing = {}

-----------------------------------------------------------------------------
(* The bus (external): the websocket server publishes what the bot writes, *)
(* and a join and a close of its own when the websocket opens and closes.  *)

ToServer(m) == toServer' = Append(toServer, m)

\* Redis keeps nothing for a user who has no subscription.
ToClient(m) == toClient' = IF up THEN Append(toClient, m) ELSE toClient

Connect ==
    /\ ~up
    /\ connects < MaxSessions
    /\ connects' = connects + 1
    /\ up' = TRUE
    /\ ToServer(Message("join", None, NoCandidate))
    /\ UNCHANGED <<toClient, serverVars, stage, peer, offerOf, signaling,
                   answeredBy, botPending, botAdded, botGathered, writing>>

\* The bot ends: interrupted, failed connection, error of readRPC or panic.
BotEnds ==
    /\ up' = FALSE
    /\ FreshBot
    /\ toClient' = <<>>
    /\ ToServer(Message("close_session", None, NoCandidate))
    /\ UNCHANGED <<serverVars, connects>>

BotIsStopped == up /\ BotEnds

-----------------------------------------------------------------------------
(* Early candidates, the same code in transport.go and in bot.go           *)

Refused(cand) == cand[2] \in BadCandidates

RefusedToo(queue) == {queue[i] : i \in 1 .. Len(queue)}           \* a mutant
AllButTheLast(queue) ==                                          \* a mutant
    {queue[i] : i \in {j \in 1 .. Len(queue) - 1 :
                         \A k \in 1 .. j : ~Refused(queue[k])}}

\* The candidates of the queue that pion takes before one is refused.
Flushed(queue) ==
    {queue[i] : i \in {j \in 1 .. Len(queue) : \A k \in 1 .. j : ~Refused(queue[k])}}

FlushFails(queue) == \E i \in 1 .. Len(queue) : Refused(queue[i])

KeepQueue(queue) == queue                                        \* a mutant

\* The queue after the loop, which returns at the first error.
AfterFlush(queue) == IF FlushFails(queue) THEN queue ELSE <<>>

-----------------------------------------------------------------------------
(* The server                                                              *)

Receives(method) ==
    /\ answering = None
    /\ toServer # <<>>
    /\ Head(toServer).method = method
    /\ toServer' = Tail(toServer)

\* StartSession: a new participant in the room, and a Join to the user.
StartSession ==
    /\ Receives("join")
    /\ begun' = begun + 1
    /\ room' = begun'
    /\ ToClient(Message("join", begun', NoCandidate))
    /\ UNCHANGED <<offered, pending, added, answering, gathered, botVars>>

CloseSession ==
    /\ Receives("close_session")
    /\ room' = None
    /\ UNCHANGED <<toClient, begun, offered, pending, added, answering, gathered,
                   botVars>>

\* Room.AddICECandidate and PCTransport.AddICECandidate; an error of pion is
\* ignored here, and errNoParticipant is only logged.
AddICECandidate ==
    /\ Receives("iceCandidate")
    /\ LET cand == Head(toServer).candidate
           queued == room # None /\ offered[room] = None
           taken == room # None /\ offered[room] # None /\ ~Refused(cand)
       IN  /\ pending' = IF queued
                         THEN [pending EXCEPT ![room] = Append(@, cand)]
                         ELSE pending
           /\ added' = IF taken
                       THEN [added EXCEPT ![room] = @ \cup {cand}]
                       ELSE added
    /\ UNCHANGED <<toClient, room, begun, offered, answering, gathered, botVars>>

NoAnswerAfterFlush(queue) == IF queue # <<>> THEN None ELSE room  \* a mutant

\* Without an error of the flush the answer is made.
AnswerAfter(queue) == IF FlushFails(queue) THEN None ELSE room

\* Participant.HandleOffer up to SetLocalDescription.
HandleOffer ==
    /\ Receives("offer")
    /\ room # None
    /\ offered' = [offered EXCEPT ![room] = Head(toServer).session]
    /\ added' = [added EXCEPT ![room] = @ \cup Flushed(pending[room])]
    /\ pending' = [pending EXCEPT ![room] = AfterFlush(@)]
    /\ answering' = AnswerAfter(pending[room])
    /\ UNCHANGED <<toClient, room, begun, gathered, botVars>>

\* No participant, or a second offer, made by another peer connection: pion may
\* take it (HandleOffer) or refuse it.
RefuseOffer ==
    /\ Receives("offer")
    /\ room = None \/ offered[room] # None
    /\ UNCHANGED <<toClient, serverVars, botVars>>

PublishAnswer ==
    /\ answering # None
    /\ ToClient(Message("answer", answering, NoCandidate))
    /\ answering' = None
    /\ UNCHANGED <<toServer, room, begun, offered, pending, added, gathered, botVars>>

\* OnICECandidate, from SetLocalDescription on; the peer connection of a
\* closed participant is closed later, so it may still send.
SendICECandidate(s, c) ==
    /\ offered[s] # None
    /\ ~FlushFails(pending[s])
    /\ c \notin gathered[s]
    /\ gathered' = [gathered EXCEPT ![s] = @ \cup {c}]
    /\ ToClient(Message("iceCandidate", s, <<s, c>>))
    /\ UNCHANGED <<toServer, room, begun, offered, pending, added, answering, botVars>>

-----------------------------------------------------------------------------
(* The bot: readRPC                                                        *)

Reads(method) ==
    /\ up
    /\ toClient # <<>>
    /\ Head(toClient).method = method

ReadJoin ==
    /\ Reads("join")
    /\ toClient' = Tail(toClient)
    /\ stage' = [stage EXCEPT ![Head(toClient).session] = "started"]
    /\ UNCHANGED <<toServer, serverVars, up, connects, peer, offerOf, signaling,
                   answeredBy, botPending, botAdded, botGathered, writing>>

ReadICECandidate ==
    /\ Reads("iceCandidate")
    /\ peer # None
    /\ toClient' = Tail(toClient)
    /\ LET cand == Head(toClient).candidate
       IN  IF answeredBy[peer] = None
           THEN /\ botPending' = Append(botPending, cand)
                /\ UNCHANGED botAdded
           ELSE /\ botAdded' = [botAdded EXCEPT ![peer] = @ \cup {cand}]
                /\ UNCHANGED botPending
    /\ UNCHANGED <<toServer, serverVars, up, connects, stage, peer, offerOf,
                   signaling, answeredBy, botGathered, writing>>

\* The calls on a nil bot.peerConnection panic.
ReadTooEarly ==
    /\ Reads("iceCandidate") \/ Reads("answer")
    /\ peer = None
    /\ BotEnds

SetRemoteDescription ==
    /\ Reads("answer")
    /\ peer # None
    /\ signaling[peer] = "have-local-offer"
    /\ toClient' = Tail(toClient)
    /\ signaling' = [signaling EXCEPT ![peer] = "stable"]
    /\ answeredBy' = [answeredBy EXCEPT ![peer] = Head(toClient).session]
    /\ botAdded' = [botAdded EXCEPT ![peer] = @ \cup Flushed(botPending)]
    /\ botPending' = AfterFlush(botPending)
    /\ UNCHANGED <<toServer, serverVars, up, connects, stage, peer, offerOf,
                   botGathered, writing>>

\* An answer in any other signaling state is an error, which ends readRPC.
AnswerIsRefused ==
    /\ Reads("answer")
    /\ peer # None
    /\ signaling[peer] # "have-local-offer"
    /\ BotEnds

-----------------------------------------------------------------------------
(* The bot: createPeerConnection, in a goroutine for each Join.  It reads  *)
(* bot.peerConnection anew in every statement.                             *)

NewPeerConnection(s) ==
    /\ stage[s] = "started"
    /\ stage' = [stage EXCEPT ![s] = "created"]
    /\ peer' = s
    /\ UNCHANGED <<busVars, serverVars, up, connects, offerOf, signaling,
                   answeredBy, botPending, botAdded, botGathered, writing>>

\* An error before the offer is sent is logged and the goroutine ends.
CreateFails(s) ==
    /\ stage[s] \in {"started", "created"}
    /\ stage' = [stage EXCEPT ![s] = "failed"]
    /\ UNCHANGED <<busVars, serverVars, up, connects, peer, offerOf, signaling,
                   answeredBy, botPending, botAdded, botGathered, writing>>

\* CreateOffer and SetLocalDescription, which starts the gathering.
SetLocalDescription(s) ==
    /\ stage[s] = "created"
    /\ stage' = [stage EXCEPT ![s] = "local"]
    /\ offerOf' = [offerOf EXCEPT ![s] = peer]
    /\ signaling' = [signaling EXCEPT ![peer] = "have-local-offer"]
    /\ UNCHANGED <<busVars, serverVars, up, connects, peer, answeredBy,
                   botPending, botAdded, botGathered, writing>>

\* gorilla panics when two goroutines write at once.
StartWrite(w) ==
    IF writing = {}
    THEN /\ writing' = {w}
         /\ UNCHANGED <<busVars, serverVars, up, connects, peer, offerOf, signaling,
                        answeredBy, botPending, botAdded>>
    ELSE BotEnds

OfferWriter(s) == [session |-> s, candidate |-> None]

StartOffer(s) ==
    /\ stage[s] = "local"
    /\ StartWrite(OfferWriter(s))
    /\ writing = {} => /\ stage' = [stage EXCEPT ![s] = "writing"]
                       /\ UNCHANGED botGathered

SendOffer(s) ==
    /\ stage[s] = "writing"
    /\ stage' = [stage EXCEPT ![s] = "offered"]
    /\ writing' = writing \ {OfferWriter(s)}
    /\ ToServer(Message("offer", offerOf[s], NoCandidate))
    /\ UNCHANGED <<toClient, serverVars, up, connects, peer, offerOf, signaling,
                   answeredBy, botPending, botAdded, botGathered>>

\* OnICECandidate of a peer connection
StartCandidate(s, c) ==
    /\ signaling[s] # "new"
    /\ c \notin botGathered[s]
    /\ \A w \in writing : w.session = s => w.candidate = None
    /\ StartWrite([session |-> s, candidate |-> c])
    /\ writing = {} => /\ botGathered' = [botGathered EXCEPT ![s] = @ \cup {c}]
                       /\ UNCHANGED stage

SendCandidate(s, c) ==
    /\ [session |-> s, candidate |-> c] \in writing
    /\ writing' = writing \ {[session |-> s, candidate |-> c]}
    /\ ToServer(Message("iceCandidate", s, <<s, c>>))
    /\ UNCHANGED <<toClient, serverVars, up, connects, stage, peer, offerOf,
                   signaling, answeredBy, botPending, botAdded, botGathered>>

-----------------------------------------------------------------------------

RouterStep == StartSession \/ CloseSession \/ AddICECandidate \/ HandleOffer
                \/ RefuseOffer \/ PublishAnswer

ReadRPC == ReadJoin \/ ReadICECandidate \/ ReadTooEarly \/ SetRemoteDescription
             \/ AnswerIsRefused

Create(s) == NewPeerConnection(s) \/ SetLocalDescription(s) \/ StartOffer(s)
               \/ SendOffer(s)

Next ==
    \/ Connect \/ BotIsStopped
    \/ RouterStep \/ ReadRPC
    \/ \E s \in Sessions :
         \/ Create(s) \/ CreateFails(s)
         \/ \E c \in Candidates : SendICECandidate(s, c)
         \/ \E c \in BotCandidates : StartCandidate(s, c) \/ SendCandidate(s, c)

SignallingSpec == SignallingInit /\ [][Next]_vars

(* The router, the loop of readRPC and every goroutine that has something  *)
(* to do keep running.                                                     *)
FairSignallingSpec ==
    /\ SignallingSpec
    /\ WF_vars(RouterStep) /\ WF_vars(ReadRPC)
    /\ \A s \in Sessions :
         /\ WF_vars(Create(s))
         /\ \A c \in Candidates : WF_vars(SendICECandidate(s, c))
         /\ \A c \in BotCandidates : WF_vars(StartCandidate(s, c) \/ SendCandidate(s, c))

-----------------------------------------------------------------------------
(* Properties                                                              *)

(* A candidate waits in a queue only for a description that has not come:  *)
(* once SetRemoteDescription has run, AddICECandidate queues no more and   *)
(* the queue is empty, unless a refused candidate stopped the flush.       *)
NoCandidateStranded ==
    /\ \A s \in Sessions :
         offered[s] # None /\ pending[s] # <<>> => FlushFails(pending[s])
    /\ peer # None /\ answeredBy[peer] # None => botPending = <<>>

OneJoin == \A s, t \in Sessions :
               stage[s] # "none" /\ stage[t] # "none" => s = t

(* A bot that stays up and got one Join gets an answer, in whatever order  *)
(* offer and candidates arrive and whatever is left over from an earlier   *)
(* connection, unless a refused candidate came before the offer or         *)
(* createPeerConnection failed.                                            *)
LiveBotsAreAnswered ==
    <>[](up /\ OneJoin)
      => []<>(\/ peer # None /\ answeredBy[peer] # None
              \/ \E s \in Sessions : stage[s] = "failed"
              \/ room # None /\ offered[room] # None /\ FlushFails(pending[room]))

(* Every candidate that either side of a finished negotiation has gathered *)
(* reaches the other one, the early ones from the queue.                   *)
CandidatesAreExchanged ==
    \A s, p \in Sessions :
        <>[](up /\ OneJoin /\ answeredBy[s] = p)
          => []<>(/\ {<<s, c>> : c \in botGathered[s] \ BadCandidates} \subseteq added[p]
                  /\ {<<p, c>> : c \in gathered[p]} \subseteq botAdded[s])
=============================================================================
