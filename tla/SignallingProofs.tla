---------------------------- MODULE SignallingProofs ----------------------------
(***************************************************************************)
(* Proofs about module Signalling, for any number of connections and any   *)
(* candidates: its types, and that no candidate is left in a queue.        *)
(***************************************************************************)
EXTENDS Signalling, TLAPS

-----------------------------------------------------------------------------
(* The inductive invariant.                                                *)

ServerMessages ==
    [method : {"join", "close_session", "offer"}, session : Sessions \cup {None},
     candidate : {NoCandidate}]
      \cup [method : {"iceCandidate"}, session : Sessions, candidate : BotCandidate]

ClientMessages ==
    [method : {"join", "answer"}, session : Sessions, candidate : {NoCandidate}]
      \cup [method : {"iceCandidate"}, session : Sessions, candidate : Candidate]

BusOK == toServer \in Seq(ServerMessages) /\ toClient \in Seq(ClientMessages)

ServerOK ==
    /\ room \in Sessions \cup {None}
    /\ offered \in [Sessions -> Sessions \cup {None}]
    /\ pending \in [Sessions -> Seq(BotCandidate)]
    /\ added \in [Sessions -> SUBSET (Sessions \X (BotCandidates \ BadCandidates))]
    /\ answering \in Sessions \cup {None}
    /\ gathered \in [Sessions -> SUBSET Candidates]

Stages == {"none", "started", "created", "local", "writing", "offered", "failed"}

BotOK ==
    /\ up \in BOOLEAN
    /\ stage \in [Sessions -> Stages]
    /\ peer \in Sessions \cup {None}
    /\ offerOf \in [Sessions -> Sessions \cup {None}]
    /\ signaling \in [Sessions -> {"new", "have-local-offer", "stable"}]
    /\ answeredBy \in [Sessions -> Sessions \cup {None}]
    /\ botPending \in Seq(Candidate)
    /\ botAdded \in [Sessions -> SUBSET Candidate]
    /\ botGathered \in [Sessions -> SUBSET BotCandidates]
    /\ writing \subseteq Writers

\* joins[i] is how many sessions there are when i more messages are handled.
Counts(joins) ==
    /\ joins \in [0 .. Len(toServer) -> 0 .. connects]
    /\ joins[0] = begun
    /\ joins[Len(toServer)] = connects
    /\ \A i \in 1 .. Len(toServer) :
         joins[i] = IF toServer[i].method = "join" THEN joins[i - 1] + 1 ELSE joins[i - 1]

\* Each session has a connection of its own.
JoinsCounted == connects \in 0 .. MaxSessions /\ \E joins : Counts(joins)

JoinAt(i) == i \in DOMAIN toClient /\ toClient[i].method = "join"

\* The Join of a session comes once, before createPeerConnection runs for it.
JoinsComeOnce ==
    /\ begun \in Nat
    /\ \A s \in Sessions : stage[s] # "none" => s =< begun
    /\ \A i \in DOMAIN toClient : JoinAt(i) =>
         toClient[i].session =< begun /\ stage[toClient[i].session] = "none"
    /\ \A i, j \in DOMAIN toClient :
         JoinAt(i) /\ JoinAt(j) /\ toClient[i].session = toClient[j].session => i = j

Made(s) == stage[s] \notin {"none", "started"}

\* A new peer connection has no answer yet.
PeersAreMade ==
    /\ peer # None => Made(peer)
    /\ \A s \in Sessions : answeredBy[s] # None => Made(s)

SignallingIInv ==
    /\ BusOK
    /\ ServerOK
    /\ BotOK
    /\ JoinsCounted
    /\ JoinsComeOnce
    /\ PeersAreMade
    /\ NoCandidateStranded

-----------------------------------------------------------------------------
(* Queues.                                                                 *)

LEMMA AppendOK ==
    ASSUME NEW S, NEW q \in Seq(S), NEW m \in S
    PROVE  /\ Append(q, m) \in Seq(S)
           /\ Len(q) \in Nat /\ Len(Append(q, m)) = Len(q) + 1
           /\ \A i \in 1 .. Len(q) : Append(q, m)[i] = q[i]
           /\ Append(q, m)[Len(q) + 1] = m
OBVIOUS

LEMMA TailOK ==
    ASSUME NEW S, NEW q \in Seq(S), q # <<>>
    PROVE  /\ Head(q) \in S /\ Head(q) = q[1] /\ Tail(q) \in Seq(S)
           /\ Len(q) \in Nat \ {0} /\ Len(Tail(q)) = Len(q) - 1
           /\ \A i \in 1 .. Len(Tail(q)) : Tail(q)[i] = q[i + 1]
OBVIOUS

\* A flush that fails leaves a refused candidate in the queue, one that does
\* not leaves nothing.
LEMMA FlushOK ==
    ASSUME NEW q
    PROVE  AfterFlush(q) # <<>> => FlushFails(AfterFlush(q))
BY DEF AfterFlush

\* What pion takes is in the queue and not refused.
LEMMA FlushedOK ==
    ASSUME NEW q \in Seq(BotCandidate)
    PROVE  /\ Flushed(q) \subseteq Sessions \X (BotCandidates \ BadCandidates)
           /\ AfterFlush(q) \in Seq(BotCandidate)
<1>1. ASSUME NEW j \in 1 .. Len(q), \A k \in 1 .. j : ~Refused(q[k])
      PROVE  q[j] \in Sessions \X (BotCandidates \ BadCandidates)
  <2>1. j \in 1 .. j /\ q[j] \in BotCandidate
    OBVIOUS
  <2> QED BY <1>1, <2>1 DEF Refused, BotCandidate
<1> QED BY <1>1 DEF Flushed, AfterFlush

\* Nothing the server gathers is refused.
LEMMA ServerCandidatesAreGood ==
    ASSUME NEW q \in Seq(Candidate)
    PROVE  /\ Flushed(q) \subseteq Candidate
           /\ AfterFlush(q) = <<>>
<1>1. \A i \in 1 .. Len(q) : q[i] \in Candidate /\ ~Refused(q[i])
  BY SignallingAssumption DEF Candidate, Refused
<1> QED BY <1>1 DEF Flushed, AfterFlush, FlushFails

LEMMA ToServerOK ==
    ASSUME BusOK, NEW m \in ServerMessages, ToServer(m)
    PROVE  toServer' \in Seq(ServerMessages)
BY DEF BusOK, ToServer

LEMMA ToClientOK ==
    ASSUME BusOK, NEW m \in ClientMessages, ToClient(m)
    PROVE  toClient' \in Seq(ClientMessages)
BY DEF BusOK, ToClient

LEMMA ReceivesOK ==
    ASSUME BusOK, NEW method, Receives(method)
    PROVE  toServer' \in Seq(ServerMessages) /\ Head(toServer) \in ServerMessages
BY TailOK DEF BusOK, Receives

LEMMA ReadsOK ==
    ASSUME BusOK, NEW method, Reads(method)
    PROVE  Tail(toClient) \in Seq(ClientMessages) /\ Head(toClient) \in ClientMessages
BY TailOK DEF BusOK, Reads

\* A message that is no join changes no count.
LEMMA PublishKeepsCount ==
    ASSUME BusOK, JoinsCounted, NEW m \in ServerMessages, ToServer(m), UNCHANGED begun,
           connects' \in 0 .. MaxSessions,
           connects' = IF m.method = "join" THEN connects + 1 ELSE connects
    PROVE  JoinsCounted'
<1>1. PICK joins : Counts(joins)
  BY DEF JoinsCounted
<1>2. connects \in Nat /\ connects' \in Nat /\ Len(toServer) \in Nat
  BY DEF JoinsCounted, BusOK
<1>3. /\ toServer' = Append(toServer, m) /\ Len(toServer') = Len(toServer) + 1
      /\ \A i \in 1 .. Len(toServer) : toServer'[i] = toServer[i]
      /\ toServer'[Len(toServer) + 1] = m
  BY AppendOK DEF BusOK, ToServer
<1> DEFINE more == [i \in 0 .. (Len(toServer) + 1) |->
                      IF i =< Len(toServer) THEN joins[i] ELSE connects']
<1>4. more \in [0 .. Len(toServer') -> 0 .. connects']
  BY <1>1, <1>2, <1>3 DEF Counts
<1>5. more[0] = begun' /\ more[Len(toServer')] = connects'
  BY <1>1, <1>2, <1>3 DEF Counts
<1>6. ASSUME NEW i \in 1 .. Len(toServer')
      PROVE  more[i] = IF toServer'[i].method = "join" THEN more[i - 1] + 1 ELSE more[i - 1]
  <2>1. CASE i =< Len(toServer)
    BY <1>1, <1>2, <1>3, <1>6, <2>1 DEF Counts
  <2>2. CASE i = Len(toServer) + 1
    BY <1>1, <1>2, <1>3, <1>6, <2>2 DEF Counts
  <2> QED BY <1>2, <1>3, <2>1, <2>2
<1> QED BY <1>4, <1>5, <1>6 DEF JoinsCounted, Counts

\* There is a session for each join that has been received, and a connection
\* for each session.
LEMMA ReceiveKeepsCount ==
    ASSUME BusOK, JoinsCounted, NEW method, Receives(method), UNCHANGED connects,
           begun' = IF method = "join" THEN begun + 1 ELSE begun
    PROVE  JoinsCounted' /\ begun' =< MaxSessions
<1>1. PICK joins : Counts(joins)
  BY DEF JoinsCounted
<1>2. /\ toServer' = Tail(toServer) /\ toServer[1].method = method
      /\ Len(toServer) \in Nat \ {0} /\ Len(toServer') = Len(toServer) - 1
      /\ \A i \in 1 .. Len(toServer') : toServer'[i] = toServer[i + 1]
  BY TailOK DEF BusOK, Receives
<1>3. joins[1] = begun' /\ connects \in 0 .. MaxSessions /\ MaxSessions \in Nat
  BY <1>1, <1>2, SignallingAssumption DEF Counts, JoinsCounted
<1> DEFINE fewer == [i \in 0 .. Len(toServer') |-> joins[i + 1]]
<1>4. fewer \in [0 .. Len(toServer') -> 0 .. connects']
  BY <1>1, <1>2 DEF Counts
<1>5. fewer[0] = begun' /\ fewer[Len(toServer')] = connects'
  BY <1>1, <1>2, <1>3 DEF Counts
<1>6. ASSUME NEW i \in 1 .. Len(toServer')
      PROVE  fewer[i] = IF toServer'[i].method = "join" THEN fewer[i - 1] + 1
                        ELSE fewer[i - 1]
  <2>1. /\ i + 1 \in 1 .. Len(toServer) /\ toServer'[i] = toServer[i + 1]
        /\ fewer[i] = joins[i + 1] /\ fewer[i - 1] = joins[i]
    BY <1>2, <1>6
  <2>2. joins[i + 1] = IF toServer[i + 1].method = "join" THEN joins[i] + 1 ELSE joins[i]
    BY <1>1, <2>1 DEF Counts
  <2> QED BY <2>1, <2>2
<1>7. begun' \in 0 .. connects
  BY <1>4, <1>5
<1> HIDE DEF fewer
<1>8. \E g : Counts(g)'
  BY <1>4, <1>5, <1>6 DEF Counts
<1>9. connects' \in 0 .. MaxSessions /\ begun' =< MaxSessions
  BY <1>3, <1>7
<1> QED BY <1>8, <1>9 DEF JoinsCounted

\* Nothing but Connect and the router change what is counted.
LEMMA CountUntouched ==
    ASSUME JoinsCounted, UNCHANGED <<toServer, begun, connects>>
    PROVE  JoinsCounted'
BY DEF JoinsCounted, Counts

\* A message of the client is read, or another is published.
LEMMA ReadKeepsJoins ==
    ASSUME BusOK, JoinsComeOnce, NEW method, Reads(method), toClient' = Tail(toClient),
           UNCHANGED <<begun, stage>>
    PROVE  JoinsComeOnce'
<1>1. /\ Len(toClient) \in Nat \ {0} /\ Len(toClient') = Len(toClient) - 1
      /\ \A i \in 1 .. Len(toClient') : toClient'[i] = toClient[i + 1]
      /\ toClient' \in Seq(ClientMessages)
  BY TailOK DEF BusOK, Reads
<1>2. \A i \in DOMAIN toClient' : i + 1 \in DOMAIN toClient /\ toClient'[i] = toClient[i + 1]
  BY <1>1 DEF BusOK
<1>3. \A i \in DOMAIN toClient' : JoinAt(i)' => JoinAt(i + 1)
  BY <1>2 DEF JoinAt
<1>4. \A i, j \in DOMAIN toClient' : i + 1 = j + 1 => i = j
  BY <1>1
<1> QED BY <1>2, <1>3, <1>4 DEF JoinsComeOnce

LEMMA PublishKeepsJoins ==
    ASSUME BusOK, JoinsComeOnce, NEW m \in ClientMessages, ToClient(m), m.method # "join",
           UNCHANGED <<begun, stage>>
    PROVE  JoinsComeOnce'
<1>1. CASE up
  <2>1. /\ toClient' = Append(toClient, m) /\ Len(toClient') = Len(toClient) + 1
        /\ Len(toClient) \in Nat
        /\ \A i \in 1 .. Len(toClient) : toClient'[i] = toClient[i]
        /\ toClient'[Len(toClient) + 1] = m
        /\ toClient' \in Seq(ClientMessages)
    BY <1>1, AppendOK DEF BusOK, ToClient
  <2>2. \A i \in DOMAIN toClient' : JoinAt(i)' => JoinAt(i) /\ toClient'[i] = toClient[i]
    BY <2>1 DEF JoinAt, BusOK
  <2>3. \A i \in DOMAIN toClient : i \in DOMAIN toClient'
    BY <2>1 DEF BusOK
  <2> QED BY <2>2, <2>3 DEF JoinsComeOnce, JoinAt
<1>2. CASE ~up
  BY <1>2 DEF ToClient, JoinsComeOnce, JoinAt
<1> QED BY <1>1, <1>2

\* The bus towards the client and the bot's goroutines stay as they are, or the
\* goroutines go on behind "started".
LEMMA StagesKeepJoins ==
    ASSUME BusOK, JoinsComeOnce, UNCHANGED <<begun, toClient>>,
           \A s \in Sessions : stage'[s] # "none" => stage[s] # "none"
    PROVE  JoinsComeOnce'
<1>1. \A i \in DOMAIN toClient : JoinAt(i)' <=> JoinAt(i)
  BY DEF JoinAt
<1>2. \A i \in DOMAIN toClient : JoinAt(i) => stage'[toClient[i].session] = "none"
  <2>1. \A i \in DOMAIN toClient : toClient[i].session \in Sessions
    BY DEF BusOK, ClientMessages
  <2> QED BY <2>1 DEF JoinsComeOnce
<1> QED BY <1>1, <1>2 DEF JoinsComeOnce

-----------------------------------------------------------------------------
(* The bus and the end of the bot.                                         *)

LEMMA ConnectOK ==
    ASSUME SignallingIInv, Connect
    PROVE  SignallingIInv'
<1> DEFINE m == Message("join", None, NoCandidate)
<1>1. m \in ServerMessages /\ m.method = "join" /\ ToServer(m)
  BY DEF Connect, Message, ServerMessages
<1>2. BusOK'
  BY <1>1, ToServerOK DEF SignallingIInv, Connect, BusOK
<1>3. connects' = connects + 1 /\ connects' \in 0 .. MaxSessions
  BY SignallingAssumption DEF SignallingIInv, JoinsCounted, Connect
<1>4. JoinsCounted'
  <2>1. UNCHANGED begun
    BY DEF Connect, serverVars
  <2> HIDE DEF m
  <2> QED BY <1>1, <1>3, <2>1, PublishKeepsCount DEF SignallingIInv
<1>5. UNCHANGED <<toClient, serverVars, stage, peer, offerOf, signaling, answeredBy,
                  botPending, botAdded, botGathered, writing>> /\ up' = TRUE
  BY DEF Connect
<1>6. JoinsComeOnce'
  BY <1>5 DEF SignallingIInv, JoinsComeOnce, JoinAt, serverVars
<1>7. ServerOK' /\ BotOK' /\ PeersAreMade' /\ NoCandidateStranded'
  BY <1>5 DEF SignallingIInv, ServerOK, BotOK, PeersAreMade, Made, NoCandidateStranded,
              serverVars
<1> QED BY <1>2, <1>4, <1>6, <1>7 DEF SignallingIInv

\* A bot that ends leaves nothing but what the server knows.
LEMMA BotEndsOK ==
    ASSUME SignallingIInv, BotEnds
    PROVE  SignallingIInv'
<1> DEFINE m == Message("close_session", None, NoCandidate)
<1>1. m \in ServerMessages /\ m.method # "join" /\ ToServer(m)
  BY DEF BotEnds, Message, ServerMessages
<1>2. UNCHANGED <<serverVars, connects>> /\ toClient' = <<>> /\ up' = FALSE /\ FreshBot
  BY DEF BotEnds
<1>3. BusOK'
  BY <1>1, <1>2, ToServerOK DEF SignallingIInv, BusOK
<1>4. JoinsCounted'
  <2>1. UNCHANGED begun /\ connects' \in 0 .. MaxSessions
    BY <1>2 DEF serverVars, SignallingIInv, JoinsCounted
  <2> HIDE DEF m
  <2> QED BY <1>1, <1>2, <2>1, PublishKeepsCount DEF SignallingIInv
<1>5. JoinsComeOnce'
  BY <1>2 DEF SignallingIInv, JoinsComeOnce, JoinAt, serverVars, FreshBot
<1>6. ServerOK' /\ (\A s \in Sessions :
                     offered'[s] # None /\ pending'[s] # <<>> => FlushFails(pending'[s]))
  BY <1>2 DEF SignallingIInv, ServerOK, NoCandidateStranded, serverVars
<1>7. BotOK' /\ PeersAreMade' /\ peer' = None
  <2>1. PeersAreMade' /\ peer' = None
    BY <1>2 DEF PeersAreMade, FreshBot
  <2>2. <<>> \in Seq(Candidate)
    OBVIOUS
  <2> QED BY <1>2, <2>1, <2>2 DEF BotOK, FreshBot, Stages
<1> QED BY <1>3, <1>4, <1>5, <1>6, <1>7 DEF SignallingIInv, NoCandidateStranded

-----------------------------------------------------------------------------
(* The server.                                                             *)

\* What no step of the server changes.
LEMMA ServerStepOK ==
    ASSUME SignallingIInv, UNCHANGED botVars
    PROVE  /\ BotOK' /\ PeersAreMade'
           /\ peer' # None /\ answeredBy'[peer'] # None => botPending' = <<>>
BY DEF SignallingIInv, BotOK, PeersAreMade, Made, NoCandidateStranded, botVars

\* The router takes a message that is no join and tells the client nothing.
LEMMA RouterStepOK ==
    ASSUME SignallingIInv, NEW method, method # "join", Receives(method),
           UNCHANGED <<toClient, begun, botVars>>
    PROVE  BusOK' /\ JoinsCounted' /\ JoinsComeOnce'
<1>1. BusOK' /\ JoinsCounted'
  BY ReceivesOK, ReceiveKeepsCount DEF SignallingIInv, BusOK, botVars
<1>2. JoinsComeOnce'
  BY StagesKeepJoins DEF SignallingIInv, botVars
<1> QED BY <1>1, <1>2

\* A new session has no Join and no createPeerConnection yet.
LEMMA StartSessionOK ==
    ASSUME SignallingIInv, StartSession
    PROVE  SignallingIInv'
<1> DEFINE m == Message("join", begun', NoCandidate)
<1>1. /\ Receives("join") /\ begun' = begun + 1 /\ room' = begun' /\ ToClient(m)
      /\ UNCHANGED <<offered, pending, added, answering, gathered, botVars>>
  BY DEF StartSession
<1>2. JoinsCounted' /\ begun' =< MaxSessions
  BY <1>1, ReceiveKeepsCount DEF SignallingIInv, botVars
<1>3. begun \in Nat /\ begun' \in Sessions /\ MaxSessions \in Nat
  BY <1>1, <1>2, SignallingAssumption DEF SignallingIInv, JoinsComeOnce, Sessions
<1>4. m \in ClientMessages /\ m.method = "join" /\ m.session = begun'
  BY <1>3 DEF Message, ClientMessages
<1> HIDE DEF m
<1>5. BusOK'
  BY <1>1, <1>4, ReceivesOK, ToClientOK DEF SignallingIInv, BusOK
<1>6. \A s \in Sessions : (stage[s] # "none" => s =< begun) /\ UNCHANGED stage
  BY <1>1 DEF SignallingIInv, JoinsComeOnce, botVars
<1>7. JoinsComeOnce'
  <2>1. CASE up
    <3>1. /\ toClient' = Append(toClient, m) /\ Len(toClient') = Len(toClient) + 1
          /\ Len(toClient) \in Nat
          /\ \A i \in 1 .. Len(toClient) : toClient'[i] = toClient[i]
          /\ toClient'[Len(toClient) + 1] = m
          /\ toClient' \in Seq(ClientMessages) /\ toClient \in Seq(ClientMessages)
      BY <1>1, <1>4, <2>1, AppendOK DEF SignallingIInv, BusOK, ToClient
    <3>2. \A i \in DOMAIN toClient' :
            \/ i \in DOMAIN toClient /\ toClient'[i] = toClient[i] /\ (JoinAt(i)' <=> JoinAt(i))
            \/ i = Len(toClient) + 1 /\ toClient'[i] = m
      BY <3>1 DEF JoinAt
    <3>3. \A i \in DOMAIN toClient : JoinAt(i) =>
            /\ toClient[i].session =< begun /\ stage[toClient[i].session] = "none"
            /\ toClient[i].session \in Sessions
      BY <3>1 DEF SignallingIInv, JoinsComeOnce, ClientMessages, JoinAt
    <3>4. stage[begun'] = "none"
      BY <1>1, <1>3, <1>6
    <3>5. \A i \in DOMAIN toClient' : JoinAt(i)' =>
            toClient'[i].session =< begun' /\ stage'[toClient'[i].session] = "none"
      BY <1>1, <1>3, <1>4, <1>6, <3>2, <3>3, <3>4 DEF Sessions, botVars
    <3>6. \A i, j \in DOMAIN toClient' :
            JoinAt(i)' /\ JoinAt(j)' /\ toClient'[i].session = toClient'[j].session => i = j
      BY <1>1, <1>3, <1>4, <3>2, <3>3 DEF SignallingIInv, JoinsComeOnce, Sessions
    <3>7. \A s \in Sessions : stage'[s] # "none" => s =< begun'
      BY <1>1, <1>3, <1>6 DEF Sessions
    <3> QED BY <1>1, <1>3, <3>5, <3>6, <3>7 DEF JoinsComeOnce
  <2>2. CASE ~up
    <3>1. UNCHANGED toClient
      BY <1>1, <2>2 DEF ToClient
    <3>2. \A i \in DOMAIN toClient : JoinAt(i) => toClient[i].session \in Sessions
      BY DEF SignallingIInv, BusOK, ClientMessages
    <3>3. \A i \in DOMAIN toClient' : JoinAt(i)' =>
            toClient'[i].session =< begun' /\ stage'[toClient'[i].session] = "none"
      BY <1>1, <1>3, <3>1, <3>2 DEF SignallingIInv, JoinsComeOnce, JoinAt, Sessions, botVars
    <3>4. \A s \in Sessions : stage'[s] # "none" => s =< begun'
      BY <1>1, <1>3, <1>6 DEF Sessions
    <3> QED BY <1>1, <1>3, <3>1, <3>3, <3>4 DEF SignallingIInv, JoinsComeOnce, JoinAt
  <2> QED BY <2>1, <2>2
<1>8. ServerOK'
  BY <1>1, <1>3 DEF SignallingIInv, ServerOK
<1> QED BY <1>1, <1>2, <1>5, <1>7, <1>8, ServerStepOK
        DEF SignallingIInv, NoCandidateStranded

LEMMA CloseSessionOK ==
    ASSUME SignallingIInv, CloseSession
    PROVE  SignallingIInv'
<1>1. /\ Receives("close_session") /\ room' = None
      /\ UNCHANGED <<toClient, begun, offered, pending, added, answering, gathered, botVars>>
  BY DEF CloseSession
<1>2. BusOK' /\ JoinsCounted' /\ JoinsComeOnce'
  BY <1>1, RouterStepOK
<1>3. ServerOK'
  BY <1>1 DEF SignallingIInv, ServerOK
<1> QED BY <1>1, <1>2, <1>3, ServerStepOK DEF SignallingIInv, NoCandidateStranded

\* A candidate is queued only as long as there is no offer.
LEMMA AddICECandidateOK ==
    ASSUME SignallingIInv, AddICECandidate
    PROVE  SignallingIInv'
<1> DEFINE cand == Head(toServer).candidate
           queued == room # None /\ offered[room] = None
           taken == room # None /\ offered[room] # None /\ ~Refused(cand)
<1>1. /\ Receives("iceCandidate")
      /\ pending' = IF queued THEN [pending EXCEPT ![room] = Append(@, cand)] ELSE pending
      /\ added' = IF taken THEN [added EXCEPT ![room] = @ \cup {cand}] ELSE added
      /\ UNCHANGED <<toClient, room, begun, offered, answering, gathered, botVars>>
  BY DEF AddICECandidate
<1>2. BusOK' /\ JoinsCounted' /\ JoinsComeOnce'
  BY <1>1, RouterStepOK
<1>3. cand \in BotCandidate
  <2>1. Head(toServer) \in ServerMessages /\ Head(toServer).method = "iceCandidate"
    BY <1>1, ReceivesOK DEF SignallingIInv, Receives
  <2> QED BY <2>1 DEF ServerMessages
<1>4. room # None => room \in Sessions
  BY DEF SignallingIInv, ServerOK
<1>5. pending' \in [Sessions -> Seq(BotCandidate)]
  <2>1. room \in Sessions => Append(pending[room], cand) \in Seq(BotCandidate)
    BY <1>3 DEF SignallingIInv, ServerOK
  <2> HIDE DEF cand
  <2> QED BY <1>1, <1>4, <2>1 DEF SignallingIInv, ServerOK
<1>6. added' \in [Sessions -> SUBSET (Sessions \X (BotCandidates \ BadCandidates))]
  <2>1. taken => cand \in Sessions \X (BotCandidates \ BadCandidates)
    BY <1>3 DEF Refused, BotCandidate
  <2> HIDE DEF cand
  <2> QED BY <1>1, <1>4, <2>1 DEF SignallingIInv, ServerOK
<1>7. ServerOK'
  BY <1>1, <1>5, <1>6 DEF SignallingIInv, ServerOK
<1>8. \A s \in Sessions : offered'[s] # None => pending'[s] = pending[s]
  BY <1>1 DEF SignallingIInv, ServerOK
<1>9. \A s \in Sessions : offered'[s] # None /\ pending'[s] # <<>> => FlushFails(pending'[s])
  BY <1>1, <1>8 DEF SignallingIInv, NoCandidateStranded
<1> QED BY <1>1, <1>2, <1>7, <1>9, ServerStepOK DEF SignallingIInv, NoCandidateStranded

\* The flush of HandleOffer leaves nothing, or a refused candidate.
LEMMA HandleOfferOK ==
    ASSUME SignallingIInv, HandleOffer
    PROVE  SignallingIInv'
<1>1. /\ Receives("offer") /\ room # None
      /\ offered' = [offered EXCEPT ![room] = Head(toServer).session]
      /\ added' = [added EXCEPT ![room] = @ \cup Flushed(pending[room])]
      /\ pending' = [pending EXCEPT ![room] = AfterFlush(@)]
      /\ answering' = AnswerAfter(pending[room])
      /\ UNCHANGED <<toClient, room, begun, gathered, botVars>>
  BY DEF HandleOffer
<1>2. BusOK' /\ JoinsCounted' /\ JoinsComeOnce'
  BY <1>1, RouterStepOK
<1>3. room \in Sessions /\ pending[room] \in Seq(BotCandidate)
  BY <1>1 DEF SignallingIInv, ServerOK
<1>4. Head(toServer).session \in Sessions \cup {None}
  BY <1>1, ReceivesOK DEF SignallingIInv, ServerMessages
<1>5. ServerOK'
  <2>1. offered' \in [Sessions -> Sessions \cup {None}]
    BY <1>1, <1>4 DEF SignallingIInv, ServerOK
  <2>2. pending' \in [Sessions -> Seq(BotCandidate)]
    BY <1>1, <1>3, FlushedOK DEF SignallingIInv, ServerOK
  <2>3. added' \in [Sessions -> SUBSET (Sessions \X (BotCandidates \ BadCandidates))]
    BY <1>1, <1>3, FlushedOK DEF SignallingIInv, ServerOK
  <2>4. answering' \in Sessions \cup {None}
    BY <1>1, <1>3 DEF AnswerAfter
  <2> QED BY <1>1, <2>1, <2>2, <2>3, <2>4 DEF SignallingIInv, ServerOK
<1>6. ASSUME NEW s \in Sessions, offered'[s] # None, pending'[s] # <<>>
      PROVE  FlushFails(pending'[s])
  <2>1. CASE s = room
    <3>1. pending'[s] = AfterFlush(pending[room])
      BY <1>1, <2>1 DEF SignallingIInv, ServerOK
    <3> QED BY <1>6, <3>1, FlushOK
  <2>2. CASE s # room
    <3>1. pending'[s] = pending[s] /\ offered'[s] = offered[s]
      BY <1>1, <2>2 DEF SignallingIInv, ServerOK
    <3> QED BY <1>6, <3>1 DEF SignallingIInv, NoCandidateStranded
  <2> QED BY <2>1, <2>2
<1> QED BY <1>1, <1>2, <1>5, <1>6, ServerStepOK DEF SignallingIInv, NoCandidateStranded

LEMMA RefuseOfferOK ==
    ASSUME SignallingIInv, RefuseOffer
    PROVE  SignallingIInv'
<1>1. Receives("offer") /\ UNCHANGED <<toClient, serverVars, botVars>>
  BY DEF RefuseOffer
<1>2. BusOK' /\ JoinsCounted' /\ JoinsComeOnce'
  BY <1>1, RouterStepOK DEF serverVars
<1>3. ServerOK'
  BY <1>1 DEF SignallingIInv, ServerOK, serverVars
<1> QED BY <1>1, <1>2, <1>3, ServerStepOK DEF SignallingIInv, NoCandidateStranded, serverVars

\* A message of the server that is no join.
LEMMA PublishOK ==
    ASSUME SignallingIInv, NEW m \in ClientMessages, m.method # "join", ToClient(m),
           UNCHANGED <<toServer, begun, botVars>>
    PROVE  BusOK' /\ JoinsCounted' /\ JoinsComeOnce'
<1>1. BusOK'
  BY ToClientOK DEF SignallingIInv, BusOK
<1>2. JoinsCounted'
  BY CountUntouched DEF SignallingIInv, botVars
<1>3. JoinsComeOnce'
  BY PublishKeepsJoins DEF SignallingIInv, botVars
<1> QED BY <1>1, <1>2, <1>3

LEMMA PublishAnswerOK ==
    ASSUME SignallingIInv, PublishAnswer
    PROVE  SignallingIInv'
<1> DEFINE m == Message("answer", answering, NoCandidate)
<1>1. /\ answering # None /\ ToClient(m) /\ answering' = None
      /\ UNCHANGED <<toServer, room, begun, offered, pending, added, gathered, botVars>>
  BY DEF PublishAnswer
<1>2. m \in ClientMessages /\ m.method # "join"
  BY <1>1 DEF SignallingIInv, ServerOK, Message, ClientMessages
<1> HIDE DEF m
<1>3. BusOK' /\ JoinsCounted' /\ JoinsComeOnce'
  BY <1>1, <1>2, PublishOK
<1>4. ServerOK'
  BY <1>1 DEF SignallingIInv, ServerOK
<1> QED BY <1>1, <1>3, <1>4, ServerStepOK DEF SignallingIInv, NoCandidateStranded

LEMMA SendICECandidateOK ==
    ASSUME SignallingIInv, NEW s \in Sessions, NEW c \in Candidates, SendICECandidate(s, c)
    PROVE  SignallingIInv'
<1> DEFINE m == Message("iceCandidate", s, <<s, c>>)
<1>1. /\ gathered' = [gathered EXCEPT ![s] = @ \cup {c}] /\ ToClient(m)
      /\ UNCHANGED <<toServer, room, begun, offered, pending, added, answering, botVars>>
  BY DEF SendICECandidate
<1>2. m \in ClientMessages /\ m.method # "join"
  BY DEF Message, ClientMessages, Candidate
<1> HIDE DEF m
<1>3. BusOK' /\ JoinsCounted' /\ JoinsComeOnce'
  BY <1>1, <1>2, PublishOK
<1>4. ServerOK'
  BY <1>1 DEF SignallingIInv, ServerOK
<1> QED BY <1>1, <1>3, <1>4, ServerStepOK DEF SignallingIInv, NoCandidateStranded

-----------------------------------------------------------------------------
(* The bot: readRPC.                                                       *)

\* What a step of the bot that neither reads nor writes the bus leaves alone.
LEMMA BotStepOK ==
    ASSUME SignallingIInv, UNCHANGED <<toServer, serverVars, connects>>
    PROVE  /\ JoinsCounted' /\ ServerOK'
           /\ \A s \in Sessions :
                offered'[s] # None /\ pending'[s] # <<>> => FlushFails(pending'[s])
           /\ toServer' \in Seq(ServerMessages)
<1>1. JoinsCounted'
  BY CountUntouched DEF SignallingIInv, serverVars
<1> QED BY <1>1 DEF SignallingIInv, ServerOK, BusOK, NoCandidateStranded, serverVars

LEMMA ReadJoinOK ==
    ASSUME SignallingIInv, ReadJoin
    PROVE  SignallingIInv'
<1> DEFINE t == Head(toClient).session
<1>1. /\ Reads("join") /\ toClient' = Tail(toClient)
      /\ stage' = [stage EXCEPT ![t] = "started"]
      /\ UNCHANGED <<toServer, serverVars, up, connects, peer, offerOf, signaling,
                     answeredBy, botPending, botAdded, botGathered, writing>>
  BY DEF ReadJoin
<1>2. /\ Head(toClient) = toClient[1] /\ JoinAt(1) /\ toClient[1] \in ClientMessages
      /\ Len(toClient) \in Nat \ {0} /\ Len(toClient') = Len(toClient) - 1
      /\ \A i \in 1 .. Len(toClient') : toClient'[i] = toClient[i + 1]
      /\ toClient' \in Seq(ClientMessages) /\ toClient \in Seq(ClientMessages)
  BY <1>1, TailOK DEF SignallingIInv, BusOK, Reads, JoinAt
<1>3. t \in Sessions /\ t =< begun /\ stage[t] = "none"
  BY <1>2 DEF SignallingIInv, JoinsComeOnce, ClientMessages
<1> HIDE DEF t
<1>4. stage' \in [Sessions -> Stages] /\ stage'[t] = "started"
      /\ \A s \in Sessions : s # t => stage'[s] = stage[s]
  BY <1>1, <1>3 DEF SignallingIInv, BotOK, Stages
<1>5. JoinsComeOnce'
  <2>1. \A i \in DOMAIN toClient' :
           i + 1 \in DOMAIN toClient /\ toClient'[i] = toClient[i + 1] /\ i + 1 # 1
    BY <1>2
  <2>2. \A i \in DOMAIN toClient' : JoinAt(i)' => JoinAt(i + 1)
    BY <2>1 DEF JoinAt
  <2>3. \A i \in DOMAIN toClient' : JoinAt(i)' =>
           /\ toClient'[i].session =< begun /\ stage[toClient'[i].session] = "none"
           /\ toClient'[i].session # t /\ toClient'[i].session \in Sessions
    BY <1>2, <2>1, <2>2 DEF SignallingIInv, JoinsComeOnce, ClientMessages, t
  <2>4. \A i, j \in DOMAIN toClient' :
           JoinAt(i)' /\ JoinAt(j)' /\ toClient'[i].session = toClient'[j].session => i = j
    <3>1. \A i, j \in DOMAIN toClient' : i + 1 = j + 1 => i = j
      BY <1>2
    <3> QED BY <2>1, <2>2, <3>1 DEF SignallingIInv, JoinsComeOnce
  <2>5. \A s \in Sessions : stage'[s] # "none" => s =< begun
    BY <1>3, <1>4 DEF SignallingIInv, JoinsComeOnce
  <2>6. begun' = begun /\ begun \in Nat
    BY <1>1 DEF serverVars, SignallingIInv, JoinsComeOnce
  <2> QED BY <1>4, <2>3, <2>4, <2>5, <2>6 DEF JoinsComeOnce
<1>6. PeersAreMade'
  <2>1. \A s \in Sessions : Made(s) => Made(s)'
    BY <1>3, <1>4 DEF Made
  <2>2. peer # None => peer \in Sessions
    BY DEF SignallingIInv, BotOK
  <2> QED BY <1>1, <2>1, <2>2 DEF SignallingIInv, PeersAreMade
<1>7. BotOK'
  BY <1>1, <1>4 DEF SignallingIInv, BotOK
<1>8. BusOK'
  BY <1>1, <1>2, BotStepOK DEF BusOK
<1> QED BY <1>1, <1>5, <1>6, <1>7, <1>8, BotStepOK DEF SignallingIInv, NoCandidateStranded

LEMMA ReadICECandidateOK ==
    ASSUME SignallingIInv, ReadICECandidate
    PROVE  SignallingIInv'
<1> DEFINE cand == Head(toClient).candidate
<1>1. /\ Reads("iceCandidate") /\ peer # None /\ toClient' = Tail(toClient)
      /\ UNCHANGED <<toServer, serverVars, up, connects, stage, peer, offerOf,
                     signaling, answeredBy, botGathered, writing>>
      /\ \/ /\ answeredBy[peer] = None /\ UNCHANGED botAdded
            /\ botPending' = Append(botPending, cand)
         \/ /\ botAdded' = [botAdded EXCEPT ![peer] = @ \cup {cand}]
            /\ UNCHANGED botPending
  BY DEF ReadICECandidate
<1>2. cand \in Candidate
  <2>1. Head(toClient) \in ClientMessages /\ Head(toClient).method = "iceCandidate"
    BY <1>1, ReadsOK DEF SignallingIInv, Reads
  <2> QED BY <2>1 DEF ClientMessages
<1> HIDE DEF cand
<1>3. BusOK'
  BY <1>1, ReadsOK, BotStepOK DEF SignallingIInv, BusOK
<1>4. JoinsComeOnce'
  BY <1>1, ReadKeepsJoins DEF SignallingIInv, serverVars
<1>5. botPending' \in Seq(Candidate) /\ botAdded' \in [Sessions -> SUBSET Candidate]
  <2>1. Append(botPending, cand) \in Seq(Candidate)
    BY <1>2 DEF SignallingIInv, BotOK
  <2> QED BY <1>1, <1>2, <2>1 DEF SignallingIInv, BotOK
<1>6. BotOK' /\ PeersAreMade'
  BY <1>1, <1>5 DEF SignallingIInv, BotOK, PeersAreMade, Made
<1>7. peer' # None /\ answeredBy'[peer'] # None => botPending' = <<>>
  BY <1>1 DEF SignallingIInv, NoCandidateStranded
<1> QED BY <1>1, <1>3, <1>4, <1>6, <1>7, BotStepOK DEF SignallingIInv, NoCandidateStranded

\* The flush of the bot leaves nothing: what a participant gathers is not refused.
LEMMA SetRemoteDescriptionOK ==
    ASSUME SignallingIInv, SetRemoteDescription
    PROVE  SignallingIInv'
<1>1. /\ Reads("answer") /\ peer # None /\ toClient' = Tail(toClient)
      /\ signaling' = [signaling EXCEPT ![peer] = "stable"]
      /\ answeredBy' = [answeredBy EXCEPT ![peer] = Head(toClient).session]
      /\ botAdded' = [botAdded EXCEPT ![peer] = @ \cup Flushed(botPending)]
      /\ botPending' = AfterFlush(botPending)
      /\ UNCHANGED <<toServer, serverVars, up, connects, stage, peer, offerOf,
                     botGathered, writing>>
  BY DEF SetRemoteDescription
<1>2. Head(toClient).session \in Sessions
  BY <1>1, ReadsOK DEF SignallingIInv, ClientMessages
<1>3. BusOK'
  BY <1>1, ReadsOK, BotStepOK DEF SignallingIInv, BusOK
<1>4. JoinsComeOnce'
  BY <1>1, ReadKeepsJoins DEF SignallingIInv, serverVars
<1>5. botPending' = <<>> /\ Flushed(botPending) \subseteq Candidate
  BY <1>1, ServerCandidatesAreGood DEF SignallingIInv, BotOK
<1>6. BotOK'
  <2>1. botPending' \in Seq(Candidate)
    BY <1>5
  <2>2. botAdded' \in [Sessions -> SUBSET Candidate]
    BY <1>1, <1>5 DEF SignallingIInv, BotOK
  <2>3. answeredBy' \in [Sessions -> Sessions \cup {None}]
    BY <1>1, <1>2 DEF SignallingIInv, BotOK
  <2>4. signaling' \in [Sessions -> {"new", "have-local-offer", "stable"}]
    BY <1>1 DEF SignallingIInv, BotOK
  <2> QED BY <1>1, <2>1, <2>2, <2>3, <2>4 DEF SignallingIInv, BotOK
<1>7. PeersAreMade'
  BY <1>1 DEF SignallingIInv, BotOK, PeersAreMade, Made
<1> QED BY <1>1, <1>3, <1>4, <1>5, <1>6, <1>7, BotStepOK DEF SignallingIInv, NoCandidateStranded

-----------------------------------------------------------------------------
(* The bot: createPeerConnection and the candidates it gathers.            *)

\* A goroutine goes on, at a stage behind "none", with the bus as it was.
LEMMA CreateStepOK ==
    ASSUME SignallingIInv, NEW s \in Sessions, NEW to \in Stages \ {"none", "started"},
           stage[s] # "none", stage' = [stage EXCEPT ![s] = to],
           UNCHANGED <<toClient, serverVars>>
    PROVE  /\ JoinsComeOnce' /\ stage' \in [Sessions -> Stages]
           /\ Made(s)' /\ \A t \in Sessions : Made(t) => Made(t)'
<1>1. /\ stage' \in [Sessions -> Stages] /\ stage'[s] = to
      /\ \A t \in Sessions : t # s => stage'[t] = stage[t]
  BY DEF SignallingIInv, BotOK
<1>2. JoinsComeOnce'
  <2>1. \A t \in Sessions : stage'[t] # "none" => stage[t] # "none"
    BY <1>1
  <2> QED BY <2>1, StagesKeepJoins DEF SignallingIInv, serverVars
<1> QED BY <1>1, <1>2 DEF Made

\* The new peer connection has no answer yet.
LEMMA NewPeerConnectionOK ==
    ASSUME SignallingIInv, NEW s \in Sessions, NewPeerConnection(s)
    PROVE  SignallingIInv'
<1>1. /\ stage[s] = "started" /\ stage' = [stage EXCEPT ![s] = "created"] /\ peer' = s
      /\ UNCHANGED <<busVars, serverVars, up, connects, offerOf, signaling,
                     answeredBy, botPending, botAdded, botGathered, writing>>
  BY DEF NewPeerConnection
<1>2. /\ JoinsComeOnce' /\ stage' \in [Sessions -> Stages]
      /\ Made(s)' /\ \A t \in Sessions : Made(t) => Made(t)'
  BY <1>1, CreateStepOK DEF Stages, busVars
<1>3. PeersAreMade'
  BY <1>1, <1>2 DEF SignallingIInv, PeersAreMade
<1>4. BotOK'
  BY <1>1, <1>2 DEF SignallingIInv, BotOK
<1>5. answeredBy'[peer'] = None
  BY <1>1 DEF SignallingIInv, PeersAreMade, Made
<1>6. BusOK'
  BY <1>1 DEF SignallingIInv, BusOK, busVars
<1>7. UNCHANGED toServer
  BY <1>1 DEF busVars
<1> QED BY <1>1, <1>2, <1>3, <1>4, <1>5, <1>6, <1>7, BotStepOK
        DEF SignallingIInv, NoCandidateStranded

\* The steps of the goroutine that keep the peer connection.
LEMMA StageStepOK ==
    ASSUME SignallingIInv, NEW s \in Sessions, NEW to \in Stages \ {"none", "started"},
           stage[s] # "none", stage' = [stage EXCEPT ![s] = to],
           UNCHANGED <<busVars, serverVars, up, connects, peer, answeredBy, botPending,
                       botAdded, botGathered>>,
           offerOf' \in [Sessions -> Sessions \cup {None}],
           signaling' \in [Sessions -> {"new", "have-local-offer", "stable"}],
           writing' \subseteq Writers
    PROVE  SignallingIInv'
<1>1. UNCHANGED <<toServer, toClient>>
  BY DEF busVars
<1>2. /\ JoinsComeOnce' /\ stage' \in [Sessions -> Stages]
      /\ \A t \in Sessions : Made(t) => Made(t)'
  BY <1>1, CreateStepOK
<1>3. PeersAreMade'
  <2>1. peer # None => peer \in Sessions
    BY DEF SignallingIInv, BotOK
  <2> QED BY <1>2, <2>1 DEF SignallingIInv, PeersAreMade
<1>4. BotOK'
  BY <1>2 DEF SignallingIInv, BotOK
<1>5. BusOK'
  BY <1>1 DEF SignallingIInv, BusOK
<1> QED BY <1>1, <1>2, <1>3, <1>4, <1>5, BotStepOK DEF SignallingIInv, NoCandidateStranded

LEMMA CreateFailsOK ==
    ASSUME SignallingIInv, NEW s \in Sessions, CreateFails(s)
    PROVE  SignallingIInv'
<1>1. /\ stage[s] # "none" /\ stage' = [stage EXCEPT ![s] = "failed"]
      /\ UNCHANGED <<busVars, serverVars, up, connects, peer, offerOf, signaling,
                     answeredBy, botPending, botAdded, botGathered, writing>>
  BY DEF CreateFails
<1>2. /\ offerOf' \in [Sessions -> Sessions \cup {None}] /\ writing' \subseteq Writers
      /\ signaling' \in [Sessions -> {"new", "have-local-offer", "stable"}]
  BY <1>1 DEF SignallingIInv, BotOK
<1> QED BY <1>1, <1>2, StageStepOK DEF Stages

LEMMA SetLocalDescriptionOK ==
    ASSUME SignallingIInv, NEW s \in Sessions, SetLocalDescription(s)
    PROVE  SignallingIInv'
<1>1. /\ stage[s] # "none" /\ stage' = [stage EXCEPT ![s] = "local"]
      /\ offerOf' = [offerOf EXCEPT ![s] = peer]
      /\ signaling' = [signaling EXCEPT ![peer] = "have-local-offer"]
      /\ UNCHANGED <<busVars, serverVars, up, connects, peer, answeredBy,
                     botPending, botAdded, botGathered, writing>>
  BY DEF SetLocalDescription
<1>2. /\ offerOf' \in [Sessions -> Sessions \cup {None}] /\ writing' \subseteq Writers
      /\ signaling' \in [Sessions -> {"new", "have-local-offer", "stable"}]
  BY <1>1 DEF SignallingIInv, BotOK
<1> QED BY <1>1, <1>2, StageStepOK DEF Stages

\* The second of two writers makes the bot end.
LEMMA StartOfferOK ==
    ASSUME SignallingIInv, NEW s \in Sessions, StartOffer(s)
    PROVE  SignallingIInv'
<1>1. CASE writing = {}
  <2>1. /\ stage[s] # "none" /\ stage' = [stage EXCEPT ![s] = "writing"]
        /\ UNCHANGED botGathered /\ writing' = {OfferWriter(s)}
        /\ UNCHANGED <<busVars, serverVars, up, connects, peer, offerOf, signaling,
                       answeredBy, botPending, botAdded>>
    BY <1>1 DEF StartOffer, StartWrite
  <2>2. /\ offerOf' \in [Sessions -> Sessions \cup {None}] /\ writing' \subseteq Writers
        /\ signaling' \in [Sessions -> {"new", "have-local-offer", "stable"}]
    BY <2>1 DEF SignallingIInv, BotOK, Writers, OfferWriter
  <2> QED BY <2>1, <2>2, StageStepOK DEF Stages
<1>2. CASE writing # {}
  BY <1>2, BotEndsOK DEF StartOffer, StartWrite
<1> QED BY <1>1, <1>2

LEMMA SendOfferOK ==
    ASSUME SignallingIInv, NEW s \in Sessions, SendOffer(s)
    PROVE  SignallingIInv'
<1> DEFINE m == Message("offer", offerOf[s], NoCandidate)
<1>1. /\ stage[s] # "none" /\ stage' = [stage EXCEPT ![s] = "offered"]
      /\ writing' = writing \ {OfferWriter(s)} /\ ToServer(m)
      /\ UNCHANGED <<toClient, serverVars, up, connects, peer, offerOf, signaling,
                     answeredBy, botPending, botAdded, botGathered>>
  BY DEF SendOffer
<1>2. m \in ServerMessages /\ m.method # "join"
  BY DEF SignallingIInv, BotOK, Message, ServerMessages
<1> HIDE DEF m
<1>3. BusOK'
  BY <1>1, <1>2, ToServerOK DEF SignallingIInv, BusOK
<1>4. JoinsCounted'
  <2>1. UNCHANGED begun /\ connects' \in 0 .. MaxSessions
    BY <1>1 DEF serverVars, SignallingIInv, JoinsCounted
  <2> QED BY <1>1, <1>2, <2>1, PublishKeepsCount DEF SignallingIInv
<1>5. /\ JoinsComeOnce' /\ stage' \in [Sessions -> Stages]
      /\ \A t \in Sessions : Made(t) => Made(t)'
  BY <1>1, CreateStepOK DEF Stages
<1>6. PeersAreMade'
  <2>1. peer # None => peer \in Sessions
    BY DEF SignallingIInv, BotOK
  <2> QED BY <1>1, <1>5, <2>1 DEF SignallingIInv, PeersAreMade
<1>7. BotOK' /\ ServerOK'
  BY <1>1, <1>5 DEF SignallingIInv, BotOK, ServerOK, serverVars
<1> QED BY <1>1, <1>3, <1>4, <1>5, <1>6, <1>7 DEF SignallingIInv, NoCandidateStranded, serverVars

LEMMA StartCandidateOK ==
    ASSUME SignallingIInv, NEW s \in Sessions, NEW c \in BotCandidates, StartCandidate(s, c)
    PROVE  SignallingIInv'
<1>1. CASE writing = {}
  <2>1. /\ botGathered' = [botGathered EXCEPT ![s] = @ \cup {c}] /\ UNCHANGED stage
        /\ writing' = {[session |-> s, candidate |-> c]}
        /\ UNCHANGED <<toServer, toClient, serverVars, up, connects, peer, offerOf,
                       signaling, answeredBy, botPending, botAdded>>
    BY <1>1 DEF StartCandidate, StartWrite, busVars
  <2>2. writing' \subseteq Writers
    BY <2>1 DEF Writers
  <2>3. BotOK' /\ BusOK' /\ PeersAreMade'
    BY <2>1, <2>2 DEF SignallingIInv, BotOK, BusOK, PeersAreMade, Made
  <2>4. JoinsComeOnce'
    BY <2>1 DEF SignallingIInv, JoinsComeOnce, JoinAt, serverVars
  <2> QED BY <2>1, <2>3, <2>4, BotStepOK DEF SignallingIInv, NoCandidateStranded
<1>2. CASE writing # {}
  BY <1>2, BotEndsOK DEF StartCandidate, StartWrite
<1> QED BY <1>1, <1>2

LEMMA SendCandidateOK ==
    ASSUME SignallingIInv, NEW s \in Sessions, NEW c \in BotCandidates, SendCandidate(s, c)
    PROVE  SignallingIInv'
<1> DEFINE m == Message("iceCandidate", s, <<s, c>>)
<1>1. /\ writing' = writing \ {[session |-> s, candidate |-> c]} /\ ToServer(m)
      /\ UNCHANGED <<toClient, serverVars, up, connects, stage, peer, offerOf,
                     signaling, answeredBy, botPending, botAdded, botGathered>>
  BY DEF SendCandidate
<1>2. m \in ServerMessages /\ m.method # "join"
  BY DEF Message, ServerMessages, BotCandidate
<1> HIDE DEF m
<1>3. BusOK'
  BY <1>1, <1>2, ToServerOK DEF SignallingIInv, BusOK
<1>4. JoinsCounted'
  <2>1. UNCHANGED begun /\ connects' \in 0 .. MaxSessions
    BY <1>1 DEF serverVars, SignallingIInv, JoinsCounted
  <2> QED BY <1>1, <1>2, <2>1, PublishKeepsCount DEF SignallingIInv
<1>5. JoinsComeOnce'
  BY <1>1 DEF SignallingIInv, JoinsComeOnce, JoinAt, serverVars
<1>6. BotOK' /\ ServerOK' /\ PeersAreMade'
  BY <1>1 DEF SignallingIInv, BotOK, ServerOK, PeersAreMade, Made, serverVars
<1> QED BY <1>1, <1>3, <1>4, <1>5, <1>6 DEF SignallingIInv, NoCandidateStranded, serverVars

-----------------------------------------------------------------------------
(* The theorems.                                                           *)

LEMMA SignallingInitIInv == SignallingInit => SignallingIInv
<1> SUFFICES ASSUME SignallingInit
             PROVE  SignallingIInv
  OBVIOUS
<1>1. BusOK /\ ServerOK
  <2>1. <<>> \in Seq(ServerMessages) /\ <<>> \in Seq(ClientMessages) /\ <<>> \in Seq(BotCandidate)
    OBVIOUS
  <2> QED BY <2>1 DEF SignallingInit, BusOK, ServerOK
<1>2. BotOK
  <2>1. <<>> \in Seq(Candidate)
    OBVIOUS
  <2> QED BY <2>1 DEF SignallingInit, BotOK, Stages
<1>3. JoinsCounted
  <2> DEFINE joins == [i \in 0 .. 0 |-> 0]
  <2>1. Len(toServer) = 0 /\ connects = 0 /\ begun = 0 /\ connects \in 0 .. MaxSessions
    BY SignallingAssumption DEF SignallingInit
  <2>2. joins \in [0 .. 0 -> 0 .. 0] /\ joins[0] = 0
    OBVIOUS
  <2> HIDE DEF joins
  <2>3. Counts(joins)
    BY <2>1, <2>2 DEF Counts
  <2> QED BY <2>1, <2>3 DEF JoinsCounted
<1>4. JoinsComeOnce /\ PeersAreMade /\ NoCandidateStranded
  BY DEF SignallingInit, JoinsComeOnce, JoinAt, PeersAreMade, NoCandidateStranded
<1> QED BY <1>1, <1>2, <1>3, <1>4 DEF SignallingIInv

LEMMA SignallingNextIInv == SignallingIInv /\ [Next]_vars => SignallingIInv'
<1> SUFFICES ASSUME SignallingIInv, [Next]_vars
             PROVE  SignallingIInv'
  OBVIOUS
<1>1. CASE Connect
  BY <1>1, ConnectOK
<1>2. CASE BotIsStopped
  BY <1>2, BotEndsOK DEF BotIsStopped
<1>3. CASE RouterStep
  BY <1>3, StartSessionOK, CloseSessionOK, AddICECandidateOK, HandleOfferOK, RefuseOfferOK,
     PublishAnswerOK DEF RouterStep
<1>4. CASE ReadRPC
  BY <1>4, ReadJoinOK, ReadICECandidateOK, SetRemoteDescriptionOK, BotEndsOK
     DEF ReadRPC, ReadTooEarly, AnswerIsRefused
<1>5. ASSUME NEW s \in Sessions, Create(s) \/ CreateFails(s)
      PROVE  SignallingIInv'
  BY <1>5, NewPeerConnectionOK, SetLocalDescriptionOK, StartOfferOK, SendOfferOK, CreateFailsOK
     DEF Create
<1>6. ASSUME NEW s \in Sessions, NEW c \in Candidates, SendICECandidate(s, c)
      PROVE  SignallingIInv'
  BY <1>6, SendICECandidateOK
<1>7. ASSUME NEW s \in Sessions, NEW c \in BotCandidates,
             StartCandidate(s, c) \/ SendCandidate(s, c)
      PROVE  SignallingIInv'
  BY <1>7, StartCandidateOK, SendCandidateOK
<1>8. CASE UNCHANGED vars
  <2>1. UNCHANGED <<toServer, toClient, serverVars, botVars>>
    BY <1>8 DEF vars, busVars
  <2>2. JoinsCounted' /\ BusOK' /\ ServerOK'
    BY <2>1, CountUntouched DEF SignallingIInv, BusOK, ServerOK, serverVars, botVars
  <2>3. JoinsComeOnce'
    BY <2>1 DEF SignallingIInv, JoinsComeOnce, JoinAt, serverVars, botVars
  <2> QED BY <2>1, <2>2, <2>3, ServerStepOK
          DEF SignallingIInv, NoCandidateStranded, serverVars
<1> QED BY <1>1, <1>2, <1>3, <1>4, <1>5, <1>6, <1>7, <1>8 DEF Next

LEMMA SignallingIInvHolds == SignallingSpec => []SignallingIInv
<1>1. SignallingInit => SignallingIInv
  BY SignallingInitIInv
<1>2. SignallingIInv /\ [Next]_vars => SignallingIInv'
  BY SignallingNextIInv
<1> QED BY <1>1, <1>2, PTL DEF SignallingSpec

\* What bot, bus and server hold, of however many connections of the user, is
\* what the code declares, and there is a session for each connection at most.
THEOREM SignallingTypes == SignallingSpec => []SignallingTypeOK
<1>1. SignallingIInv => SignallingTypeOK
  <2> SUFFICES ASSUME SignallingIInv
               PROVE  SignallingTypeOK
    OBVIOUS
  <2>1. connects \in 0 .. MaxSessions /\ begun \in 0 .. MaxSessions
    <3>1. PICK joins : Counts(joins)
      BY DEF SignallingIInv, JoinsCounted
    <3>2. begun \in 0 .. connects
      <4>1. Len(toServer) \in Nat
        BY DEF SignallingIInv, BusOK
      <4> QED BY <3>1, <4>1 DEF Counts
    <3> QED BY <3>2, SignallingAssumption DEF SignallingIInv, JoinsCounted
  <2> QED BY <2>1 DEF SignallingIInv, ServerOK, BotOK, Stages, SignallingTypeOK
<1> QED BY <1>1, SignallingIInvHolds, PTL

\* AddICECandidate of transport.go and of bot.go queue a candidate only until
\* there is a remote description, and the loop that empties the queue leaves
\* nothing, or a candidate that pion refused: whatever the order in which
\* offers, answers and candidates of any number of connections arrive.
THEOREM NobodyIsStranded == SignallingSpec => []NoCandidateStranded
<1>1. SignallingIInv => NoCandidateStranded
  BY DEF SignallingIInv
<1> QED BY <1>1, SignallingIInvHolds, PTL
====
