# Livelook SFU in TLA+

These modules specify Livelook: the process that accepts WebRTC publishers,
hands their RTP to transcoders over UDP and keeps the table of sessions; the
daemons that run the transcoders; the signalling between a client and the
server; the start and the end of the server; its HTTP API with the users, the
listing of streams and the upload of pictures. They are
read next to `src/internal` and `src/cmd`. TLC checks small instances of them;
TLAPS proves the safety properties, for instances of any size.

## 1. Inventory

### Components

| Component | State it keeps | Operations | Talks to |
|---|---|---|---|
| Ports allocator (`rtc/ports_allocator.go`) | map port → in use, one mutex | Allocate, Deallocate | every participant of the process |
| Participant (`rtc/participant.go`, `rtc/mediatrack.go`) | ports per payload type, published tracks, the peer connection, a mutex | NewParticipant, HandleOffer, AddICECandidate, onMediaTrack, handlePrimaryStateChange, Close | allocator, pion (callbacks), transcoder (UDP, NATS), client (Redis) |
| Room (`rtc/room.go`) | map user → participant, in practice one entry | Join, HandleOffer, AddICECandidate, PublishStream, StopStream, Close | participant |
| Sessions manager (`service/sessions_manager.go`) | map user → room | StartSession, HandleOffer, AddICECandidate, CloseSession, PublishStream, StopStream, Subscribe, Unsubscribe | room, sessions table, client (Redis) |
| Sessions repository (`core/sessions_repository.go`) | one row per user | Save, SetOnline, SetOffline, StartPublish, StopPublish, GetAll, FindByUserID | PostgreSQL |
| RPC router (`eventbus/router.go`) | the subscription, stop and stopped channels | Start, Stop, the dispatch loop | Redis, sessions manager |
| Transport (`rtc/transport.go`) | peer connection, pending ICE candidates, a mutex | AddICECandidate, SetRemoteDescription, Close | pion |
| Media engine (`rtc/mediaengine.go`) | package variable of enabled codecs | createMediaEngine | pion |
| Transcode daemon (`transcode/daemon.go`) | map user → pid, one directory per user | handleStart…, handleStop… | NATS, ffmpeg, file system |
| Event bus (`eventbus/eventbus.go`, `eventbus/rpc`) | none | PublishClient/Server, SubscribeClient/Server | Redis |
| Websocket server (`ws`) | one connection per client | reader and writer pumps | event bus |
| Bot (`bot`) | a client's peer connection, pending candidates | Start, readRPC, createPeerConnection | websocket |
| Images (`core/*image*.go`, upload handlers of `api`) | files, the file name in the row of a session | the two uploads | PostgreSQL, file system |
| Server main (`cmd/server`) | the links, the channels quit and done | start and shutdown | all of the server |
| HTTP API (`api`) | one goroutine per request | the middleware, the routes of `App.Router` | authentication service (gRPC), tables, files |
| Users (`core/user*.go`) | one row per uid | Save, Find, FindByUID, AuthAdminUser | PostgreSQL |
| Configuration, telemetry, web client | enabled codecs, range of ports; counters; pages | start-up | – |

### How they interact

The websocket server publishes what clients send on one Redis channel. The
router of the SFU reads it in **one goroutine** and calls one handler of the
sessions manager at a time. A join saves the user's row, makes a room if there
is none, builds a participant (which allocates a UDP port for each enabled
codec and publishes `start_transcoder` on NATS), puts it in the room and
publishes a join to the client. A close closes the participant (its tracks, its
ports, its peer connection, `stop_transcoder`), writes the row and deletes the
room. pion calls the participant back in goroutines of its own: one for each
connection state, one for each remote track. Transcode daemons take the NATS
messages and run one ffmpeg per user on the ports named by the SDP. HTTP
requests, in goroutines of their own, ask the authentication service who is
there and then read and write the same tables as the manager does.

### What is hard

* **Close from two sides.** The router closes a participant on request, the
  callback closes it when its connection fails. Both may run, in either order,
  while other participants allocate the ports being freed.
* **Reads without the mutex.** `onMediaTrack` reads `allocatedPorts` unlocked and
  registers the track later, so it works with what was true before a Close.
* **Joining again.** A join of a user who is in a room replaces the participant
  there. The old one lives until its connection fails.
* **Messages that name users, not participants.** A late stop of an old
  participant meets the transcoder of its successor.
* **A goroutine per message.** The daemons handle two messages of one user at once,
  in any order; a start takes its time to record its pid, a stop lets go of the table
  between reading the pid and deleting it, and the system gives pids again.
* **Numbers that the client chooses.** The ports are kept by the payload types of the
  server and looked up by the one in the client's offer.
* **Memory and table.** Some errors of the table are logged and ignored, some
  abort the handler half way; a process that dies leaves its rows.
* **Ports before the stop.** Close frees the ports before it publishes the stop, so
  an ffmpeg may still listen on a port that has a new owner.
* **A package variable.** The codecs are worked out once for the process, by
  whichever participant is first.
* **Statements, not transactions.** Registrations of one uid overlap; the listing
  counts and reads in two statements; an upload writes a row and then a file.
* **Order on the wire.** Candidates are sent by goroutines of their own and may
  overtake offer and answer; what is left over from an earlier connection of the
  user reaches the next one.
* **Shutdown.** net/http runs the registered function while requests, the router
  and its handlers are still going.
* **Panics.** Nothing recovers: a nil participant, a nil connection or a nil map
  ends the process with everybody's sessions.

`PROJECT.json` lists each hazard with its line and the properties that cover it.

### What makes each component correct

* Allocator and participants: a port has at most one owner, is never lost while
  the process runs, and is freed only by its owner.
* Participant: RTP goes only to its own ports, and reaches a transcoder; a closed
  participant falls silent; a failed one is closed.
* Rooms and manager: every room has its user's participant; every open
  participant is in its room; handlers return.
* Table: users with a room are online; a broadcast has a room.
* Daemon: a stop ends the transcoder of its user, and no other; the table never loses
  a transcoder that runs; one transcoder per user, on the ports of its own SDP.
* Signalling: no candidate is left in a queue, a client that stays is answered.
* Router and server: whatever the channel holds is handled; the links outlive the
  handlers; a signal ends the process.
* Media engine: each enabled codec is listed once, for every participant.
* Images: a path belongs to one id; a row leads to a file.
* API: a uid has one id; a page is as full as the number of pages says; a request
  is answered.

## 2. Modules

Five families: `Participant` with `Sessions` on one side and with `MediaEngine`, as
`Media`, on the other (the SFU); `Transcoder` (the daemons by themselves), which
`Pipeline` puts behind `Media`; `Router` and `Server` (the process); `Signalling` (client
and server together, without media); `Images` and `Api` (HTTP, over the tables).

| Module | Stands for | Built on |
|---|---|---|
| `Clients` | the users that SFU and daemons both speak of | – |
| `PortsAllocator` | the map of ports and its two operations, as operators on one variable | – |
| `Participant` | all participants of one process: construction, offer, callbacks, tracks, Close, panics, restart | `PortsAllocator`, `Clients` |
| `MediaEngine` | the codecs on offer, those enabled, the package variable that lists them | – |
| `Media` | the participants with the codecs of their media engine | `Participant`, `MediaEngine` |
| `Pipeline` | the participants and the daemons that receive what they publish | `Media`, `OrderlyTranscoder` |
| `PortLease` | *abstract:* what the allocator promises its users | – |
| `Sessions` | the router, the sessions manager, the rooms and the table, calling the participants | `Participant` |
| `Transcoder` | the daemons, their goroutines per message, the SDP file, ffmpeg and its pids | `Clients` |
| `OrderlyTranscoder` | the same, with the users whose messages have come in turn as a history | `Transcoder` |
| `TranscoderService` | *abstract:* one transcoder per user, to the users to whom that is promised | – |
| `Router` | the subscription, its channel, parsing, dispatch, Stop | – |
| `Server` | main: start-up, signal, shutdown, HTTP requests in progress | `Router` |
| `Signalling` | Join, offer, answer and candidates between the bot and a room of the server | – |
| `Images` | uploads of stream covers and profile pictures | – |
| `Api` | HTTP requests of every route: authentication, users, listing, uploads | `Images` |
| `MC…` | symmetry sets and constant functions for TLC | the module they name |
| `…Proofs` | theorems | the module they name, `TLAPS` |
| `ServiceProofs` | theorems: the daemons implement `TranscoderService` | `OrderlyTranscoder`, `TranscoderProofs` |

### Participant

State. `phase` is the life of a participant, from before `NewParticipant`
(*unborn*) over *building*, *open* and *closed* to *gone* when the process ends.
`allocatedPorts`, `publishedTracks` and `userOf` are the fields of the struct;
`udpPorts` is the allocator's map. `lock` says who holds the participant's mutex
inside `Close`, `toFree` what is left of the loop there. `pc` and `failedCb` are
the peer connection as pion shows it and the goroutine of its last state
callback. `track[p][t]` is the goroutine of one remote track, with the port it
looked up and the state of its UDP socket. `transcoder[u]` is the
participant for which the last message on NATS about the user asks a transcoder;
what the daemons make of the messages is in `Transcoder` and `Pipeline`.

Steps. Where another goroutine can run in between, one Go function is several
actions; what runs under the mutex and touches only the participant is one.

* `NewParticipant` is `NewParticipant`, one `AllocatePort` for each codec, and
  `AnnounceStart` (through `NewParticipantReturns`), or `NewParticipantErrs`, which
  publishes nothing, frees nothing and returns nil.
* `Close` is `CloseTracks` (by the router or by the callback), one `FreePort` for
  each port, and `CloseReturns`, which empties the maps, publishes the stop and
  unlocks. `ClosePeer` is the goroutine it leaves behind.
* `onMediaTrack` is `TrackArrives`, `LookUpPort` (unlocked), `RegisterTrack`;
  `ForwardRTP` is `DialTranscoder` and `ForwardingEnds`. The port is `PortFor`: the
  entry of the track's payload type (`TrackPayload`), which the client's offer has
  chosen, in a map that is keyed by the server's types (`Codecs`), or 0.
* `handlePrimaryStateChange` is `FailedCallback`. Other states only log.
* Panics are actions that end the process: the nil participant, the nil socket,
  the nil map, the receiver's transport that nobody sets.

A lock is taken and released in the code wherever a map of the participant is
read in `HandleOffer` or the like; these are single steps and no variable stands
for the mutex there.

### MediaEngine and Media

`enabledCodecParams` is the package variable: `RegisterCodecs` is `registerCodecs`, which
appends the enabled ones of the codecs on offer (`Listed`) for a kind that has none yet.
`IsCodecEnabled` compares mime and fmtp line with the configuration, where an empty
line stands for any. `CodecParams` is what `NewParticipant` loops over. `Media` conjoins
this to the actions of `Participant`: `Begin` makes the media engine, `Alone` is what a
participant does without a message to a transcoder, and `Ends` the end of the process,
with which the package variable is empty again.

### Sessions

`rooms`, `joined` (the participant in the room of a user) and `rows` (the table)
are the state of manager, rooms and repository. `router` says which handler runs
and how far it has come: the RPC router calls handlers in its one goroutine, so a
second one starts when the first has returned. A handler is cut where a
goroutine of a participant can make a difference: after the row has been saved,
around the construction of the participant, around `Join`, around each step of
`Close`, before the row is written. An error of the database or of publishing to
the client (`Faults`) takes the early return of the code. `SessionsLost` goes with
every step that ends the process: memory is gone, rows stay.

### Transcoder

Each message published is a number. `starter[m]` is the goroutine that handles a
start in the daemon that received it, `stopper[m][d]` that of a stop in daemon `d`.
`startTranscoder` is `WriteSdp`, `StartFfmpeg`, `RecordPid` (under the mutex) and
`WaitReturns`; `stopTranscoder` is `LookUpPid` (under the mutex), `KillProcess` and
`Forget` (under the mutex). A directory whose removal races with its creation
makes the start fail. ffmpeg opens the SDP when it gets to it (`OpenSdp`), so the
file may be another start's by then. The system gives a new process any pid that no
unreaped process of the host has (`FreePids`), one that the table still holds
included. NATS may lose a stop for some of the daemons; a daemon may be killed while
its ffmpeg processes run on. The sender never waits.

`OrderlyTranscoder` adds one history variable. `orderly` is the set of users of whose
messages no two have got in each other's way so far: each was published when those
before it had been handled (`InTurn`), a start after a stop (`StartInTurn`), a stop
reached all daemons (`StopInTurn`), and no daemon was killed that ran an ffmpeg of the
user. The history restrains nothing. It is how properties are stated that the code
keeps only to such users, while messages of all others overlap, are lost and reuse
pids. A user who is orderly no more stays so.

### Pipeline

`Pipeline` joins `Media` and `OrderlyTranscoder`. `Start` and `Stop` are the returns of
`NewParticipant` and `Close` that publish, and the publications that the daemons
receive; a rejoin, a Close by the callback and a Close by the router overlap as in
`Participant`, the goroutines of the daemons as in `Transcoder`. `Apart` is every other
step of the SFU, its end and next start included, which the daemons do not notice;
`DaemonStep` every step of the daemons. A message that the client of NATS has buffered
when the process ends is one that is never handled, which the model has anyway.
`origin[m]` says from which participant a start came and which ports its SDP has.
ffmpeg has bound the ports of the SDP it has opened (`Listens`), and it runs only if no
other process of the host has one of them (`BindsOwnPorts`); else it ends.

### Router and Server

`feed` is the Go channel of the subscription, which go-redis fills and which
drops a message when there is no room. `loop` and `current` are the goroutine of
`Router.Start`; `callbacks` the `on…` fields that are set. A step of the loop is one
statement of the select (`Receive`, `TakeStop`), the parsing (`Skip`) or the call of a
callback (`Dispatch`, `HandlerReturns`); what the callbacks do is `Sessions`. `main` is
the goroutine of main, from `Connect` to `MainReturns`; `hook` is the function given
to RegisterOnShutdown, one step for each service in `ShutdownOrder`; `shutdown` is
`server.Shutdown`, which waits for requests in another goroutine. A request makes
one statement on the database and answers.

### Signalling

The server side is one user's room: the participant in it (a number per join),
whose offer it has, `pendingCandidates` of its transport, and the answer that the
router is about to publish. The bot side is `bot.peerConnection`, the goroutine of
`createPeerConnection` for each Join (`stage`), the signaling state of each peer
connection, `bot.pendingCandidates`, and who is inside `WriteMessage`. The user
connects, ends (interrupted, refused, or by a panic) and connects again, while
messages of the connection before are still in `toServer`. The websocket handler is
commented out in the repository (`ws/handler.go`), so the bus between them is
external: it publishes what the bot writes, a join when the socket opens and a
close when it ends. A peer connection of the bot has the number of the join that
made it.

### Images and Api

An upload is a goroutine of net/http: the handler finds the row, `Save` writes it,
`Open` makes the directory and the file, `Copy` writes one chunk at the offset of the
request's own descriptor. An id is the sequence of its digits, the first of which is not
zero, so that `Partition` can be the loop of `idPartition` (`ScanStep` is one round of it); a picture is a sequence of chunks that name the request
that wrote them. The image of a profile has no row, and its id is the constant that
the stub of the storage returns. `SessionId(u)` is the id that the row of a user has or
will have when the first join makes it.

`Api` puts all requests in front of that. `request[i]` says where the goroutine of
request `i` is and what it knows there. The middleware is `Arrive` (the cookie of an
administrator, or a token, or neither), `Dial` (which blocks until the service is
there), `Verify` (which gives up after five seconds) and `FindByUID`. The route is chosen
when the middleware has let a request pass: `CreateUser` is `POST /users` with its
upsert, `BeginUpload`, `GoOnUploading` and `EndUpload` are the two uploads, `Reply` and
`RefuseLogin` the sign-in and the routes that only read. `GET /api/v1/streams` is
`CountRows` and `SelectPage`, the two statements of `GetAll`. `Join` is the row that the
manager saves for a user who is registered and joins; `authUp` is external. `idOf` is
the table of users, uid to id, with no other column.

## 3. Runs

| Run | Instance | Shows |
|---|---|---|
| `media_payloads` | 1 participant, 1 track offered as 98 to a server that has VP8 as 96 | **violation** of `TracksReachTranscoders` |
| `pipeline` | 2 participants of 1 or 2 users, 1 port, the codec of the default configuration, 2 daemons, 2 messages, 2 pids; panics of the SFU, every fault of the daemons | ports have one owner and are accounted for; codecs are listed once; an ffmpeg that listens on a port its participant has given back is about to be stopped, if its user is orderly |
| `sessions_rooms` | 2 users, 3 participants, 2 ports, publishing and process may fail | rooms, participants and rows agree; whoever holds a participant's mutex is inside its `Close`; each step of the allocator is one of the lease |
| `sessions_live` | 1 participant, 1 port, 4 tracks: 2 of one id, 1 of a payload type of the server, 1 of another; every fault, with fairness | handlers return; a failed participant is closed; a closed one falls silent; RTP goes to own ports or to port 0 |
| `sessions_transcoders` | 1 user who rejoins | **violation** of `JoinedHaveTranscoders` |
| `sessions_exhaustion` | 2 users, 2 codecs, 3 ports | **violation** of `ExhaustionIsAnError` |
| `transcoder_overlap` | 2 users, 1 daemon, 3 messages that overlap, 2 pids, every fault, with fairness | a stop hits others only through a pid given again; a single start is never forgotten; what a stop found ends; to orderly users the daemon implements `TranscoderService`, with its fairness, and their ffmpeg reads its own SDP |
| `transcoder_reordered` | 1 user, 2 messages | **violation** of `StoppedStayStopped` |
| `server` | channel of 2; a message to dispatch, one the switch ignores, a malformed one; 2 requests; with fairness | callbacks are set, links outlive handlers, messages are handled, a signal ends the process |
| `server_requests` | the same | **violation** of `RequestsAreAwaited` |
| `signalling` | 2 connections of the bot, a good and a refused candidate, 1 candidate of the server, with fairness | no candidate is stranded; a bot that stays is answered and candidates are exchanged |
| `api` | 2 requests of any route, 4 users with ids of 2, 10 and 11 digits, 3 uids of which 1 is new, 1 administrator, pages of 2, 2 extensions, 2 chunks; with fairness | a uid has one id; pages are as full as promised; paths spell ids; covers do not mix users; rows lead to files; past the dial requests are answered |

The runs of the daemons instantiate `OrderlyTranscoder`, of which `Transcoder` is a part.

### Bounds

`MaxParticipants` bounds how often `NewParticipant` is called in a behaviour and
`MaxMessages` how many messages are published; all else is finite by the choice of the
sets. `MaxPids` bounds the pids of a host: with two of them and three messages a pid is
given again while the table still has it; when no pid is free no process starts, as on a
host. In `pipeline` one port and two participants are enough for a freed port to get a
new owner while the old one is inside Close; three ports with two codecs
(`sessions_exhaustion`) are the least in which an allocation fails half way. Two
messages are a start and the stop that follows it, while the second participant has got
the port already, or the starts of two participants that had the port one after the
other, on one daemon or on two. With three messages the state space of `pipeline` is
beyond a run, and tracks make no difference to the daemons, so there are none.
`transcoder_overlap` has the three messages, and one daemon: two of them with three
messages are beyond a run with fairness. What two daemons add, a stop for both and a
start for either, is in `pipeline` with two messages, and the theorem
`DaemonsAreOneService` is for any number of daemons. Three participants of two users
give a rejoin while another user's session goes on. Three messages give a start, a stop
and one more of either kind, of either user, that races with both. One participant is
enough for `sessions_live`: what a handler waits for is the mutex of the one participant
it closes. A port that it gives back there has no new owner, and RTP to it is the
violation of `RtpGoesToOwnPorts` all the same; the theorem is for any number of
participants. Messages and requests of `server` come again and again, so its only bounds
are the sizes of sets and the channel. Two connections are the least in which something
is left over from an earlier one (`MaxSessions`). `MaxUploads` and `MaxSize` are two: a
file is disputed by two requests, and a longer picture meets a shorter one; the ids
differ in length and, two of them, in the tenth digit only. `PerPage` is 2 for the 50 of
the code, with three users who can have rows: a page may be empty, partly full or full,
and change from one to the other between the two statements. Two requests register one
uid, register two uids with one id, or write one row. Most faults that need one more
actor than that are instances of these, and the safety theorems below hold without
bounds. Behaviours end when the bound is reached, or when the process ends, so the runs
do not check for deadlock; that handlers do not wait for each other and that the
shutdown does not wait for ever are the liveness properties `HandlersReturn` and
`ShutdownEnds`.

Users and daemons are symmetric; symmetry is used in `sessions_rooms` and `pipeline`
only, which check no liveness.

### Fairness

Weak fairness, for goroutines that can run: the router inside a handler, the
callback that closes a failed participant, the goroutine that closes the peer
connection, the reader of a track whose connection is closed (`Read` returns an
error), the goroutines of the daemons; and for the system that reaps processes
and lets ffmpeg open its file. The Go scheduler and the kernel give that much.
In `server` the goroutines of main, of the registered function and of the router keep
running; the sending of the stop is **strongly** fair, because Go's select chooses at
random among the cases that are ready, so a stop that is offered at every pass
through the loop is taken although there is always another message. A handler
returns (`HandlersReturn`). Nothing makes HTTP requests answer there. In `api` the
goroutine of each request goes on, and its statements and copies end; nothing makes
the authentication service come back, so a request that waits for it in `Dial` is
excepted from `RequestsAreAnswered`. In `signalling` the
router, `readRPC`, each goroutine of `createPeerConnection` and each candidate that
pion has found make progress; a failure of `createPeerConnection` and the end of the
bot are always possible and never assumed.

Nothing is assumed of clients, of pion's failure detection, of messages arriving,
of ffmpeg ending, of restarts or of any fault.

`ImplementsService` includes the fairness of `TranscoderService`: a transcoder that
is no longer wanted ends. This holds for orderly users, and it follows from the
goroutines of the daemons alone; that the messages of a user come in turn is nowhere
assumed, for a user who is orderly no more is one to whom the promise has lapsed.
`transcoder_reordered` shows what such a user may meet.

### What the violations say

* **RTP goes to port 0.** The port of a track is looked up by the payload type of the
  client's offer in a map with the server's types as keys (`participant.go:259`). A
  client that offers VP8 as 98, as the example SDPs in the repository do, has its
  RTP sent to port 0 and not to the transcoder.
* **A rejoin loses its transcoder.** `Room.Join` replaces the participant without
  closing it. When its connection fails later, its Close publishes a stop that
  names the user (`participant.go:312`), and the transcoder of the new participant
  is stopped.
* **No free port ends the process.** `NewParticipant` returns nil and an error, and
  `StartSession` calls `Close` on the nil (`sessions_manager.go:101`).
* **A stop may overtake its start.** Messages are handled in goroutines of their
  own (`daemon.go:54,63`): the stop finds no pid, and ffmpeg is started afterwards.
* **Requests in progress are cut off.** main waits for `done`, which the registered
  function closes, and not for `Shutdown` (`main.go:225`): the process ends while
  `Shutdown` still waits its 20 seconds for active requests.

### What the properties leave out on purpose

Some things the models show are outside the properties, which say so in their
assumptions or their wording:

* `RtpGoesToOwnPorts` excepts tracks that share an id (`HasOwnId`). `publishedTracks` is keyed by
  the id, which the encodings of a simulcast track share (`participant.go:266`): Close
  reaches the last of them only, and the RTP of the others goes to a port that is
  free, or already another participant's, until the peer connection is closed.
  `ClosedBecomeSilent` shows, with such tracks too, that it ends then.
  RTP for which there is no port goes to port 0, which the
  property allows and `TracksReachTranscoders` does not.
* `StrayKillsHitReusedPids` allows what the code does: when ffmpeg ends by itself the
  table keeps its pid (`daemon.go:206`), and the next stop kills whatever has it by
  then. It says that this is the only way.
* `OnlyRacedAreUntracked` allows that a second start or a stop of the same user makes
  the table lose a running ffmpeg (`daemon.go:203,233`), and a restart of the daemon.
* `FfmpegReadsItsOwnSdp`, `KeepsToService` and `ImplementsService` are for orderly users.
  Two messages of one user that are handled at once may leave a transcoder that
  nothing stops, or one that reads the SDP of another start.
* `LiveBotsAreAnswered` and `CandidatesAreExchanged` are for a bot that gets one Join. A
  Join left over from the connection before makes a second goroutine that shares
  `bot.peerConnection` with the first, and then an answer may meet the wrong offer
  and the bot may stay without one. That a candidate or answer from before the Join
  panics (`bot.go:356`), and two writers of the websocket too (`bot.go:240`), are
  actions that end the bot.
* `LeftoversAreStopping` is for orderly users too. `Pipeline` assumes that publishing
  fails only with the process (`"nats"` is not among its faults): Close logs an error of
  Publish and goes on, and the stop never comes. The property excepts an SFU that has died:
  its stop never comes, the ffmpeg listens for ever and gets the RTP of whoever is
  given its port after a restart, or keeps the next ffmpeg from binding it. While the
  stop of a live process is on its way the same happens for that long; the property
  says that a goroutine is there that will end it, which `FoundAreReaped` and
  `ImplementsService` show that it does.
* A closed participant may stay in a room, and a row online without a room, when
  publishing or an UPDATE fails (`sessions_manager.go:109,155`); a row may show a
  broadcast for ever after a crash (`sessions_repository.go:105`). The models have
  these and the properties of `sessions_rooms` allow them.
* Panics that the code does not prevent end the process in the models too: a track
  registered after Close (`participant.go:266`), a track closed before it is dialled
  (`mediatrack.go:112`).
* `DeliveredAreHandled` is about messages that got into the channel; those for which
  there was no room in time are lost (`router.go:63`).
* A refused early candidate keeps its queue (`transport.go:135`): `NoCandidateStranded`
  and `LiveBotsAreAnswered` except it.
* `RequestsAreAnswered` excepts requests in `Dial`, which has no deadline
  (`auth_middleware.go:77`).
* Only registered users and administrators reach `POST /users`, for the middleware
  answers 401 when `FindByUID` finds no row; the listing always reads the first page.
  The model has both as they are, and no property is about them.

## 4. Proofs

The theorems hold for all values of the constants that the assumptions in the
modules allow (ports are positive numbers, model values for "none" are not
users or daemons); `Pipeline` assumes besides that publishing does not fail while the
process lives, and that ffmpeg may end. Each rests on an inductive invariant, initialised and
preserved step by step in the `…Proofs` modules, with one lemma per kind of step.

| Theorem | States | By way of |
|---|---|---|
| `ParticipantTypes` | types | inductive as it is |
| `PortsAreExclusive`, `PortsAreAccounted` | `PortsExclusive`, `PortsAccounted` | `PortsIInv` |
| `PortsAreLeases` | `ImplementsPortLease` | `PortsIInv`, and one lemma for each abstract step |
| `RtpStaysOnOwnPorts` | `RtpGoesToOwnPorts`, for tracks with an id of their own; any payload types | `RtpIInv` |
| `MediaImplementsParticipants` | a behaviour of `Media` is one of `Participant` | step simulation |
| `MediaTypes` | `MediaTypeOK` | the previous one, `CodecsOK` |
| `CodecsAreListedOnce` | `PayloadTypesAreCodecs`, whatever is enabled | `CodecsOK`: the package variable is empty or complete |
| `PipelineImplementsItsParts` | a behaviour of `Pipeline` is one of `Media` and one of `OrderlyTranscoder` | `PartsIInv` |
| `PipelineTypes` | `PipelineTypeOK` | `PartsIInv`, `OriginOK`, `MediaTypes` |
| `PipelineKeepsPorts` | `PortsExclusive` and `PortsAccounted`, with the daemons | `PartsIInv` |
| `LeftoversStop` | `LeftoversAreStopping` | `PartsIInv`, `OriginOK` |
| `SessionsImplementParticipants` | a behaviour of `Sessions` is one of `Participant` | `SessionsIInv` |
| `SessionsKeepPorts`, `SessionsKeepLeases` | the port theorems and `ImplementsPortLease` under `Sessions` | the previous one |
| `BroadcastsNeedRooms` | `BroadcastsHaveRooms`, if `"db"` is not among the faults | `SessionsIInv` with the property itself |
| `SessionsTypes`, `RoomsAreNeverEmpty`, `StrayParticipantsWereReplaced`, `UsersWithRoomsAreOnline` | the safety of `sessions_rooms`, for every set of faults | `SessionsIInv` |
| `ClosesNeverDeadlock` | `MutexHoldersAreClosing`, for every set of faults | `SessionsIInv` with the property itself |
| `TranscoderTypes` | types | with `PublishedOK`: messages have a user and a goroutine from the moment they are numbered |
| `StopsHitTheirUsers` | `StrayKillsHitReusedPids`, however pids are given out | `PidIInv` |
| `SingleStartsAreTracked` | `OnlyRacedAreUntracked` | `TrackedOrRaced` |
| `NobodyReadsAnotherSdp` | `FfmpegReadsItsOwnSdp`, with every fault | `ServiceIInv` |
| `DaemonsAreOneService` | `KeepsToService`, with every fault: any number of daemons take the steps of `TranscoderService` towards orderly users | `ServiceIInv`, and one lemma for each step |
| `ServerTypes` | types | `RouterTypeOK` under each step of the loop |
| `LinksOutliveHandlers`, `NoCallbackIsNil` | `HandlersHaveLinks`, `CallbacksAreSet` | `LinksInv` |
| `SignallingTypes` | `SignallingTypeOK` | `SignallingIInv` |
| `NobodyIsStranded` | `NoCandidateStranded` | `SignallingIInv` |
| `UidsHaveOneId` | `OneIdPerUid` | `IdIInv`: answers carry stored ids, and stored ids stay |
| `PagesKeepPromises` | `PagesAreNotOverpromised`, for any length of a page | `PageIInv`: rows only grow after they are counted |
| `ApiTypes` | `ApiTypeOK`, any number of requests and chunks | `ApiIInv` |
| `RowsPointToFiles` | `RowsLeadToFiles` | `ApiIInv` |
| `PathsAreOfIds` | `PathsSpellIds`, ids of any number of digits | `ApiIInv`, and `ScanInv` for the loop of `idPartition` |
| `CoversStayApart` | `CoversBelongToOneUser` | `ApiIInv`; different ids have different paths (`RowsHaveTheirOwnPaths`) |

Why the invariants need strengthening:

* `PortsIInv`. `PortsExclusive` talks of the ports a participant *answers for*: its
  map while nobody closes it, the rest of the loop while somebody does. Keeping
  that needs `PortsAccounted` (a port marked free is nobody's, so an allocation
  disturbs nobody) and `PortsLifecycle`: a participant that is not built yet,
  closed or gone has no ports, only a Close holds the mutex, and what its loop has
  yet to free comes from the map.
* `RtpIInv`. `onMediaTrack` holds a port it read without the mutex. That it is
  still the participant's when RTP flows follows from where the track is
  registered: Close closes the socket of every registered track before it frees a
  port and leaves a nil map, so a track that is not registered by then panics
  instead of forwarding. It breaks when a registration can be overwritten,
  which is why tracks that share an id are excepted.
* `PartsIInv` and `OriginOK`. The parts of the pipeline have invariants of their own, which
  hold there because it implements them. That a leftover has its stop coming relates
  them: a start comes from a participant of its user and has the ports which that one
  keeps until it closes, and once it is closed a stop of the user has been published
  after the start (`StopFollows`). For an orderly user `ServiceIInv` says that nothing
  later than a start may be about its user while its ffmpeg lives, but for the stop
  that is about to kill it.
* `ApiIInv`. That a file holds the pictures of one user is about requests that wrote it
  long ago: every chunk names a request that has opened this very file (`ChunksOK`), the
  path is that of the request's id (`ProgressOK`), and the id of a cover is that of the
  user's row, or none (`IdsOK`), with which nothing is opened. That a row leads to a file
  needs that its name is still that of the request which saved it (`SaversOK`).
* `SessionsIInv`. The rooms are right *between* handlers; inside one, `RouterOK` says
  which participant each step of each handler works on, and `CreationOK` that
  participants are made in order, so that one that replaced another is newer.
* `PidIInv`. That a stop goes astray only through a pid that was given again needs to
  know of each pid where it comes from, although the table has changed since it was
  read: a pid in the table, and one that a stop has found, is that of a start of the
  same user on the same daemon (`TableNamesUsers`, `StopsNameUsers`, both by way of
  `RanFor`), and of the processes of a host that are not reaped no two have one pid
  (`PidsOK`). So if the process hit is another user's, the start that had the pid before
  has been reaped.
* `LinksInv`. That the links are open while the router works depends on how far two
  other goroutines have come: `Started` says what main has made by each step of
  start-up (the router runs only after the links are open and the callbacks set),
  `Stopping` that the registered function has passed the router only when the
  router's loop has ended, and closes a link only after that.
* `BroadcastsHaveRooms` is preserved only together with `SessionsIInv`: a row and its room
  are written in different steps of a handler, and `RouterOK` says which user the handler
  is about. It says nothing once the process has died with a participant in it, so
  the end of a process that leaves a broadcasting row must be shown to be such an end:
  a room has a participant or is being built one (`CrashesAreSeen`), and those stay
  "gone" (`GoneIsForGood`).
* `ServiceIInv`. That a new ffmpeg finds nothing of an earlier one is about all goroutines
  at once. Of the messages about an orderly user only the last may still be in
  hand (`OneIsHandled`), and an ffmpeg of that user which lives is `Kept`: its pid is in
  the table, the file of its user is its own, and nothing about its user was published
  later but a stop that is about to kill it. Messages of other users may do what they
  like in between: they touch neither the entry nor the file of this user. Their stops
  may hit its ffmpeg by a pid given again, which the service takes for a transcoder
  that failed; and since of the processes of a host that are not reaped no two have
  one pid, the stop of the user itself hits what it should.
* `SignallingIInv`. A step that stores a candidate does it because something is still
  missing on that side, and a step that provides what was missing flushes the queue or
  fails on a candidate that pion refuses; so `NoCandidateStranded` is preserved once it is
  known which sessions have a peer connection. That is the rest of the invariant: the
  Join of a session comes once (`JoinsComeOnce`), although messages of earlier connections
  are still on their way; a peer connection the bot uses has been made and a new one
  has no answer (`PeersAreMade`); and sessions do not run out, for there is one for each
  connection: `JoinsCounted` counts the joins that wait in the queue.
* `ScanInv` and `ListOK` are invariants of loops, over the characters of an id and over the
  codecs on offer. The parts made so far are full and spell the string up to where
  `acc` begins, and once `tailLen` is less than a part, `acc` is empty, so the break
  leaves nothing out. What is listed of the first codecs is a sequence of their payload types
  without repetition.

Induction. The loops are recursive functions, and that these exist, and satisfy their
invariants at every length, is proved by induction on the number of rounds. The
library's induction theorems are about predicates, which the provers cannot
instantiate; `SetInduction` is about membership in a set instead, and follows from the
well-foundedness of the natural numbers (`WFMin`). That no id begins with a zero
(`ImagesAssumption`) is needed for padding: `%09d` writes 42 and 042 alike.

Only model-checked: liveness (`HandlersReturn`, `FailedAreClosed`, `ClosedBecomeSilent`,
`FoundAreReaped`, `ShutdownEnds`, `DeliveredAreHandled`, `LiveBotsAreAnswered`,
`CandidatesAreExchanged`, `RequestsAreAnswered`, and the fairness in `ImplementsService`), since
the prover handles neither fairness nor ENABLED.
The safety that `HandlersReturn` and `FailedAreClosed` rest on is proved
(`ClosesNeverDeadlock`): the goroutine that holds a participant's mutex is inside
`Close` of that participant, where only the allocator's mutex, a leaf, is taken, so
whoever waits waits for a goroutine that can run. That it does run, and that the loop
over the ports ends, is the part with fairness.

## 5. Not modelled

* The data channel of a participant, the ticker that asks for key frames, the
  candidates sent to the client: they change nothing the model has.
* Receivers, the subscriber transport and `streamallocator.go`: nothing makes a
  receiver. That a candidate for one panics is an action of `Participant`.
* The contents of RTP, SDP and RPC messages.
* Header extensions and interceptors of the media engine, which go to pion as they
  are.
* Names, roles and passwords of users, the rendering of pages, the logger.
* `Daemon.Stop` is reached only if a subscription fails at the start.
* The websocket pumps (`ws`), whose handler is commented out; signing in of the bot
  and the loop that sends its video.
* Telemetry, the web client and most of the configuration: counters, pages and
  addresses. What is enabled and the range of ports are constants.
* That a slow handler of the router delays all users: time is not modelled.

## 6. Plan

In this order:

1. `Signalling` of two users, and of a second Join; the abstract specification of a
   negotiation (offered, answered, connected) that a bot with one Join implements.
2. The start and the end of the websocket server (`ws/app.go`), if its handler comes
   back.
3. Proof that a failed participant with its callback done is closed, the safety that
   `FailedAreClosed` rests on; `ClosesNeverDeadlock` is the other half.
4. `Pipeline` with three messages, once its state space can be cut down, so that a run
   shows the stop of one participant beside the start of the next.
