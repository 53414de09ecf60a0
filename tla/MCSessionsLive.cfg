\* Liveness and RTP: one user, one port, every fault; two tracks that share an id
\* and two with ids of their own, one of them with a foreign payload type.
SPECIFICATION FairSessionsSpec
CONSTANTS
    PortStart = 4000
    PortEnd = 4001
    MaxParticipants = 1
    Users = {u1}
    NoUser = NoUser
    NoRow = NoRow
    Codecs = {96}
    Tracks = {"high", "low", "ours", "theirs"}
    TrackName <- SharedId
    TrackPayload <- ChosenByClients
    Faults = {"sink", "nats", "db", "kill"}
INVARIANT
    RtpGoesToOwnPorts
PROPERTIES
    HandlersReturn
    FailedAreClosed
    ClosedBecomeSilent
CHECK_DEADLOCK FALSE
