\* A client that offers VP8 as 98, to a server that has it as 96.
SPECIFICATION MediaSpec
CONSTANTS
    PortStart = 4000
    PortEnd = 4001
    MaxParticipants = 1
    Users = {u1}
    NoUser = NoUser
    EnabledCodecs <- OnlyVP8
    Codecs = {96}
    Tracks = {"theirs"}
    TrackName <- OwnIds
    TrackPayload <- ChosenByClients
    Faults = {}
INVARIANT
    TracksReachTranscoders
CHECK_DEADLOCK FALSE
