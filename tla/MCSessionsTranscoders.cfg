\* One user joins twice and the first connection fails; no fault.
SPECIFICATION SessionsSpec
CONSTANTS
    PortStart = 4000
    PortEnd = 4002
    MaxParticipants = 2
    Users = {u1}
    NoUser = NoUser
    NoRow = NoRow
    Codecs = {vp8}
    Tracks = {}
    TrackName <- OwnIds
    TrackPayload <- OneCodec
    Faults = {}
INVARIANT
    JoinedHaveTranscoders
CHECK_DEADLOCK FALSE
