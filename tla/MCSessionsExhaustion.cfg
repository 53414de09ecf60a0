\* Two users join and need two ports each, of three; no fault.
SPECIFICATION SessionsSpec
CONSTANTS
    PortStart = 4000
    PortEnd = 4003
    MaxParticipants = 2
    Users = {u1, u2}
    NoUser = NoUser
    NoRow = NoRow
    Codecs = {vp8, opus}
    Tracks = {}
    TrackName <- OwnIds
    TrackPayload <- OneCodec
    Faults = {}
PROPERTY
    ExhaustionIsAnError
CHECK_DEADLOCK FALSE
