\* Two users, three participants, two ports: joins, rejoins, closes and failures
\* of connections interleave; publishing may fail and the process may be killed.
SPECIFICATION SessionsSpec
CONSTANTS
    PortStart = 4000
    PortEnd = 4002
    MaxParticipants = 3
    Users = {u1, u2}
    NoUser = NoUser
    NoRow = NoRow
    Codecs = {vp8}
    Tracks = {}
    TrackName <- OwnIds
    TrackPayload <- OneCodec
    Faults = {"sink", "nats", "kill"}
SYMMETRY UserSymmetry
INVARIANTS
    SessionsTypeOK
    RoomsHaveParticipants
    OnlyReplacedParticipantsStray
    RoomsAreOnline
    BroadcastsHaveRooms
    MutexHoldersAreClosing
PROPERTY
    ImplementsPortLease
CHECK_DEADLOCK FALSE
