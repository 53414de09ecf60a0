\* Two participants, of one user or of two, in turn on one port: a start and a stop
\* of the first, or a start of each, on two daemons, across crashes of SFU and
\* daemons.
SPECIFICATION PipelineSpec
CONSTANTS
    PortStart = 4000
    PortEnd = 4001
    MaxParticipants = 2
    Users = {u1, u2}
    NoUser = NoUser
    EnabledCodecs <- OnlyVP8
    Codecs = {96}
    Tracks = {}
    TrackName <- NoTracks
    TrackPayload <- NoTracks
    Faults = {}
    Daemons = {d1, d2}
    NoDaemon = NoDaemon
    MaxMessages = 2
    MaxPids = 2
    DaemonFaults = {"fs", "lost", "exit", "kill"}
SYMMETRY Symmetry
INVARIANTS
    PipelineTypeOK
    PortsExclusive
    PortsAccounted
    PayloadTypesAreCodecs
    LeftoversAreStopping
CHECK_DEADLOCK FALSE
