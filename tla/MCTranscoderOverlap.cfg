\* Messages about two users overlap on one daemon, with every fault.
SPECIFICATION FairOrderlySpec
CONSTANTS
    Users = {u1, u2}
    Daemons = {d1}
    NoUser = NoUser
    NoDaemon = NoDaemon
    MaxMessages = 3
    MaxPids = 2
    DaemonFaults = {"fs", "lost", "exit", "kill"}
INVARIANTS
    TranscoderTypeOK
    OnlyRacedAreUntracked
    FfmpegReadsItsOwnSdp
PROPERTIES
    StrayKillsHitReusedPids
    FoundAreReaped
    KeepsToService
    ImplementsService
CHECK_DEADLOCK FALSE
