\* Start, traffic without end, signals and shutdown.
SPECIFICATION FairServerSpec
CONSTANTS
    good = good
    odd = odd
    bad = bad
    Messages = {good, odd, bad}
    NoMessage = NoMessage
    KindOf <- MCKindOf
    ChannelSize = 2
    Requests = {r1, r2}
INVARIANTS
    ServerTypeOK
    CallbacksAreSet
    HandlersHaveLinks
PROPERTIES
    ShutdownEnds
    DeliveredAreHandled
CHECK_DEADLOCK FALSE
