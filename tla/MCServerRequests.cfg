\* Requests in progress when the signal comes.
SPECIFICATION ServerSpec
CONSTANTS
    good = good
    odd = odd
    bad = bad
    Messages = {good, odd, bad}
    NoMessage = NoMessage
    KindOf <- MCKindOf
    ChannelSize = 2
    Requests = {r1, r2}
INVARIANTS
    RequestsAreAwaited
CHECK_DEADLOCK FALSE
