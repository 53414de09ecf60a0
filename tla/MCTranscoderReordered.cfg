\* One start and one stop, one daemon, no fault.
SPECIFICATION OrderlySpec
CONSTANTS
    Users = {u1}
    Daemons = {d1}
    NoUser = NoUser
    NoDaemon = NoDaemon
    MaxMessages = 2
    MaxPids = 2
    DaemonFaults = {}
INVARIANTS
    StoppedStayStopped
CHECK_DEADLOCK FALSE
