------------------------------ MODULE PortLease ------------------------------
(***************************************************************************)
(* What the allocator of UDP ports promises the participants: a port is    *)
(* leased to at most one participant, it is leased only when free, it      *)
(* becomes free only when its holder gives it up, and only the end of the  *)
(* process takes leases away.  Nothing here says how a participant knows   *)
(* its ports or when it gives them up.                                     *)
(***************************************************************************)
EXTENDS Integers

CONSTANTS Holders,     \* who may hold a lease
          Resources    \* what is leased

VARIABLES free,        \* the resources that nobody holds
          leases       \* pairs of a holder and a resource

leaseVars == <<free, leases>>

LeaseInit == free = Resources /\ leases = {}

Acquire(h, r) ==
    /\ r \in free
    /\ free' = free \ {r}
    /\ leases' = leases \cup {<<h, r>>}

Release(h, r) ==
    /\ <<h, r>> \in leases
    /\ free' = free \cup {r}
    /\ leases' = leases \ {<<h, r>>}

\* The process ends: everything is free for the next one.
Reset == free' = Resources /\ leases' = {}

LeaseNext ==
    \/ \E h \in Holders, r \in Resources : Acquire(h, r) \/ Release(h, r)
    \/ Reset

LeaseSpec == LeaseInit /\ [][LeaseNext]_leaseVars
=============================================================================
