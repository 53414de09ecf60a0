--------------------------- MODULE PortsAllocator ---------------------------
(***************************************************************************)
(* The allocator of UDP ports for transcoders, internal/rtc/               *)
(* ports_allocator.go: a map from every port of a half-open range to a     *)
(* flag, shared by all participants of the process.  Allocate and          *)
(* Deallocate each hold the allocator's mutex for their whole body, so     *)
(* each is one step.                                                       *)
(***************************************************************************)
EXTENDS Integers

CONSTANTS PortStart,   \* cfg.RTC.Transcoder.PortStart, the first port
          PortEnd      \* cfg.RTC.Transcoder.PortEnd, one past the last port

ASSUME PortRangeAssumption == PortStart \in Nat \ {0} /\ PortEnd \in Nat

VARIABLE udpPorts      \* [Ports -> BOOLEAN]: TRUE while the port is given out

Ports == PortStart .. (PortEnd - 1)

\* What reading a missing key of a Go map of ports yields: port 0.
NoPort == 0

\* A mutant: the range is taken as closed.
PortEndIncluded == [port \in PortStart .. PortEnd |-> FALSE]

NewPortsAllocator == [port \in Ports |-> FALSE]

AllocateUnchecked(port) == udpPorts' = [udpPorts EXCEPT ![port] = TRUE] \* a mutant

\* The loop visits the map in Go's random order: any free port may be found.
Allocate(port) ==
    /\ ~udpPorts[port]
    /\ udpPorts' = [udpPorts EXCEPT ![port] = TRUE]

\* The loop finds no free port and the call returns "no free ports".
Exhausted == \A port \in Ports : udpPorts[port]

DeallocateNothing(port) == UNCHANGED udpPorts                    \* a mutant

\* No check that the port was given out, nor to whom.
Deallocate(port) == udpPorts' = [udpPorts EXCEPT ![port] = FALSE]
=============================================================================
