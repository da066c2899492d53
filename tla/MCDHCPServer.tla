---------------------------- MODULE MCDHCPServer ----------------------------
(* Parts of the DHCP service that are checked on their own, and the        *)
(* instances they are checked on.                                          *)
EXTENDS DHCPServer, TLC

MCAddresses == PoolRange

MCCanonicalId == [c \in Clients |-> c]

Symmetry == Permutations(Clients)

\* The service without the control API.
NextWithoutApi ==
    \/ ClientStep
    \/ ServerStep
    \/ Crash
    \/ Boot
    \/ ClockTick

SpecWithoutApi == Init /\ [][NextWithoutApi]_vars
=============================================================================
