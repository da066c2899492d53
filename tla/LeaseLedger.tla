----------------------------- MODULE LeaseLedger -----------------------------
(***************************************************************************)
(* What a DHCP service owes its network, seen from the clients: an address *)
(* that a client may be using is not granted to anybody else until its     *)
(* lease has run out or the client has given it up.  There is no server    *)
(* here, only the leases the clients hold and the time.                    *)
(***************************************************************************)
EXTENDS Integers

CONSTANTS
    Holders,  \* clients
    Grounds,  \* addresses
    MaxTerm,  \* the longest lease
    None      \* a client without a lease

VARIABLES
    leased,   \* the lease each client may use
    clock

ledgerVars == <<leased, clock>>

Outdated(l, t) == l # None /\ l.end <= t

Init ==
    /\ leased = [c \in Holders |-> None]
    /\ clock = 0

\* A client is granted an address that no other client holds.  A renewal is a
\* grant of the same address.
Grant(c) ==
    /\ \E a \in Grounds, term \in 1..MaxTerm :
          /\ \A d \in Holders \ {c} : leased[d] # None => leased[d].ip # a
          /\ leased' = [leased EXCEPT ![c] =
                         [client |-> c, ip |-> a, end |-> clock + term]]
    /\ UNCHANGED clock

GiveUp(c) ==
    /\ leased' = [leased EXCEPT ![c] = None]
    /\ UNCHANGED clock

\* Leases run out by themselves.
TimePasses ==
    /\ clock' = clock + 1
    /\ leased' = [c \in Holders |->
                   IF Outdated(leased[c], clock') THEN None ELSE leased[c]]

Next ==
    \/ \E c \in Holders : Grant(c) \/ GiveUp(c)
    \/ TimePasses

Spec == Init /\ [][Next]_ledgerVars

\* No address has two holders.
Exclusive ==
    \A c, d \in Holders :
        c # d /\ leased[c] # None /\ leased[d] # None
            => leased[c].ip # leased[d].ip
=============================================================================
