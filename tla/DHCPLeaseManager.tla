-------------------------- MODULE DHCPLeaseManager --------------------------
(***************************************************************************)
(* dhcp/lease_manager.py on top of dhcp/pool.py.                           *)
(*                                                                         *)
(* A DHCPLeaseManager keeps one DHCPLease object per client under two      *)
(* dictionaries (_leases_by_client, _leases_by_ip) and marks its address   *)
(* in the pool.  Every public method holds the manager's lock from its     *)
(* first to its last access, so each one is an atomic action here, split   *)
(* into one action per outcome.                                            *)
(*                                                                         *)
(* A method reads the clock, and may remove expired leases, before it does *)
(* what its name says.  The operators on a manager state s describe those  *)
(* internal steps; the actions put them together.                          *)
(***************************************************************************)
EXTENDS DHCPPool

CONSTANTS
    Clients,    \* client identifiers
    NoLease,    \* the None of the two dictionaries
    LeaseTime,  \* lease duration the server asks for, in clock units
    MaxTime     \* bound of the model on the clock

ASSUME LeaseAssumption ==
    /\ LeaseTime \in Nat \ {0}
    /\ MaxTime \in Nat
    /\ NoLease \notin [client : Clients, ip : Addresses, end : Nat]

VARIABLES
    lm,        \* the manager: both dictionaries and the pool's _allocated
    excluded,  \* the pool's _reserved
    now        \* time.time()

lmVars == <<lm, excluded, now>>

Lease == [client : Clients, ip : Addresses, end : Nat]

ManagerState ==
    [byClient : [Clients -> Lease \cup {NoLease}],
     byIp : [Addresses -> Lease \cup {NoLease}],
     allocated : SUBSET Addresses]

NewLease(c, a, t) == [client |-> c, ip |-> a, end |-> t + LeaseTime]

Expired(l, t) == t >= l.end

-----------------------------------------------------------------------------
(* Internal steps of the methods, on a manager state s.                    *)

\* Faulty variant: the entry of the address index stays behind.
RemoveLeasesHalf(s, L) ==
    LET clients == {l.client : l \in L}
        ips     == {l.ip : l \in L}
    IN  [s EXCEPT !.byClient = [c \in Clients |->
                      IF c \in clients THEN NoLease ELSE s.byClient[c]],
                  !.allocated = s.allocated \ ips]

\* _remove_lease of every lease in L: both entries are popped by key and the
\* address goes back to the pool.
RemoveLeases(s, L) ==
    LET clients == {l.client : l \in L}
        ips     == {l.ip : l \in L}
    IN  [byClient  |-> [c \in Clients |->
                           IF c \in clients THEN NoLease ELSE s.byClient[c]],
         byIp      |-> [a \in Addresses |->
                           IF a \in ips THEN NoLease ELSE s.byIp[a]],
         allocated |-> s.allocated \ ips]

\* The clean-up at the head of get_by_client, get_by_ip and renew.
Swept(s, l, t) ==
    RemoveLeases(s, {x \in {l} \ {NoLease} : Expired(x, t)})

\* A new lease object enters both dictionaries, its address the pool.
WithLease(s, l) ==
    [byClient  |-> [s.byClient EXCEPT ![l.client] = l],
     byIp      |-> [s.byIp EXCEPT ![l.ip] = l],
     allocated |-> s.allocated \cup {l.ip}]

\* Faulty variant: the lease time is added to the end of the old lease.
RenewedFromEnd(s, c, t) ==
    LET l == s.byClient[c]
        r == [l EXCEPT !.end = l.end + LeaseTime]
    IN  [s EXCEPT !.byClient[c] = r, !.byIp[l.ip] = r]

\* Renewal mutates the lease object in place, so every dictionary entry that
\* is this object shows the new end.
Renewed(s, c, t) ==
    LET l == s.byClient[c]
        r == [l EXCEPT !.end = t + LeaseTime]
    IN  [s EXCEPT !.byClient[c] = r,
                  !.byIp = [a \in Addresses |->
                               IF s.byIp[a] = l THEN r ELSE s.byIp[a]]]

\* Faulty variant: whoever leases the requested address loses it.
PreparedByForce(s, c, a, t) ==
    RemoveLeases(s, {s.byClient[c], s.byIp[a]} \ {NoLease})

\* The state in which create_specific has cleaned up after the client and
\* after the requested address, and is about to ask the pool.
Prepared(s, c, a, t) ==
    LET s1 == Swept(s, s.byClient[c], t)
        s2 == RemoveLeases(s1, {s1.byClient[c]} \ {NoLease})
    IN  Swept(s2, s2.byIp[a], t)

\* Faulty variant: a lease counts as ended one unit early.
HasActiveEarly(s, c, t) ==
    s.byClient[c] # NoLease /\ ~Expired(s.byClient[c], t + 1)

HasActive(s, c, t) == s.byClient[c] # NoLease /\ ~Expired(s.byClient[c], t)

HoldsActive(s, c, a, t) == HasActive(s, c, t) /\ s.byClient[c].ip = a

\* Faulty variant: the address index and the pool are not asked.
GrantableUnchecked(s, a) == PoolContains(a) /\ a \notin excluded

Grantable(s, a) ==
    /\ s.byIp[a] = NoLease
    /\ CanAllocate(a, s.allocated, excluded)

-----------------------------------------------------------------------------
(* The public methods.                                                     *)

GetByClient(c) ==
    /\ lm' = Swept(lm, lm.byClient[c], now)
    /\ UNCHANGED <<excluded, now>>

GetByIp(a) ==
    /\ lm' = Swept(lm, lm.byIp[a], now)
    /\ UNCHANGED <<excluded, now>>

\* create: an active lease is returned as it is.
CreateReuses(c) ==
    /\ HasActive(lm, c, now)
    /\ UNCHANGED lmVars

\* create: the pool picks the address.
CreateAllocates(c) ==
    LET s == Swept(lm, lm.byClient[c], now) IN
    /\ ~HasActive(lm, c, now)
    /\ \E a \in PoolRange :
          /\ IsFirstFree(a, s.allocated, excluded)
          /\ lm' = WithLease(s, NewLease(c, a, now))
    /\ UNCHANGED <<excluded, now>>

\* create: DHCPPoolExhaustedError; an expired lease of the client is gone.
CreateExhausted(c) ==
    LET s == Swept(lm, lm.byClient[c], now) IN
    /\ ~HasActive(lm, c, now)
    /\ FreeAddresses(s.allocated, excluded) = {}
    /\ lm' = s
    /\ UNCHANGED <<excluded, now>>

\* create_specific for the address the client already holds.
CreateSpecificRenews(c, a) ==
    /\ HoldsActive(lm, c, a, now)
    /\ lm' = Renewed(lm, c, now)
    /\ UNCHANGED <<excluded, now>>

\* The same, but the lease ends between the clock reading of get_by_client
\* and the one of renew: DHCPLeaseNotFoundError.
CreateSpecificLapses(c, a) ==
    /\ HoldsActive(lm, c, a, now)
    /\ now < MaxTime
    /\ Expired(lm.byClient[c], now + 1)
    /\ now' = now + 1
    /\ lm' = RemoveLeases(lm, {lm.byClient[c]})
    /\ UNCHANGED excluded

CreateSpecificLeases(c, a) ==
    LET s == Prepared(lm, c, a, now) IN
    /\ ~HoldsActive(lm, c, a, now)
    /\ Grantable(s, a)
    /\ lm' = WithLease(s, NewLease(c, a, now))
    /\ UNCHANGED <<excluded, now>>

\* DHCPLeaseError (leased) or DHCPPoolError (outside, excluded, allocated):
\* what the client held before has been released all the same.
CreateSpecificRefused(c, a) ==
    LET s == Prepared(lm, c, a, now) IN
    /\ ~HoldsActive(lm, c, a, now)
    /\ ~Grantable(s, a)
    /\ lm' = s
    /\ UNCHANGED <<excluded, now>>

Renew(c) ==
    /\ HasActive(lm, c, now)
    /\ lm' = Renewed(lm, c, now)
    /\ UNCHANGED <<excluded, now>>

\* DHCPLeaseNotFoundError: no lease, or one that has ended and is removed.
RenewNotFound(c) ==
    /\ ~HasActive(lm, c, now)
    /\ lm' = Swept(lm, lm.byClient[c], now)
    /\ UNCHANGED <<excluded, now>>

Release(c) ==
    /\ lm' = RemoveLeases(lm, {lm.byClient[c]} \ {NoLease})
    /\ UNCHANGED <<excluded, now>>

AllLeases(s) == {s.byClient[c] : c \in Clients} \ {NoLease}

\* expire_leases, and the head of all_leases and active_count.
ExpireLeases ==
    /\ lm' = RemoveLeases(lm, {l \in AllLeases(lm) : Expired(l, now)})
    /\ UNCHANGED <<excluded, now>>

Clear ==
    /\ lm' = RemoveLeases(lm, AllLeases(lm))
    /\ UNCHANGED <<excluded, now>>

-----------------------------------------------------------------------------
(* Callers that reach the pool without the manager, and the clock.         *)

\* pool.reserve(a), from the control API and at start-up.
Exclude(a) ==
    /\ CanExclude(a, lm.allocated)
    /\ excluded' = excluded \cup {a}
    /\ UNCHANGED <<lm, now>>

\* pool.unreserve(a).
Unexclude(a) ==
    /\ excluded' = excluded \ {a}
    /\ UNCHANGED <<lm, now>>

Tick ==
    /\ now < MaxTime
    /\ now' = now + 1
    /\ UNCHANGED <<lm, excluded>>

-----------------------------------------------------------------------------

EmptyManager ==
    [byClient  |-> [c \in Clients |-> NoLease],
     byIp      |-> [a \in Addresses |-> NoLease],
     allocated |-> {}]

LMInit ==
    /\ lm = EmptyManager
    /\ excluded = {}
    /\ now = 0

ClientCall(c) ==
    \/ GetByClient(c)
    \/ CreateReuses(c)
    \/ CreateAllocates(c)
    \/ CreateExhausted(c)
    \/ Renew(c)
    \/ RenewNotFound(c)
    \/ Release(c)

AddressCall(c, a) ==
    \/ CreateSpecificRenews(c, a)
    \/ CreateSpecificLapses(c, a)
    \/ CreateSpecificLeases(c, a)
    \/ CreateSpecificRefused(c, a)

PoolCall(a) ==
    \/ GetByIp(a)
    \/ Exclude(a)
    \/ Unexclude(a)

LMNext ==
    \/ \E c \in Clients : ClientCall(c)
    \/ \E c \in Clients, a \in Addresses : AddressCall(c, a)
    \/ \E a \in Addresses : PoolCall(a)
    \/ ExpireLeases
    \/ Clear
    \/ Tick

LMSpec == LMInit /\ [][LMNext]_lmVars

-----------------------------------------------------------------------------
(* Properties.                                                             *)

\* The shape of the manager's dictionaries, of the pool's sets and the clock.
LMTypeOK ==
    /\ lm \in ManagerState
    /\ excluded \subseteq PoolRange
    /\ now \in Nat

\* A client's entry is its own lease and the address index holds that very
\* lease object, and the other way round: neither dictionary keeps a lease
\* the other has lost, in any order of renewals, expiries and releases.
IndexesAgree(s) ==
    /\ \A c \in Clients : s.byClient[c] # NoLease =>
          /\ s.byClient[c].client = c
          /\ s.byIp[s.byClient[c].ip] = s.byClient[c]
    /\ \A a \in Addresses : s.byIp[a] # NoLease =>
          /\ s.byIp[a].ip = a
          /\ s.byClient[s.byIp[a].client] = s.byIp[a]

\* An address is taken in the pool exactly while a lease holds it, and only
\* pool addresses are: nothing leaks from the pool and nothing leased can be
\* handed out again.
PoolMatchesLeases(s) ==
    /\ s.allocated = {a \in Addresses : s.byIp[a] # NoLease}
    /\ s.allocated \subseteq PoolRange

Consistent(s) == IndexesAgree(s) /\ PoolMatchesLeases(s)

\* lease_manager.py, all methods: the dictionaries and the pool agree after
\* every call.
ManagerConsistent == Consistent(lm)

\* No excluded address is leased, although the control API excludes addresses
\* behind the manager's back (pool.reserve against pool.allocate).
ExcludedNotLeased == \A a \in excluded : lm.byIp[a] = NoLease

\* An address never passes from one client to another in one call while the
\* first client's lease runs: create_specific cannot take over a live lease.
NoTakeover ==
    [][\A a \in Addresses :
          /\ lm.byIp[a] # NoLease
          /\ ~Expired(lm.byIp[a], now)
          /\ lm'.byIp[a] # NoLease
          => lm'.byIp[a].client = lm.byIp[a].client]_lmVars

\* d's lease, if it still runs after the step, is the very one it was.
LeaseStands(d) == HasActive(lm, d, now') => lm'.byClient[d] = lm.byClient[d]

\* A call on behalf of client c ends or changes no running lease of another
\* client, whatever c holds, whichever address it asks for and whoever leases
\* that; what is called for no client, Clear excepted, ends none at all.
OnlyOwnLeaseEnds ==
    [][/\ \A c \in Clients :
             \/ ClientCall(c)
             \/ \E a \in Addresses : AddressCall(c, a)
             => \A d \in Clients \ {c} : LeaseStands(d)
       /\ (\E a \in Addresses : PoolCall(a)) \/ ExpireLeases \/ Tick
             => \A d \in Clients : LeaseStands(d)]_lmVars
=============================================================================
