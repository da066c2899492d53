------------------------------ MODULE DHCPPool ------------------------------
(***************************************************************************)
(* The arithmetic of dhcp/pool.py: which IPv4 addresses a DHCPAddressPool  *)
(* may hand out.  An address is its integer value, as int(IPv4Address) is  *)
(* in the code.  The pool object keeps two sets under one lock; they are   *)
(* passed in here and kept as state by the modules that extend this one:   *)
(*                                                                         *)
(*   allocated   pool._allocated, the addresses bound to a lease           *)
(*   excluded    pool._reserved, the addresses withheld from allocation.   *)
(*               (The code calls these "reserved"; they are what the API   *)
(*               calls exclusions, and are unrelated to the static         *)
(*               reservations of dhcp/reservation.py.)                     *)
(***************************************************************************)
EXTENDS Integers, FiniteSets

CONSTANTS
    PoolStart,   \* first address of the pool, inclusive
    PoolEnd,     \* last address of the pool, inclusive
    Addresses    \* every address a packet or a request can name

\* DHCPAddressPool.__init__ rejects a start greater than the end; a packet can
\* name any address, inside the pool or not.
ASSUME PoolAssumption ==
    /\ PoolStart \in Nat
    /\ PoolEnd \in Nat
    /\ PoolStart <= PoolEnd
    /\ Addresses \subseteq Nat
    /\ PoolStart..PoolEnd \subseteq Addresses

PoolRange == PoolStart..PoolEnd

PoolContains(a) == PoolStart <= a /\ a <= PoolEnd

\* Faulty variant: withheld addresses are not skipped.
FreeOrWithheld(allocated, excluded) == PoolRange \ allocated

FreeAddresses(allocated, excluded) ==
    {a \in PoolRange : a \notin allocated /\ a \notin excluded}

\* allocate() scans upwards and takes the first address it finds free.
IsFirstFree(a, allocated, excluded) ==
    /\ a \in FreeAddresses(allocated, excluded)
    /\ \A b \in FreeAddresses(allocated, excluded) : a <= b

\* allocate_specific() raises unless all three hold.
CanAllocate(a, allocated, excluded) ==
    /\ PoolContains(a)
    /\ a \notin excluded
    /\ a \notin allocated

\* reserve() raises unless both hold; reserving twice is harmless.
CanExclude(a, allocated) ==
    /\ PoolContains(a)
    /\ a \notin allocated
=============================================================================
