----------------------- MODULE DHCPLeaseManagerProofs -----------------------
(***************************************************************************)
(* Proofs about DHCPLeaseManager, for every pool, every set of clients and *)
(* every lease time.                                                       *)
(*                                                                         *)
(* The methods of the lease manager are compositions of three operators on *)
(* its state: RemoveLeases, WithLease and Renewed.  Each has a lemma that  *)
(* says it keeps the two dictionaries and the pool consistent, and under   *)
(* which condition; the step lemmas then only compose them.                *)
(***************************************************************************)
EXTENDS DHCPLeaseManager, TLAPS

(* The invariant that is inductive: shapes, consistency of the manager and *)
(* disjointness of the excluded addresses from the leased ones.            *)
LMInv ==
    /\ LMTypeOK
    /\ ManagerConsistent
    /\ ExcludedNotLeased

-----------------------------------------------------------------------------
(* The operators on a manager state.                                       *)

\* A lease object has the client, the address and the end it was made with.
LEMMA NewLeaseFields ==
    ASSUME NEW c \in Clients, NEW a \in Addresses, NEW t \in Nat
    PROVE  /\ NewLease(c, a, t) \in Lease
           /\ NewLease(c, a, t) # NoLease
           /\ NewLease(c, a, t).client = c
           /\ NewLease(c, a, t).ip = a
BY LeaseAssumption DEF NewLease, Lease

\* What an index holds, in a consistent state, is a lease that both hold.
LEMMA IndexedLease ==
    ASSUME NEW s \in ManagerState, Consistent(s),
           NEW l \in AllLeases(s)
    PROVE  /\ l \in Lease
           /\ l # NoLease
           /\ l.client \in Clients
           /\ l.ip \in PoolRange
           /\ s.byClient[l.client] = l
           /\ s.byIp[l.ip] = l
<1>1. PICK c \in Clients : l = s.byClient[c] /\ l # NoLease
  BY DEF AllLeases
<1>2. l \in Lease
  BY <1>1 DEF ManagerState
<1>3. l.client = c /\ s.byIp[l.ip] = l
  BY <1>1 DEF Consistent, IndexesAgree
<1>4. l.client \in Clients /\ l.ip \in Addresses
  BY <1>2 DEF Lease
<1>5. l.ip \in PoolRange
  BY <1>1, <1>3, <1>4 DEF Consistent, PoolMatchesLeases
<1> QED
  BY <1>1, <1>2, <1>3, <1>4, <1>5

\* What either dictionary holds is one of the leases of AllLeases.
LEMMA EntriesAreLeases ==
    ASSUME NEW s \in ManagerState, Consistent(s)
    PROVE  /\ \A c \in Clients : s.byClient[c] \in AllLeases(s) \cup {NoLease}
           /\ \A a \in Addresses : s.byIp[a] \in AllLeases(s) \cup {NoLease}
<1>1. \A c \in Clients : s.byClient[c] \in AllLeases(s) \cup {NoLease}
  BY DEF AllLeases
<1>2. ASSUME NEW a \in Addresses, s.byIp[a] # NoLease
      PROVE  s.byIp[a] \in AllLeases(s)
  <2>1. s.byIp[a] \in Lease
    BY <1>2 DEF ManagerState
  <2>2. s.byIp[a].client \in Clients
    BY <2>1 DEF Lease
  <2>3. s.byClient[s.byIp[a].client] = s.byIp[a]
    BY <1>2 DEF Consistent, IndexesAgree
  <2> QED
    BY <1>2, <2>2, <2>3 DEF AllLeases
<1> QED
  BY <1>1, <1>2

\* _remove_lease, of any number of leases the manager holds, keeps it
\* consistent: the entries that remain belong to the leases that remain.
LEMMA RemoveLeasesConsistent ==
    ASSUME NEW s \in ManagerState, Consistent(s),
           NEW L \in SUBSET AllLeases(s)
    PROVE  /\ RemoveLeases(s, L) \in ManagerState
           /\ Consistent(RemoveLeases(s, L))
<1> DEFINE clients == {l.client : l \in L}
           ips     == {l.ip : l \in L}
           r       == RemoveLeases(s, L)
<1>1. /\ r.byClient = [c \in Clients |->
                         IF c \in clients THEN NoLease ELSE s.byClient[c]]
      /\ r.byIp = [a \in Addresses |->
                     IF a \in ips THEN NoLease ELSE s.byIp[a]]
      /\ r.allocated = s.allocated \ ips
  BY DEF RemoveLeases
<1>2. r \in ManagerState
  BY DEF RemoveLeases, ManagerState
<1>3. \A l \in L : /\ l.client \in Clients /\ l.ip \in PoolRange
                   /\ s.byClient[l.client] = l /\ s.byIp[l.ip] = l
  BY IndexedLease
<1> HIDE DEF r
<1>4. IndexesAgree(r)
  <2>1. ASSUME NEW c \in Clients, r.byClient[c] # NoLease
        PROVE  /\ r.byClient[c].client = c
               /\ r.byIp[r.byClient[c].ip] = r.byClient[c]
    <3>1. c \notin clients /\ r.byClient[c] = s.byClient[c]
      BY <1>1, <2>1
    <3>2. /\ s.byClient[c].client = c
          /\ s.byIp[s.byClient[c].ip] = s.byClient[c]
      BY <2>1, <3>1 DEF Consistent, IndexesAgree
    <3>3. s.byClient[c].ip \in Addresses
      BY <2>1, <3>1 DEF ManagerState, Lease
    <3>4. s.byClient[c].ip \notin ips
      BY <1>3, <3>1, <3>2
    <3> QED
      BY <1>1, <3>1, <3>2, <3>3, <3>4
  <2>2. ASSUME NEW a \in Addresses, r.byIp[a] # NoLease
        PROVE  /\ r.byIp[a].ip = a
               /\ r.byClient[r.byIp[a].client] = r.byIp[a]
    <3>1. a \notin ips /\ r.byIp[a] = s.byIp[a]
      BY <1>1, <2>2
    <3>2. /\ s.byIp[a].ip = a
          /\ s.byClient[s.byIp[a].client] = s.byIp[a]
      BY <2>2, <3>1 DEF Consistent, IndexesAgree
    <3>3. s.byIp[a].client \in Clients
      BY <2>2, <3>1 DEF ManagerState, Lease
    <3>4. s.byIp[a].client \notin clients
      BY <1>3, <3>1, <3>2
    <3> QED
      BY <1>1, <3>1, <3>2, <3>3, <3>4
  <2> QED
    BY <2>1, <2>2 DEF IndexesAgree
<1>5. PoolMatchesLeases(r)
  BY <1>1 DEF Consistent, PoolMatchesLeases
<1> QED
  BY <1>2, <1>4, <1>5 DEF Consistent, r

\* Removal only empties entries, and empties those of the removed leases.
LEMMA RemoveLeasesFrame ==
    ASSUME NEW s \in ManagerState, NEW L
    PROVE  /\ \A c \in Clients :
                 RemoveLeases(s, L).byClient[c] \in {s.byClient[c], NoLease}
           /\ \A a \in Addresses :
                 RemoveLeases(s, L).byIp[a] \in {s.byIp[a], NoLease}
           /\ \A l \in L : l.client \in Clients =>
                 RemoveLeases(s, L).byClient[l.client] = NoLease
BY DEF RemoveLeases

\* The sweep of an expired lease is the removal of at most that lease.
LEMMA SweptConsistent ==
    ASSUME NEW s \in ManagerState, Consistent(s), NEW t,
           NEW l \in AllLeases(s) \cup {NoLease}
    PROVE  /\ Swept(s, l, t) \in ManagerState
           /\ Consistent(Swept(s, l, t))
           /\ \A c \in Clients :
                 Swept(s, l, t).byClient[c] \in {s.byClient[c], NoLease}
           /\ \A a \in Addresses :
                 Swept(s, l, t).byIp[a] \in {s.byIp[a], NoLease}
<1> DEFINE L == {x \in {l} \ {NoLease} : Expired(x, t)}
<1>1. L \in SUBSET AllLeases(s)
  OBVIOUS
<1>2. Swept(s, l, t) = RemoveLeases(s, L)
  BY DEF Swept
<1> HIDE DEF L
<1> QED
  BY <1>1, <1>2, RemoveLeasesConsistent, RemoveLeasesFrame

\* A client without an active lease has no entry at all once it is swept.
LEMMA SweptClient ==
    ASSUME NEW s \in ManagerState, Consistent(s), NEW c \in Clients,
           NEW t, ~HasActive(s, c, t)
    PROVE  Swept(s, s.byClient[c], t).byClient[c] = NoLease
<1> DEFINE l == s.byClient[c]
           L == {x \in {l} \ {NoLease} : Expired(x, t)}
<1>1. CASE l = NoLease
  BY <1>1, EntriesAreLeases, SweptConsistent
<1>2. CASE l # NoLease
  <2>1. l \in L
    BY <1>2 DEF HasActive
  <2>2. l.client = c
    BY <1>2 DEF Consistent, IndexesAgree
  <2>3. Swept(s, l, t) = RemoveLeases(s, L)
    BY DEF Swept
  <2> HIDE DEF L
  <2> QED
    BY <2>1, <2>2, <2>3, RemoveLeasesFrame
<1> QED
  BY <1>1, <1>2

\* create and create_specific may enter a new lease when its client and its
\* address have none.
LEMMA WithLeaseConsistent ==
    ASSUME NEW s \in ManagerState, Consistent(s), NEW l \in Lease,
           l.ip \in PoolRange, l # NoLease,
           s.byClient[l.client] = NoLease, s.byIp[l.ip] = NoLease
    PROVE  /\ WithLease(s, l) \in ManagerState
           /\ Consistent(WithLease(s, l))
           /\ \A a \in Addresses : a # l.ip =>
                 WithLease(s, l).byIp[a] = s.byIp[a]
<1> DEFINE r == WithLease(s, l)
<1>1. l.client \in Clients /\ l.ip \in Addresses
  BY DEF Lease
<1>2. /\ r.byClient = [s.byClient EXCEPT ![l.client] = l]
      /\ r.byIp = [s.byIp EXCEPT ![l.ip] = l]
      /\ r.allocated = s.allocated \cup {l.ip}
  BY DEF WithLease
<1>3. r \in ManagerState
  BY <1>1 DEF WithLease, ManagerState
<1>4. /\ \A c \in Clients :
            r.byClient[c] = IF c = l.client THEN l ELSE s.byClient[c]
      /\ \A a \in Addresses : r.byIp[a] = IF a = l.ip THEN l ELSE s.byIp[a]
  BY <1>1, <1>2 DEF ManagerState
<1> HIDE DEF r
<1>5. IndexesAgree(r)
  <2>1. ASSUME NEW c \in Clients, r.byClient[c] # NoLease
        PROVE  /\ r.byClient[c].client = c
               /\ r.byIp[r.byClient[c].ip] = r.byClient[c]
    <3>1. CASE c = l.client
      BY <1>1, <1>4, <3>1
    <3>2. CASE c # l.client
      <4>1. /\ s.byClient[c].client = c
            /\ s.byIp[s.byClient[c].ip] = s.byClient[c]
        BY <1>4, <2>1, <3>2 DEF Consistent, IndexesAgree
      <4>2. s.byClient[c].ip \in Addresses /\ s.byClient[c].ip # l.ip
        BY <1>4, <2>1, <3>2, <4>1 DEF ManagerState, Lease
      <4> QED
        BY <1>4, <3>2, <4>1, <4>2
    <3> QED
      BY <3>1, <3>2
  <2>2. ASSUME NEW a \in Addresses, r.byIp[a] # NoLease
        PROVE  /\ r.byIp[a].ip = a
               /\ r.byClient[r.byIp[a].client] = r.byIp[a]
    <3>1. CASE a = l.ip
      BY <1>1, <1>4, <3>1
    <3>2. CASE a # l.ip
      <4>1. /\ s.byIp[a].ip = a
            /\ s.byClient[s.byIp[a].client] = s.byIp[a]
        BY <1>4, <2>2, <3>2 DEF Consistent, IndexesAgree
      <4>2. s.byIp[a].client \in Clients /\ s.byIp[a].client # l.client
        BY <1>4, <2>2, <3>2, <4>1 DEF ManagerState, Lease
      <4> QED
        BY <1>4, <3>2, <4>1, <4>2
    <3> QED
      BY <3>1, <3>2
  <2> QED
    BY <2>1, <2>2 DEF IndexesAgree
<1>6. PoolMatchesLeases(r)
  BY <1>1, <1>2, <1>4 DEF Consistent, PoolMatchesLeases
<1> QED
  BY <1>3, <1>4, <1>5, <1>6 DEF Consistent, r

\* renew changes the end of one lease and nothing else: the object stays under
\* the same client and the same address.
LEMMA RenewedConsistent ==
    ASSUME NEW s \in ManagerState, Consistent(s), NEW c \in Clients,
           NEW t \in Nat, s.byClient[c] # NoLease
    PROVE  /\ Renewed(s, c, t) \in ManagerState
           /\ Consistent(Renewed(s, c, t))
           /\ \A a \in Addresses :
                 \/ Renewed(s, c, t).byIp[a] = s.byIp[a]
                 \/ /\ s.byIp[a] # NoLease
                    /\ Renewed(s, c, t).byIp[a].client = s.byIp[a].client
<1> DEFINE l == s.byClient[c]
           n == [l EXCEPT !.end = t + LeaseTime]
           r == Renewed(s, c, t)
<1>1. l \in Lease /\ l.client = c /\ l.ip \in Addresses /\ s.byIp[l.ip] = l
  BY DEF ManagerState, Lease, Consistent, IndexesAgree
<1>2. n \in Lease /\ n # NoLease /\ n.client = c /\ n.ip = l.ip
  BY <1>1, LeaseAssumption DEF Lease
<1>3. /\ r.byClient = [s.byClient EXCEPT ![c] = n]
      /\ r.byIp = [a \in Addresses |-> IF s.byIp[a] = l THEN n ELSE s.byIp[a]]
      /\ r.allocated = s.allocated
  BY DEF Renewed, ManagerState
<1>4. r \in ManagerState
  BY <1>2 DEF Renewed, ManagerState
<1>5. \A d \in Clients : r.byClient[d] = IF d = c THEN n ELSE s.byClient[d]
  BY <1>3 DEF ManagerState
<1>6. \A a \in Addresses : s.byIp[a] = l <=> a = l.ip
  BY <1>1 DEF Consistent, IndexesAgree
<1>7. \A a \in Addresses : r.byIp[a] = IF a = l.ip THEN n ELSE s.byIp[a]
  BY <1>3, <1>6
<1> HIDE DEF l, n, r
<1>8. IndexesAgree(r)
  <2>1. ASSUME NEW d \in Clients, r.byClient[d] # NoLease
        PROVE  /\ r.byClient[d].client = d
               /\ r.byIp[r.byClient[d].ip] = r.byClient[d]
    <3>1. CASE d = c
      BY <1>1, <1>2, <1>5, <1>7, <3>1
    <3>2. CASE d # c
      <4>1. /\ s.byClient[d].client = d
            /\ s.byIp[s.byClient[d].ip] = s.byClient[d]
        BY <1>5, <2>1, <3>2 DEF Consistent, IndexesAgree
      <4>2. s.byClient[d].ip \in Addresses /\ s.byClient[d].ip # l.ip
        BY <1>1, <1>5, <2>1, <3>2, <4>1 DEF ManagerState, Lease
      <4> QED
        BY <1>5, <1>7, <3>2, <4>1, <4>2
    <3> QED
      BY <3>1, <3>2
  <2>2. ASSUME NEW a \in Addresses, r.byIp[a] # NoLease
        PROVE  /\ r.byIp[a].ip = a
               /\ r.byClient[r.byIp[a].client] = r.byIp[a]
    <3>1. CASE a = l.ip
      BY <1>2, <1>5, <1>7, <3>1
    <3>2. CASE a # l.ip
      <4>1. /\ s.byIp[a].ip = a
            /\ s.byClient[s.byIp[a].client] = s.byIp[a]
        BY <1>7, <2>2, <3>2 DEF Consistent, IndexesAgree
      <4>2. s.byIp[a].client \in Clients /\ s.byIp[a].client # c
        BY <1>7, <2>2, <3>2, <4>1 DEF ManagerState, Lease, l
      <4> QED
        BY <1>5, <1>7, <3>2, <4>1, <4>2
    <3> QED
      BY <3>1, <3>2
  <2> QED
    BY <2>1, <2>2 DEF IndexesAgree
<1>9. PoolMatchesLeases(r)
  <2>1. \A a \in Addresses : r.byIp[a] = NoLease <=> s.byIp[a] = NoLease
    BY <1>1, <1>2, <1>7 DEF l
  <2> QED
    BY <1>3, <2>1 DEF Consistent, PoolMatchesLeases
<1>10. \A a \in Addresses :
          \/ r.byIp[a] = s.byIp[a]
          \/ s.byIp[a] # NoLease /\ r.byIp[a].client = s.byIp[a].client
  BY <1>1, <1>2, <1>7 DEF l
<1> QED
  BY <1>4, <1>8, <1>9, <1>10 DEF Consistent, r

\* Before create_specific asks the pool, the client has no entry left, and
\* entries were only ever emptied.
LEMMA PreparedConsistent ==
    ASSUME NEW s \in ManagerState, Consistent(s), NEW c \in Clients,
           NEW a \in Addresses, NEW t
    PROVE  /\ Prepared(s, c, a, t) \in ManagerState
           /\ Consistent(Prepared(s, c, a, t))
           /\ Prepared(s, c, a, t).byClient[c] = NoLease
           /\ \A d \in Clients :
                 Prepared(s, c, a, t).byClient[d] \in {s.byClient[d], NoLease}
           /\ \A b \in Addresses :
                 Prepared(s, c, a, t).byIp[b] \in {s.byIp[b], NoLease}
<1> DEFINE s1 == Swept(s, s.byClient[c], t)
           L  == {s1.byClient[c]} \ {NoLease}
           s2 == RemoveLeases(s1, L)
           s3 == Swept(s2, s2.byIp[a], t)
<1>1. /\ s1 \in ManagerState /\ Consistent(s1)
      /\ \A d \in Clients : s1.byClient[d] \in {s.byClient[d], NoLease}
      /\ \A b \in Addresses : s1.byIp[b] \in {s.byIp[b], NoLease}
  BY EntriesAreLeases, SweptConsistent
<1> HIDE DEF s1
<1>2. L \in SUBSET AllLeases(s1)
  BY <1>1 DEF AllLeases
<1>3. /\ s2 \in ManagerState /\ Consistent(s2)
      /\ \A d \in Clients : s2.byClient[d] \in {s1.byClient[d], NoLease}
      /\ \A b \in Addresses : s2.byIp[b] \in {s1.byIp[b], NoLease}
  BY <1>1, <1>2, RemoveLeasesConsistent, RemoveLeasesFrame
<1>4. s2.byClient[c] = NoLease
  <2>1. CASE s1.byClient[c] = NoLease
    BY <1>3, <2>1
  <2>2. CASE s1.byClient[c] # NoLease
    <3>1. s1.byClient[c] \in L /\ s1.byClient[c].client = c
      BY <1>1, <2>2 DEF Consistent, IndexesAgree
    <3> QED
      BY <1>1, <3>1, RemoveLeasesFrame
  <2> QED
    BY <2>1, <2>2
<1> HIDE DEF s2
<1>5. /\ s3 \in ManagerState /\ Consistent(s3)
      /\ \A d \in Clients : s3.byClient[d] \in {s2.byClient[d], NoLease}
      /\ \A b \in Addresses : s3.byIp[b] \in {s2.byIp[b], NoLease}
  BY <1>3, EntriesAreLeases, SweptConsistent
<1>6. Prepared(s, c, a, t) = s3
  BY DEF Prepared, s1, s2
<1> HIDE DEF s3
<1> QED
  BY <1>1, <1>3, <1>4, <1>5, <1>6

-----------------------------------------------------------------------------
(* The invariant.                                                          *)

\* A new manager is consistent.
LEMMA LMInitInv == LMInit => LMInv
BY DEF LMInit, EmptyManager, LMInv, LMTypeOK, ManagerState, PoolRange,
       ManagerConsistent, Consistent, IndexesAgree, PoolMatchesLeases,
       ExcludedNotLeased

\* A call that only empties address entries cannot lease an excluded address.
LEMMA EmptyingKeepsExcluded ==
    ASSUME LMInv, LMTypeOK', ManagerConsistent', excluded' = excluded,
           \A a \in Addresses : lm'.byIp[a] \in {lm.byIp[a], NoLease}
    PROVE  LMInv'
BY PoolAssumption
   DEF LMInv, LMTypeOK, ExcludedNotLeased, PoolRange

\* What the address index of a consistent manager says of a pool address.
LEMMA FreeMeansUnleased ==
    ASSUME NEW s \in ManagerState, Consistent(s), NEW a \in PoolRange,
           a \notin s.allocated
    PROVE  a \in Addresses /\ s.byIp[a] = NoLease
BY PoolAssumption DEF Consistent, PoolMatchesLeases, PoolRange

\* The two ways in which the methods end leases.
LEMMA RemovalKeepsInv ==
    ASSUME LMInv, NEW L \in SUBSET AllLeases(lm),
           lm' = RemoveLeases(lm, L), excluded' = excluded, now' \in Nat
    PROVE  LMInv'
BY RemoveLeasesConsistent, RemoveLeasesFrame, EmptyingKeepsExcluded
   DEF LMInv, LMTypeOK, ManagerConsistent

\* A clean-up keeps the invariant.
LEMMA SweepKeepsInv ==
    ASSUME LMInv, NEW l \in AllLeases(lm) \cup {NoLease},
           lm' = Swept(lm, l, now), UNCHANGED <<excluded, now>>
    PROVE  LMInv'
BY SweptConsistent, EmptyingKeepsExcluded
   DEF LMInv, LMTypeOK, ManagerConsistent

\* The calls for one client that end leases, at most.
LEMMA EmptyingCalls ==
    ASSUME LMInv, NEW c \in Clients, NEW a \in Addresses,
           \/ GetByClient(c) \/ CreateReuses(c) \/ CreateExhausted(c)
           \/ CreateSpecificLapses(c, a) \/ CreateSpecificRefused(c, a)
           \/ RenewNotFound(c) \/ Release(c)
    PROVE  LMInv'
<1>1. lm.byClient[c] \in AllLeases(lm) \cup {NoLease}
  BY EntriesAreLeases DEF LMInv, LMTypeOK, ManagerConsistent
<1>2. CASE GetByClient(c) \/ CreateExhausted(c) \/ RenewNotFound(c)
  BY <1>1, <1>2, SweepKeepsInv DEF GetByClient, CreateExhausted, RenewNotFound
<1>3. CASE CreateReuses(c)
  BY <1>3 DEF CreateReuses, lmVars, LMInv, LMTypeOK, ManagerConsistent,
              Consistent, ExcludedNotLeased
<1>4. CASE CreateSpecificLapses(c, a)
  <2>1. {lm.byClient[c]} \in SUBSET AllLeases(lm)
    BY <1>1, <1>4 DEF CreateSpecificLapses, HoldsActive, HasActive
  <2>2. now' \in Nat
    BY <1>4 DEF CreateSpecificLapses, LMInv, LMTypeOK
  <2> QED
    BY <1>4, <2>1, <2>2, RemovalKeepsInv DEF CreateSpecificLapses
<1>5. CASE CreateSpecificRefused(c, a)
  BY <1>5, PreparedConsistent, EmptyingKeepsExcluded
     DEF CreateSpecificRefused, LMInv, LMTypeOK, ManagerConsistent
<1>6. CASE Release(c)
  BY <1>1, <1>6, RemovalKeepsInv DEF Release, LMInv, LMTypeOK
<1> QED
  BY <1>2, <1>3, <1>4, <1>5, <1>6

\* The calls that enter a new lease: its address was free and not excluded.
LEMMA LeasingCalls ==
    ASSUME LMInv, NEW c \in Clients, NEW a \in Addresses,
           CreateAllocates(c) \/ CreateSpecificLeases(c, a)
    PROVE  LMInv'
<1> USE DEF LMInv, LMTypeOK, ManagerConsistent
<1>1. ASSUME NEW s \in ManagerState, Consistent(s), NEW b \in PoolRange,
             s.byClient[c] = NoLease, b \notin s.allocated, b \notin excluded,
             \A x \in Addresses : s.byIp[x] \in {lm.byIp[x], NoLease},
             lm' = WithLease(s, NewLease(c, b, now)),
             UNCHANGED <<excluded, now>>
      PROVE  LMInv'
  <2> DEFINE l == NewLease(c, b, now)
  <2>1. b \in Addresses /\ s.byIp[b] = NoLease
    BY <1>1, FreeMeansUnleased
  <2>2. l \in Lease /\ l # NoLease /\ l.client = c /\ l.ip = b
    BY <2>1, NewLeaseFields
  <2> HIDE DEF l
  <2>3. /\ WithLease(s, l) \in ManagerState /\ Consistent(WithLease(s, l))
        /\ \A x \in Addresses : x # l.ip => WithLease(s, l).byIp[x] = s.byIp[x]
    BY <1>1, <2>1, <2>2, WithLeaseConsistent
  <2>4. lm' = WithLease(s, l)
    BY <1>1 DEF l
  <2>5. \A x \in excluded : lm'.byIp[x] = NoLease
    BY <1>1, <2>2, <2>3, <2>4, PoolAssumption DEF ExcludedNotLeased, PoolRange
  <2> QED
    BY <1>1, <2>3, <2>4, <2>5 DEF ExcludedNotLeased
<1>2. CASE CreateAllocates(c)
  <2> DEFINE s == Swept(lm, lm.byClient[c], now)
  <2>1. /\ s \in ManagerState /\ Consistent(s)
        /\ \A x \in Addresses : s.byIp[x] \in {lm.byIp[x], NoLease}
    BY EntriesAreLeases, SweptConsistent
  <2>2. s.byClient[c] = NoLease
    BY <1>2, SweptClient DEF CreateAllocates
  <2>3. PICK b \in PoolRange :
          /\ IsFirstFree(b, s.allocated, excluded)
          /\ lm' = WithLease(s, NewLease(c, b, now))
    BY <1>2 DEF CreateAllocates
  <2>4. b \notin s.allocated /\ b \notin excluded
    BY <2>3 DEF IsFirstFree, FreeAddresses
  <2>5. UNCHANGED <<excluded, now>>
    BY <1>2 DEF CreateAllocates
  <2> HIDE DEF s
  <2> QED
    BY <1>1, <2>1, <2>2, <2>3, <2>4, <2>5
<1>3. CASE CreateSpecificLeases(c, a)
  <2> DEFINE s == Prepared(lm, c, a, now)
  <2>1. /\ s \in ManagerState /\ Consistent(s) /\ s.byClient[c] = NoLease
        /\ \A x \in Addresses : s.byIp[x] \in {lm.byIp[x], NoLease}
    BY PreparedConsistent
  <2>2. /\ Grantable(s, a)
        /\ lm' = WithLease(s, NewLease(c, a, now))
        /\ UNCHANGED <<excluded, now>>
    BY <1>3 DEF CreateSpecificLeases
  <2>3. a \in PoolRange /\ a \notin s.allocated /\ a \notin excluded
    BY <2>2, PoolAssumption DEF Grantable, CanAllocate, PoolContains, PoolRange
  <2> HIDE DEF s
  <2> QED
    BY <1>1, <2>1, <2>2, <2>3
<1> QED
  BY <1>2, <1>3

\* The calls that renew a lease where it is.
LEMMA RenewingCalls ==
    ASSUME LMInv, NEW c \in Clients, NEW a \in Addresses,
           Renew(c) \/ CreateSpecificRenews(c, a)
    PROVE  LMInv'
<1> USE DEF LMInv, LMTypeOK, ManagerConsistent
<1>1. /\ lm.byClient[c] # NoLease /\ lm' = Renewed(lm, c, now)
      /\ UNCHANGED <<excluded, now>>
  BY DEF Renew, CreateSpecificRenews, HoldsActive, HasActive
<1>2. /\ lm' \in ManagerState /\ Consistent(lm')
      /\ \A b \in Addresses : lm.byIp[b] = NoLease => lm'.byIp[b] = NoLease
  BY <1>1, RenewedConsistent
<1> QED
  BY <1>1, <1>2, PoolAssumption DEF ExcludedNotLeased, PoolRange

\* pool.reserve and pool.unreserve, called past the manager.
LEMMA PoolCalls ==
    ASSUME LMInv, NEW a \in Addresses, Exclude(a) \/ Unexclude(a)
    PROVE  LMInv'
<1> USE DEF LMInv, LMTypeOK, ManagerConsistent
<1>1. CASE Exclude(a)
  <2>1. a \in PoolRange /\ lm.byIp[a] = NoLease
    BY <1>1, FreeMeansUnleased, PoolAssumption
       DEF Exclude, CanExclude, PoolContains, PoolRange
  <2> QED
    BY <1>1, <2>1 DEF Exclude, ExcludedNotLeased
<1>2. CASE Unexclude(a)
  BY <1>2 DEF Unexclude, ExcludedNotLeased
<1> QED
  BY <1>1, <1>2

\* Every call keeps the invariant.
LEMMA LMStepInv == LMInv /\ [LMNext]_lmVars => LMInv'
<1> SUFFICES ASSUME LMInv, [LMNext]_lmVars
             PROVE  LMInv'
  OBVIOUS
<1>0. PoolStart \in Addresses
  BY PoolAssumption
<1>1. ASSUME NEW c \in Clients, ClientCall(c) PROVE LMInv'
  BY <1>0, <1>1, EmptyingCalls, LeasingCalls, RenewingCalls DEF ClientCall
<1>2. ASSUME NEW c \in Clients, NEW a \in Addresses, AddressCall(c, a)
      PROVE  LMInv'
  BY <1>2, EmptyingCalls, LeasingCalls, RenewingCalls DEF AddressCall
<1>3. ASSUME NEW a \in Addresses, PoolCall(a) PROVE LMInv'
  <2>1. CASE GetByIp(a)
    BY <2>1, EntriesAreLeases, SweepKeepsInv
       DEF GetByIp, LMInv, LMTypeOK, ManagerConsistent
  <2> QED
    BY <1>3, <2>1, PoolCalls DEF PoolCall
<1>4. CASE ExpireLeases
  <2>1. {l \in AllLeases(lm) : Expired(l, now)} \in SUBSET AllLeases(lm)
    OBVIOUS
  <2> QED
    BY <1>4, <2>1, RemovalKeepsInv DEF ExpireLeases, LMInv, LMTypeOK
<1>5. CASE Clear
  BY <1>5, RemovalKeepsInv DEF Clear, LMInv, LMTypeOK
<1>6. CASE Tick
  BY <1>6 DEF Tick, LMInv, LMTypeOK, ManagerConsistent, Consistent,
              ExcludedNotLeased
<1>7. CASE UNCHANGED lmVars
  BY <1>7 DEF lmVars, LMInv, LMTypeOK, ManagerConsistent, Consistent,
              ExcludedNotLeased
<1> QED
  BY <1>1, <1>2, <1>3, <1>4, <1>5, <1>6, <1>7 DEF LMNext

\* The dictionaries and the pool keep their shape, for every pool, every set
\* of clients and every lease time.
THEOREM LMTypeCorrect == LMSpec => []LMTypeOK
<1>1. LMInv => LMTypeOK
  BY DEF LMInv
<1> QED
  BY <1>1, LMInitInv, LMStepInv, PTL DEF LMSpec

\* After every call of the lease manager the two dictionaries hold the same
\* leases and the pool has marked exactly their addresses.
THEOREM LMConsistent == LMSpec => []ManagerConsistent
<1>1. LMInv => ManagerConsistent
  BY DEF LMInv
<1> QED
  BY <1>1, LMInitInv, LMStepInv, PTL DEF LMSpec

\* An address the control API has excluded is never leased, in whatever order
\* the two threads call the pool.
THEOREM LMExcludedNotLeased == LMSpec => []ExcludedNotLeased
<1>1. LMInv => ExcludedNotLeased
  BY DEF LMInv
<1> QED
  BY <1>1, LMInitInv, LMStepInv, PTL DEF LMSpec

-----------------------------------------------------------------------------
(* No call moves a running lease from one client to another.               *)

\* Removal keeps the address entries of all other leases.
LEMMA RemoveLeasesKeepsOthers ==
    ASSUME NEW s \in ManagerState, Consistent(s),
           NEW L \in SUBSET AllLeases(s), NEW a \in Addresses,
           s.byIp[a] \notin L
    PROVE  RemoveLeases(s, L).byIp[a] = s.byIp[a]
<1>1. \A l \in L : l.ip # a
  BY IndexedLease
<1> QED
  BY <1>1 DEF RemoveLeases

\* A sweep keeps the address entry of every running lease.
LEMMA SweptKeepsRunning ==
    ASSUME NEW s \in ManagerState, Consistent(s), NEW t,
           NEW l \in AllLeases(s) \cup {NoLease}, NEW a \in Addresses,
           ~Expired(s.byIp[a], t)
    PROVE  Swept(s, l, t).byIp[a] = s.byIp[a]
<1> DEFINE L == {x \in {l} \ {NoLease} : Expired(x, t)}
<1>1. L \in SUBSET AllLeases(s) /\ s.byIp[a] \notin L
  OBVIOUS
<1>2. Swept(s, l, t) = RemoveLeases(s, L)
  BY DEF Swept
<1> HIDE DEF L
<1> QED
  BY <1>1, <1>2, RemoveLeasesKeepsOthers

\* create_specific, while it cleans up, ends no running lease but the client's.
LEMMA PreparedKeepsRunning ==
    ASSUME NEW s \in ManagerState, Consistent(s), NEW c \in Clients,
           NEW a \in Addresses, NEW t, NEW b \in Addresses,
           s.byIp[b] # NoLease, ~Expired(s.byIp[b], t), s.byIp[b].client # c
    PROVE  Prepared(s, c, a, t).byIp[b] = s.byIp[b]
<1> DEFINE s1 == Swept(s, s.byClient[c], t)
           L  == {s1.byClient[c]} \ {NoLease}
           s2 == RemoveLeases(s1, L)
<1>1. /\ s1 \in ManagerState /\ Consistent(s1) /\ s1.byIp[b] = s.byIp[b]
  BY EntriesAreLeases, SweptConsistent, SweptKeepsRunning
<1> HIDE DEF s1
<1>2. L \in SUBSET AllLeases(s1) /\ s1.byIp[b] \notin L
  BY <1>1 DEF AllLeases, Consistent, IndexesAgree
<1>3. s2 \in ManagerState /\ Consistent(s2) /\ s2.byIp[b] = s.byIp[b]
  BY <1>1, <1>2, RemoveLeasesConsistent, RemoveLeasesKeepsOthers
<1> HIDE DEF s2
<1>4. Swept(s2, s2.byIp[a], t).byIp[b] = s.byIp[b]
  BY <1>3, EntriesAreLeases, SweptKeepsRunning
<1>5. Prepared(s, c, a, t) = Swept(s2, s2.byIp[a], t)
  BY DEF Prepared, s1, s2
<1> QED
  BY <1>4, <1>5

\* In one step, an address whose lease runs keeps that client or loses its
\* lease; it never shows another client's lease.
LEMMA LMStepNoTakeover ==
    ASSUME LMInv, [LMNext]_lmVars, NEW b \in Addresses,
           lm.byIp[b] # NoLease, ~Expired(lm.byIp[b], now),
           lm'.byIp[b] # NoLease
    PROVE  lm'.byIp[b].client = lm.byIp[b].client
<1> USE DEF LMInv, LMTypeOK, ManagerConsistent
<1>1. CASE lm'.byIp[b] \in {lm.byIp[b], NoLease}
  BY <1>1
<1>2. ASSUME NEW s, NEW c \in Clients, NEW a \in Addresses, NEW t \in Nat,
             s.byIp \in [Addresses -> Lease \cup {NoLease}],
             s.byIp[a] = NoLease, s.byIp[b] = lm.byIp[b],
             lm' = WithLease(s, NewLease(c, a, t))
      PROVE  lm'.byIp[b] = lm.byIp[b]
  BY <1>2, NewLeaseFields DEF WithLease
<1>3. ASSUME NEW c \in Clients, CreateAllocates(c)
      PROVE  lm'.byIp[b].client = lm.byIp[b].client
  <2> DEFINE s == Swept(lm, lm.byClient[c], now)
  <2>1. s \in ManagerState /\ Consistent(s) /\ s.byIp[b] = lm.byIp[b]
    BY EntriesAreLeases, SweptConsistent, SweptKeepsRunning
  <2>2. PICK a \in PoolRange :
          /\ IsFirstFree(a, s.allocated, excluded)
          /\ lm' = WithLease(s, NewLease(c, a, now))
    BY <1>3 DEF CreateAllocates
  <2> HIDE DEF s
  <2>3. a \in Addresses /\ s.byIp[a] = NoLease
    BY <2>1, <2>2, FreeMeansUnleased DEF IsFirstFree, FreeAddresses
  <2> QED
    BY <1>2, <2>1, <2>2, <2>3 DEF ManagerState
<1>4. ASSUME NEW c \in Clients, NEW a \in Addresses,
             CreateSpecificLeases(c, a)
      PROVE  lm'.byIp[b].client = lm.byIp[b].client
  <2> DEFINE s == Prepared(lm, c, a, now)
  <2>1. s \in ManagerState /\ s.byIp[a] = NoLease
    BY <1>4, PreparedConsistent DEF CreateSpecificLeases, Grantable
  <2>2. lm' = WithLease(s, NewLease(c, a, now))
    BY <1>4 DEF CreateSpecificLeases
  <2>3. CASE lm.byIp[b].client # c
    <3>1. s.byIp[b] = lm.byIp[b]
      BY <2>3, PreparedKeepsRunning
    <3> HIDE DEF s
    <3> QED
      BY <1>2, <2>1, <2>2, <3>1 DEF ManagerState
  <2>4. CASE lm.byIp[b].client = c
    <3>1. s.byIp[b] \in {lm.byIp[b], NoLease}
      BY PreparedConsistent
    <3>2. lm'.byIp[b] \in {s.byIp[b], NewLease(c, a, now)}
      BY <2>1, <2>2, NewLeaseFields DEF WithLease, ManagerState
    <3> QED
      BY <2>4, <3>1, <3>2, NewLeaseFields
  <2> QED
    BY <2>3, <2>4
<1>5. ASSUME NEW c \in Clients, NEW a \in Addresses,
             Renew(c) \/ CreateSpecificRenews(c, a)
      PROVE  lm'.byIp[b].client = lm.byIp[b].client
  <2>1. lm.byClient[c] # NoLease /\ lm' = Renewed(lm, c, now)
    BY <1>5 DEF Renew, CreateSpecificRenews, HoldsActive, HasActive
  <2> QED
    BY <2>1, RenewedConsistent
<1>6. ASSUME NEW c \in Clients, NEW a \in Addresses,
             \/ GetByClient(c) \/ GetByIp(a) \/ CreateReuses(c)
             \/ CreateExhausted(c) \/ RenewNotFound(c)
             \/ CreateSpecificLapses(c, a) \/ CreateSpecificRefused(c, a)
             \/ Release(c)
      PROVE  lm'.byIp[b] \in {lm.byIp[b], NoLease}
  BY <1>6, EntriesAreLeases, SweptConsistent, RemoveLeasesFrame,
     PreparedConsistent
     DEF GetByClient, GetByIp, CreateReuses, CreateExhausted, RenewNotFound,
         CreateSpecificLapses, CreateSpecificRefused, Release, lmVars
<1>7. CASE \/ ExpireLeases \/ Clear \/ Tick \/ UNCHANGED lmVars
           \/ \E a \in Addresses : Exclude(a) \/ Unexclude(a)
  BY <1>7, <1>1, RemoveLeasesFrame
     DEF ExpireLeases, Clear, Tick, Exclude, Unexclude, lmVars
<1>8. PoolStart \in Addresses
  BY PoolAssumption
<1>9. CASE \E c \in Clients : ClientCall(c)
  BY <1>1, <1>3, <1>5, <1>6, <1>8, <1>9 DEF ClientCall
<1>10. CASE \E c \in Clients, a \in Addresses : AddressCall(c, a)
  BY <1>1, <1>4, <1>5, <1>6, <1>10 DEF AddressCall
<1>11. CASE \E a \in Addresses : GetByIp(a)
  BY <1>1, <1>11, EntriesAreLeases, SweptConsistent DEF GetByIp
<1> QED
  BY <1>7, <1>9, <1>10, <1>11 DEF LMNext, PoolCall

\* create_specific, the only call that can want a given address, never takes
\* it from a client whose lease runs.
THEOREM LMNoTakeover == LMSpec => NoTakeover
<1>1. LMInv /\ [LMNext]_lmVars =>
        [\A a \in Addresses :
            /\ lm.byIp[a] # NoLease
            /\ ~Expired(lm.byIp[a], now)
            /\ lm'.byIp[a] # NoLease
            => lm'.byIp[a].client = lm.byIp[a].client]_lmVars
  BY LMStepNoTakeover
<1> QED
  BY <1>1, LMInitInv, LMStepInv, PTL DEF LMSpec, NoTakeover

-----------------------------------------------------------------------------
(* What a call for one client does to the leases of all clients.           *)

\* Renewing the lease of one client leaves the address entries of the others.
LEMMA RenewedKeepsOthers ==
    ASSUME NEW s \in ManagerState, Consistent(s), NEW c \in Clients, NEW t,
           s.byClient[c] # NoLease, NEW b \in Addresses, s.byIp[b].client # c
    PROVE  Renewed(s, c, t).byIp[b] = s.byIp[b]
<1>1. s.byIp[b] # s.byClient[c]
  BY DEF Consistent, IndexesAgree
<1> QED
  BY <1>1 DEF Renewed

\* A call for one client keeps the address entry of every running lease of
\* another client.
LEMMA OthersKeepAddress ==
    ASSUME LMInv, NEW c \in Clients, NEW a \in Addresses,
           ClientCall(c) \/ AddressCall(c, a), NEW b \in Addresses,
           lm.byIp[b] # NoLease, ~Expired(lm.byIp[b], now),
           lm.byIp[b].client # c
    PROVE  lm'.byIp[b] = lm.byIp[b]
<1> USE DEF LMInv, LMTypeOK, ManagerConsistent
<1>1. ASSUME NEW s, NEW x \in Addresses, NEW t \in Nat,
             s.byIp \in [Addresses -> Lease \cup {NoLease}],
             s.byIp[x] = NoLease, s.byIp[b] = lm.byIp[b],
             lm' = WithLease(s, NewLease(c, x, t))
      PROVE  lm'.byIp[b] = lm.byIp[b]
  BY <1>1, NewLeaseFields DEF WithLease
<1>2. CASE \/ GetByClient(c) \/ CreateReuses(c) \/ CreateExhausted(c)
           \/ RenewNotFound(c)
  BY <1>2, EntriesAreLeases, SweptKeepsRunning
     DEF GetByClient, CreateReuses, CreateExhausted, RenewNotFound, lmVars
<1>3. CASE Release(c) \/ CreateSpecificLapses(c, a)
  <2>1. \/ lm' = RemoveLeases(lm, {lm.byClient[c]} \ {NoLease})
        \/ lm.byClient[c] # NoLease /\ lm' = RemoveLeases(lm, {lm.byClient[c]})
    BY <1>3 DEF Release, CreateSpecificLapses, HoldsActive, HasActive
  <2>2. lm.byIp[b] # lm.byClient[c]
    BY DEF Consistent, IndexesAgree
  <2> QED
    BY <2>1, <2>2, RemoveLeasesKeepsOthers DEF AllLeases
<1>4. CASE Renew(c) \/ CreateSpecificRenews(c, a)
  BY <1>4, RenewedKeepsOthers
     DEF Renew, CreateSpecificRenews, HoldsActive, HasActive
<1>5. CASE CreateAllocates(c)
  <2> DEFINE s == Swept(lm, lm.byClient[c], now)
  <2>1. s \in ManagerState /\ Consistent(s) /\ s.byIp[b] = lm.byIp[b]
    BY EntriesAreLeases, SweptConsistent, SweptKeepsRunning
  <2>2. PICK x \in PoolRange :
          /\ IsFirstFree(x, s.allocated, excluded)
          /\ lm' = WithLease(s, NewLease(c, x, now))
    BY <1>5 DEF CreateAllocates
  <2> HIDE DEF s
  <2>3. x \in Addresses /\ s.byIp[x] = NoLease
    BY <2>1, <2>2, FreeMeansUnleased DEF IsFirstFree, FreeAddresses
  <2> QED
    BY <1>1, <2>1, <2>2, <2>3 DEF ManagerState
<1>6. CASE CreateSpecificLeases(c, a) \/ CreateSpecificRefused(c, a)
  <2> DEFINE s == Prepared(lm, c, a, now)
  <2>1. s \in ManagerState /\ s.byIp[b] = lm.byIp[b]
    BY PreparedConsistent, PreparedKeepsRunning
  <2>2. \/ lm' = s
        \/ s.byIp[a] = NoLease /\ lm' = WithLease(s, NewLease(c, a, now))
    BY <1>6 DEF CreateSpecificLeases, CreateSpecificRefused, Grantable
  <2> HIDE DEF s
  <2> QED
    BY <1>1, <2>1, <2>2 DEF ManagerState
<1> QED
  BY <1>2, <1>3, <1>4, <1>5, <1>6 DEF ClientCall, AddressCall

\* Hence it keeps the running leases of all other clients.
LEMMA OthersKeepLease ==
    ASSUME LMInv, LMInv', NEW c \in Clients, NEW a \in Addresses,
           ClientCall(c) \/ AddressCall(c, a),
           NEW d \in Clients, d # c, HasActive(lm, d, now)
    PROVE  lm'.byClient[d] = lm.byClient[d]
<1> DEFINE l == lm.byClient[d]
<1>1. /\ l # NoLease /\ l.ip \in Addresses /\ l.client = d
      /\ lm.byIp[l.ip] = l /\ ~Expired(l, now)
  BY DEF LMInv, LMTypeOK, ManagerConsistent, Consistent, IndexesAgree,
         ManagerState, Lease, HasActive
<1> HIDE DEF l
<1>2. lm'.byIp[l.ip] = l
  BY <1>1, OthersKeepAddress
<1>3. lm'.byClient[lm'.byIp[l.ip].client] = lm'.byIp[l.ip]
  BY <1>1, <1>2 DEF LMInv, ManagerConsistent, Consistent, IndexesAgree
<1> QED
  BY <1>1, <1>2, <1>3 DEF l

\* A lookup leaves a client its running lease, and no other.
LEMMA SweptOwn ==
    ASSUME NEW s \in ManagerState, Consistent(s), NEW c \in Clients, NEW t
    PROVE  Swept(s, s.byClient[c], t).byClient[c]
              = IF HasActive(s, c, t) THEN s.byClient[c] ELSE NoLease
<1>1. CASE ~HasActive(s, c, t)
  BY <1>1, SweptClient
<1>2. CASE HasActive(s, c, t)
  <2>1. {x \in {s.byClient[c]} \ {NoLease} : Expired(x, t)} = {}
    BY <1>2 DEF HasActive
  <2> QED
    BY <1>2, <2>1 DEF Swept, RemoveLeases
<1> QED
  BY <1>1, <1>2

\* A new lease is the client's, on an address of the pool, for the lease time.
LEMMA NewLeaseMade ==
    ASSUME LMInv, NEW c \in Clients, NEW a \in Addresses,
           CreateAllocates(c) \/ CreateSpecificLeases(c, a)
    PROVE  \E x \in PoolRange : lm'.byClient[c] = NewLease(c, x, now)
<1> USE DEF LMInv, LMTypeOK, ManagerConsistent
<1>1. ASSUME NEW s \in ManagerState, NEW x \in PoolRange,
             lm' = WithLease(s, NewLease(c, x, now))
      PROVE  lm'.byClient[c] = NewLease(c, x, now)
  <2>1. NewLease(c, x, now).client = c
    BY DEF NewLease
  <2> QED
    BY <1>1, <2>1 DEF WithLease, ManagerState
<1>2. CASE CreateAllocates(c)
  <2>1. Swept(lm, lm.byClient[c], now) \in ManagerState
    BY EntriesAreLeases, SweptConsistent
  <2> QED
    BY <1>1, <1>2, <2>1 DEF CreateAllocates
<1>3. CASE CreateSpecificLeases(c, a)
  <2>1. Prepared(lm, c, a, now) \in ManagerState
    BY PreparedConsistent
  <2>2. a \in PoolRange
    BY <1>3, PoolAssumption
       DEF CreateSpecificLeases, Grantable, CanAllocate, PoolContains, PoolRange
  <2> QED
    BY <1>1, <1>3, <2>1, <2>2 DEF CreateSpecificLeases
<1> QED
  BY <1>2, <1>3

\* What each call leaves the client that it is for.
LEMMA OwnLeaseAfter ==
    ASSUME LMInv, NEW c \in Clients, NEW a \in Addresses
    PROVE  /\ GetByClient(c) \/ RenewNotFound(c) \/ CreateExhausted(c) =>
                 lm'.byClient[c] = IF HasActive(lm, c, now)
                                   THEN lm.byClient[c] ELSE NoLease
           /\ CreateSpecificRefused(c, a) \/ Release(c) =>
                 lm'.byClient[c] = NoLease
           /\ Renew(c) \/ CreateSpecificRenews(c, a) =>
                 lm'.byClient[c] = [lm.byClient[c] EXCEPT !.end = now + LeaseTime]
<1> USE DEF LMInv, LMTypeOK, ManagerConsistent
<1>1. GetByClient(c) \/ RenewNotFound(c) \/ CreateExhausted(c) =>
         lm'.byClient[c] = IF HasActive(lm, c, now)
                           THEN lm.byClient[c] ELSE NoLease
  BY SweptOwn DEF GetByClient, RenewNotFound, CreateExhausted
<1>2. CreateSpecificRefused(c, a) => lm'.byClient[c] = NoLease
  BY PreparedConsistent DEF CreateSpecificRefused
<1>3. Release(c) => lm'.byClient[c] = NoLease
  <2>1. CASE lm.byClient[c] = NoLease
    BY <2>1, RemoveLeasesFrame DEF Release
  <2>2. CASE lm.byClient[c] # NoLease
    <3>1. lm.byClient[c].client = c
      BY <2>2 DEF Consistent, IndexesAgree
    <3> QED
      BY <2>2, <3>1, RemoveLeasesFrame DEF Release
  <2> QED
    BY <2>1, <2>2
<1>4. Renew(c) \/ CreateSpecificRenews(c, a) =>
         lm'.byClient[c] = [lm.byClient[c] EXCEPT !.end = now + LeaseTime]
  BY DEF Renew, CreateSpecificRenews, Renewed, ManagerState
<1> QED
  BY <1>1, <1>2, <1>3, <1>4

\* No call makes a lease that runs for longer than the lease time.
LEMMA CallKeepsEnds ==
    ASSUME LMInv, NEW c \in Clients, NEW a \in Addresses,
           ClientCall(c) \/ AddressCall(c, a),
           \A d \in Clients : lm.byClient[d] # NoLease =>
              lm.byClient[d].end <= now + LeaseTime
    PROVE  \A d \in Clients : lm'.byClient[d] # NoLease =>
              lm'.byClient[d].end <= now + LeaseTime
<1> USE DEF LMInv, LMTypeOK, ManagerConsistent
<1>1. ASSUME \A d \in Clients : lm'.byClient[d] \in {lm.byClient[d], NoLease}
      PROVE  \A d \in Clients : lm'.byClient[d] # NoLease =>
                lm'.byClient[d].end <= now + LeaseTime
  BY <1>1
<1>2. ASSUME NEW s \in ManagerState, NEW x \in Addresses,
             \A d \in Clients : s.byClient[d] \in {lm.byClient[d], NoLease},
             lm' = WithLease(s, NewLease(c, x, now))
      PROVE  \A d \in Clients : lm'.byClient[d] # NoLease =>
                lm'.byClient[d].end <= now + LeaseTime
  <2>1. /\ NewLease(c, x, now).client = c
        /\ NewLease(c, x, now).end = now + LeaseTime
    BY DEF NewLease
  <2>2. now + LeaseTime <= now + LeaseTime
    BY LeaseAssumption
  <2>3. \A d \in Clients : lm'.byClient[d] =
           IF d = c THEN NewLease(c, x, now) ELSE s.byClient[d]
    BY <1>2, <2>1 DEF WithLease, ManagerState
  <2> QED
    BY <1>2, <2>1, <2>2, <2>3
<1>3. CASE \/ GetByClient(c) \/ CreateReuses(c) \/ CreateExhausted(c)
           \/ RenewNotFound(c) \/ CreateSpecificRefused(c, a)
  BY <1>1, <1>3, EntriesAreLeases, SweptConsistent, PreparedConsistent
     DEF GetByClient, CreateReuses, CreateExhausted, RenewNotFound,
         CreateSpecificRefused, lmVars
<1>4. CASE Release(c) \/ CreateSpecificLapses(c, a)
  BY <1>1, <1>4, RemoveLeasesFrame DEF Release, CreateSpecificLapses
<1>5. CASE CreateAllocates(c)
  <2> DEFINE s == Swept(lm, lm.byClient[c], now)
  <2>1. /\ s \in ManagerState
        /\ \A d \in Clients : s.byClient[d] \in {lm.byClient[d], NoLease}
    BY EntriesAreLeases, SweptConsistent
  <2>2. PICK x \in PoolRange : lm' = WithLease(s, NewLease(c, x, now))
    BY <1>5 DEF CreateAllocates
  <2>3. x \in Addresses
    BY PoolAssumption DEF PoolRange
  <2> HIDE DEF s
  <2> QED
    BY <1>2, <2>1, <2>2, <2>3
<1>6. CASE CreateSpecificLeases(c, a)
  <2> DEFINE s == Prepared(lm, c, a, now)
  <2>1. /\ s \in ManagerState
        /\ \A d \in Clients : s.byClient[d] \in {lm.byClient[d], NoLease}
        /\ lm' = WithLease(s, NewLease(c, a, now))
    BY <1>6, PreparedConsistent DEF CreateSpecificLeases
  <2> HIDE DEF s
  <2> QED
    BY <1>2, <2>1
<1>7. CASE Renew(c) \/ CreateSpecificRenews(c, a)
  <2>1. /\ lm' = Renewed(lm, c, now) /\ lm.byClient[c] # NoLease
    BY <1>7 DEF Renew, CreateSpecificRenews, HoldsActive, HasActive
  <2>2. \A d \in Clients : lm'.byClient[d] =
           IF d = c THEN [lm.byClient[c] EXCEPT !.end = now + LeaseTime]
           ELSE lm.byClient[d]
    BY <2>1 DEF Renewed, ManagerState
  <2>3. lm.byClient[c] \in Lease
    BY <2>1 DEF ManagerState
  <2>4. [lm.byClient[c] EXCEPT !.end = now + LeaseTime].end = now + LeaseTime
    BY <2>3 DEF Lease
  <2>5. now + LeaseTime <= now + LeaseTime
    BY LeaseAssumption
  <2> QED
    BY <2>2, <2>4, <2>5
<1> QED
  BY <1>3, <1>4, <1>5, <1>6, <1>7 DEF ClientCall, AddressCall

\* A lease that has not ended cannot have ended a step earlier.
LEMMA RunningBefore ==
    ASSUME LMInv, LMNext, NEW d \in Clients, HasActive(lm, d, now')
    PROVE  HasActive(lm, d, now)
<1>1. now' = now \/ now' = now + 1
  BY DEF LMNext, ClientCall, AddressCall, PoolCall, GetByClient, CreateReuses,
         CreateAllocates, CreateExhausted, Renew, RenewNotFound, Release,
         CreateSpecificRenews, CreateSpecificLapses, CreateSpecificLeases,
         CreateSpecificRefused, GetByIp, Exclude, Unexclude, ExpireLeases,
         Clear, Tick, lmVars
<1> QED
  BY <1>1 DEF LMInv, LMTypeOK, ManagerState, Lease, HasActive, Expired

\* The calls for no client in particular, except Clear, keep running leases.
LEMMA CleaningKeepsLeases ==
    ASSUME LMInv, NEW a \in Addresses, PoolCall(a) \/ ExpireLeases \/ Tick,
           NEW d \in Clients, HasActive(lm, d, now)
    PROVE  lm'.byClient[d] = lm.byClient[d]
<1> USE DEF LMInv, LMTypeOK, ManagerConsistent
<1>1. lm.byClient[d].client = d
  BY DEF HasActive, Consistent, IndexesAgree
<1>2. ASSUME NEW L \in SUBSET AllLeases(lm), \A l \in L : Expired(l, now),
             lm' = RemoveLeases(lm, L)
      PROVE  lm'.byClient[d] = lm.byClient[d]
  <2>1. \A l \in L : l.client # d
    BY <1>1, <1>2, IndexedLease DEF HasActive
  <2> QED
    BY <1>2, <2>1 DEF RemoveLeases
<1>3. CASE GetByIp(a)
  <2>1. {x \in {lm.byIp[a]} \ {NoLease} : Expired(x, now)} \subseteq AllLeases(lm)
    BY EntriesAreLeases
  <2> QED
    BY <1>2, <1>3, <2>1 DEF GetByIp, Swept
<1>4. CASE ExpireLeases
  BY <1>2, <1>4 DEF ExpireLeases
<1> QED
  BY <1>3, <1>4 DEF PoolCall, Exclude, Unexclude, Tick

\* Whoever a call is for, the running leases of all others stay as they are;
\* a call for nobody, except clear, keeps every one.
THEOREM LMOnlyOwnLeaseEnds == LMSpec => OnlyOwnLeaseEnds
<1>1. ASSUME LMInv, LMInv', LMNext, NEW c \in Clients,
             ClientCall(c) \/ \E a \in Addresses : AddressCall(c, a),
             NEW d \in Clients \ {c}
      PROVE  LeaseStands(d)
  <2>1. SUFFICES ASSUME HasActive(lm, d, now')
                 PROVE  lm'.byClient[d] = lm.byClient[d]
    BY DEF LeaseStands
  <2>2. HasActive(lm, d, now)
    BY <1>1, <2>1, RunningBefore
  <2>3. PICK a \in Addresses : ClientCall(c) \/ AddressCall(c, a)
    BY <1>1, PoolAssumption
  <2> QED
    BY <1>1, <2>2, <2>3, OthersKeepLease
<1>2. ASSUME LMInv, LMNext,
             (\E a \in Addresses : PoolCall(a)) \/ ExpireLeases \/ Tick,
             NEW d \in Clients
      PROVE  LeaseStands(d)
  <2>1. SUFFICES ASSUME HasActive(lm, d, now')
                 PROVE  lm'.byClient[d] = lm.byClient[d]
    BY DEF LeaseStands
  <2>2. HasActive(lm, d, now)
    BY <1>2, <2>1, RunningBefore
  <2>3. PICK a \in Addresses : PoolCall(a) \/ ExpireLeases \/ Tick
    BY <1>2, PoolAssumption
  <2> QED
    BY <1>2, <2>2, <2>3, CleaningKeepsLeases
<1>3. LMInv /\ LMInv' /\ [LMNext]_lmVars =>
        [/\ \A c \in Clients :
               \/ ClientCall(c)
               \/ \E a \in Addresses : AddressCall(c, a)
               => \A d \in Clients \ {c} : LeaseStands(d)
         /\ (\E a \in Addresses : PoolCall(a)) \/ ExpireLeases \/ Tick
               => \A d \in Clients : LeaseStands(d)]_lmVars
  BY <1>1, <1>2
<1> QED
  BY <1>3, LMInitInv, LMStepInv, PTL DEF LMSpec, OnlyOwnLeaseEnds
=============================================================================
