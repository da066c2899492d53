-------------------------- MODULE DHCPServerProofs --------------------------
(***************************************************************************)
(* Proofs about DHCPServer, for every pool, every set of clients, every    *)
(* lease time and every bound of the model.                                *)
(*                                                                         *)
(* Three inductive invariants build on each other:                         *)
(*                                                                         *)
(*   BaseInv     shapes, the lease manager, and where the DHCP thread is;  *)
(*   ControlInv  the control API, its tables and the memory behind them;   *)
(*   LeaseInv    what clients use, what the manager and the table know.    *)
(***************************************************************************)
EXTENDS DHCPServer, DHCPLeaseManagerProofs, SequenceTheorems

-----------------------------------------------------------------------------
(* The invariants.                                                         *)

\* What the DHCP thread knows where it is: the kind of packet it works on, and
\* that a client for which it looks for an address has no lease.
HandlerInv ==
    /\ thread.pc \in {"lookup", "renew", "acknowledge"} =>
          thread.packet.type = "REQUEST"
    /\ thread.pc = "decline" => thread.packet.type = "DECLINE"
    /\ thread.pc \in {"release", "delete"} =>
          thread.packet.type \in {"DECLINE", "RELEASE"}
    /\ thread.pc \in {"obtain", "reservation", "reserved", "requested",
                      "dynamic", "save"} =>
          thread.packet.type \in {"DISCOVER", "REQUEST"}
    /\ thread.pc \in {"reserved", "requested"} => thread.packet.ip \in Addresses
    /\ thread.pc \in {"reservation", "reserved", "requested", "dynamic"} =>
          myLease = NoLease
    /\ thread.pc = "down" => lm = EmptyManager /\ api.pc = "idle"

BaseInv == TypeOK /\ LMInv /\ HandlerInv

\* The rows of the two control tables are unique, as the dictionaries need it.
RowsUnique ==
    /\ \A c, d \in ReservedRows : c # d => ~RowsClash(c, d)
    /\ \A c \in ReservedRows : reservationRows[c] \notin exclusionRows

\* The addresses withheld by the pool, while the API works on one.
ExclusionsFollow ==
    /\ thread.pc # "down" =>
          excluded = exclusionRows
                     \cup (IF api.pc \in {"exclude-commit", "unexclude"}
                           THEN {api.ip} ELSE {})
    /\ api.pc \in {"exclude-commit", "unexclude"} => api.ip \notin exclusionRows

\* The reservations in memory, while the API works on one.
ReservationsFollow ==
    /\ thread.pc # "down" => \A c \in ReservedRows :
          RM!ReservationOf(reservations, c)
             = [client |-> CanonicalId[c], ip |-> reservationRows[c]]
    /\ \A k \in Keys : reservations.byClient[k] # NoLease =>
          /\ reservations.byClient[k].client = k
          /\ \/ \E c \in ReservedRows :
                   /\ CanonicalId[c] = k
                   /\ reservationRows[c] = reservations.byClient[k].ip
             \/ /\ api.pc \in {"reserve-commit", "unreserve"}
                /\ CanonicalId[api.client] = k
    /\ api.pc \in {"reserve-commit", "unreserve"} =>
          \A c \in ReservedRows : CanonicalId[c] # CanonicalId[api.client]
    /\ api.pc = "reserve-commit" =>
          RM!ReservationOf(reservations, api.client)
             = [client |-> CanonicalId[api.client], ip |-> api.ip]

\* What a handler of the API has read and still holds, although it commits
\* later: no other handler runs meanwhile.
ChecksHold ==
    /\ api.pc \in {"reserve", "reserve-commit"} => api.ip \notin exclusionRows
    /\ api.pc \in {"exclude", "exclude-pool", "exclude-commit"} =>
          ReservationRowOf(api.ip) = {}

\* The client and the address of a handler that works.
ApiInv ==
    /\ api.pc # "idle" => api.ip \in Addresses
    /\ api.pc \in {"reserve", "reserve-commit", "unreserve"} =>
          api.client \in Clients
    /\ api.pc \in {"exclude", "exclude-pool", "exclude-commit", "unexclude"} =>
          api.ip \in PoolRange

ControlInv ==
    /\ ApiInv
    /\ RowsUnique
    /\ ExclusionsFollow
    /\ ReservationsFollow
    /\ ChecksHold

\* Every packet that is on its way or at hand.
InFlight ==
    {inbox[i] : i \in DOMAIN inbox} \cup ({thread.packet} \ {NoPacket})

\* Only the last packet of a client can be one whose answer it waits for.
StaleInv ==
    /\ \A i, j \in DOMAIN inbox :
          i < j /\ inbox[i].client = inbox[j].client => inbox[i].stale
    /\ thread.packet # NoPacket /\ ~thread.packet.stale =>
          \A i \in DOMAIN inbox : inbox[i].client # me

\* A client with a packet on its way has no answer on its way, and no lease if
\* the packet gives it up.
PendingInv ==
    \A p \in InFlight :
        /\ p.client \in asked
        /\ \A r \in replies : r.client # p.client
        /\ p.type \in {"DECLINE", "RELEASE"} => bound[p.client] = NoLease

\* Leases name their client and do not run longer than the lease time.
EndsInv ==
    /\ \A c \in Clients : lm.byClient[c] # NoLease =>
          lm.byClient[c].end <= now + LeaseTime
    /\ \A c \in Clients : bound[c] # NoLease =>
          bound[c].client = c /\ bound[c].end > now
    /\ \A r \in replies : r.type = "ACK" =>
          /\ r.lease # NoLease
          /\ r.lease.client = r.client
          /\ r.lease.end <= now + LeaseTime

\* The leases in the answers on their way to c.
Acknowledged(c) ==
    {r.lease : r \in {x \in replies : x.type = "ACK" /\ x.client = c}}

\* The leases that a client uses, and those that it will use if it receives the
\* answer on its way in time.
Usable(c) ==
    {l \in {bound[c]} \cup Acknowledged(c) : l # NoLease /\ l.end > now}

\* The manager knows of the lease l of client c.
Backed(c, l) ==
    /\ lm.byClient[c] # NoLease
    /\ lm.byClient[c].ip = l.ip
    /\ lm.byClient[c].end >= l.end

\* Until the first crash the manager knows of every lease in use.
BackedInv ==
    crashes = 0 => \A c \in Clients : \A l \in Usable(c) : Backed(c, l)

\* The lease of a client with an answer to everything it sent, and the leases
\* that are such an answer.
Settled(c) == {l \in {bound[c]} : Quiet(c)} \cup Acknowledged(c)

\* The table has the address for one client only, and knows of every settled
\* lease.
RecordedInv ==
    /\ \A c, d \in Clients :
          c # d /\ leaseRows[c] # NoLease /\ leaseRows[d] # NoLease =>
             leaseRows[c].ip # leaseRows[d].ip
    /\ \A c \in Clients : \A l \in Settled(c) :
          /\ leaseRows[c] # NoLease
          /\ leaseRows[c].ip = l.ip
          /\ leaseRows[c].end >= l.end

\* No settled lease that runs is on an excluded address; when the API is about
\* to ask the pool, the manager knows of each such lease on the address.
WithheldInv ==
    \A c \in Clients : \A l \in Settled(c) : l.end > now =>
        /\ l.ip \notin excluded \cup exclusionRows
        /\ api.pc = "exclude-pool" /\ l.ip = api.ip => Backed(c, l)

LeaseInv ==
    /\ StaleInv
    /\ PendingInv
    /\ EndsInv
    /\ BackedInv
    /\ RecordedInv
    /\ WithheldInv

-----------------------------------------------------------------------------
(* Packets and the sequence of those on their way.                         *)

\* The packet that stands for none is no packet.
LEMMA NoPacketDistinct == NoPacket \notin Packet
<1>1. ASSUME NoPacket \in Packet PROVE FALSE
  <2>1. NoPacket.type \in PacketTypes
    BY <1>1 DEF Packet
  <2> QED
    BY <2>1 DEF NoPacket, PacketTypes
<1> QED
  BY <1>1

\* A packet that has become stale is the same packet otherwise.
LEMMA AgedPacket ==
    ASSUME NEW p \in Packet, NEW c
    PROVE  /\ Aged(p, c) \in Packet
           /\ Aged(p, c).type = p.type
           /\ Aged(p, c).client = p.client
           /\ Aged(p, c).ip = p.ip
           /\ p.stale => Aged(p, c).stale
           /\ p.client = c => Aged(p, c).stale
BY DEF Aged, Packet

\* A sequence that maps another one element by element.
LEMMA MappedSeq ==
    ASSUME NEW S, NEW T, NEW s \in Seq(S), NEW f,
           f \in [DOMAIN s -> T]
    PROVE  f \in Seq(T) /\ Len(f) = Len(s) /\ DOMAIN f = 1..Len(s)
<1>1. Len(s) \in Nat /\ DOMAIN s = 1..Len(s)
  BY LenProperties
<1>2. f \in Seq(T)
  BY <1>1, SeqDef
<1>3. Len(f) \in Nat /\ DOMAIN f = 1..Len(f)
  BY <1>2, LenProperties
<1>4. 1..Len(f) = 1..Len(s)
  BY <1>1, <1>3
<1>5. Len(f) = Len(s)
  BY <1>1, <1>3, <1>4
<1> QED
  BY <1>1, <1>2, <1>5

\* Taking the packet at i out moves those behind it forward by one.
LEMMA RemoveAtProperties ==
    ASSUME NEW S, NEW s \in Seq(S), NEW i \in DOMAIN s
    PROVE  /\ Seqs!RemoveAt(s, i) \in Seq(S)
           /\ Len(Seqs!RemoveAt(s, i)) = Len(s) - 1
           /\ \A j \in 1..(Len(s) - 1) :
                 Seqs!RemoveAt(s, i)[j] = IF j < i THEN s[j] ELSE s[j + 1]
<1> DEFINE u == SubSeq(s, 1, i - 1)
           v == SubSeq(s, i + 1, Len(s))
<1>1. Len(s) \in Nat /\ DOMAIN s = 1..Len(s) /\ \A j \in 1..Len(s) : s[j] \in S
  BY LenProperties, ElementOfSeq
<1>2. i \in 1..Len(s)
  BY <1>1
<1>3. u \in Seq(S) /\ Len(u) = i - 1 /\ \A j \in 1..(i - 1) : u[j] = s[j]
  <2>1. \A j \in 1..(i - 1) : s[j] \in S
    BY <1>1, <1>2
  <2> QED
    BY <1>1, <1>2, <2>1, SubSeqProperties, Z3
<1>4. /\ v \in Seq(S) /\ Len(v) = Len(s) - i
      /\ \A j \in 1..(Len(s) - i) : v[j] = s[i + j]
  <2>1. \A j \in (i + 1)..Len(s) : s[j] \in S
    BY <1>1, <1>2
  <2> QED
    BY <1>1, <1>2, <2>1, SubSeqProperties, Z3
<1>5. Seqs!RemoveAt(s, i) = u \o v
  BY DEF Seqs!RemoveAt
<1> HIDE DEF u, v
<1>6. /\ u \o v \in Seq(S) /\ Len(u \o v) = Len(u) + Len(v)
      /\ \A j \in 1..(Len(u) + Len(v)) :
            (u \o v)[j] = IF j <= Len(u) THEN u[j] ELSE v[j - Len(u)]
  BY <1>3, <1>4, ConcatProperties
<1>7. ASSUME NEW j \in 1..(Len(s) - 1)
      PROVE  (u \o v)[j] = IF j < i THEN s[j] ELSE s[j + 1]
  <2>1. CASE j < i
    BY <1>1, <1>2, <1>3, <1>4, <1>6, <2>1
  <2>2. CASE ~(j < i)
    <3>1. (u \o v)[j] = v[j - (i - 1)] /\ j - (i - 1) \in 1..(Len(s) - i)
      BY <1>1, <1>2, <1>3, <1>4, <1>6, <2>2
    <3>2. v[j - (i - 1)] = s[i + (j - (i - 1))]
      BY <1>4, <3>1
    <3>3. i + (j - (i - 1)) = j + 1
      BY <1>1, <1>2
    <3> QED
      BY <2>2, <3>1, <3>2, <3>3
  <2> QED
    BY <2>1, <2>2
<1> QED
  BY <1>1, <1>2, <1>3, <1>4, <1>5, <1>6, <1>7

\* What sending does to the packets on their way: those of the client become
\* stale, and the new one may be put behind them.
LEMMA SentPackets ==
    ASSUME inbox \in Seq(Packet), NEW c \in Clients, NEW type \in PacketTypes,
           NEW a \in Addresses \cup {NoAddress}, Send(c, type, a)
    PROVE  /\ inbox' \in Seq(Packet)
           /\ \A i \in 1..Len(inbox) : inbox'[i] = Aged(inbox[i], c)
           /\ \/ Len(inbox') = Len(inbox)
              \/ /\ thread.pc # "down" /\ Packets < MaxPackets
                 /\ Len(inbox') = Len(inbox) + 1
                 /\ inbox'[Len(inbox) + 1] = [type |-> type, client |-> c,
                                              ip |-> a, stale |-> FALSE]
<1> DEFINE p   == [type |-> type, client |-> c, ip |-> a, stale |-> FALSE]
           old == [i \in DOMAIN inbox |-> Aged(inbox[i], c)]
<1>1. p \in Packet
  BY DEF Packet
<1>2. \A i \in DOMAIN inbox : inbox[i] \in Packet
  BY LenProperties, ElementOfSeq
<1>3. old \in [DOMAIN inbox -> Packet]
  BY <1>2, AgedPacket
<1>4. old \in Seq(Packet) /\ Len(old) = Len(inbox) /\ DOMAIN inbox = 1..Len(inbox)
  BY <1>3, MappedSeq, LenProperties
<1>5. \A i \in 1..Len(inbox) : old[i] = Aged(inbox[i], c)
  BY <1>4
<1>6. \/ inbox' = old
      \/ /\ thread.pc # "down" /\ Packets < MaxPackets
         /\ inbox' = Append(old, p)
  BY DEF Send
<1> HIDE DEF old, p
<1>7. CASE inbox' = old
  BY <1>4, <1>5, <1>7
<1>8. CASE thread.pc # "down" /\ Packets < MaxPackets /\ inbox' = Append(old, p)
  <2>1. /\ inbox' \in Seq(Packet) /\ Len(inbox') = Len(inbox) + 1
        /\ \A i \in 1..Len(inbox) : inbox'[i] = old[i]
        /\ inbox'[Len(inbox) + 1] = p
    BY <1>1, <1>4, <1>8, AppendProperties, LenProperties
  <2> QED
    BY <1>5, <1>8, <2>1 DEF p
<1> QED
  BY <1>6, <1>7, <1>8

-----------------------------------------------------------------------------
(* BaseInv.                                                                *)

\* The parts of TypeOK that the network, the DHCP thread and the control API
\* can disturb.
NetworkOK ==
    /\ inbox \in Seq(Packet) /\ Packets <= MaxPackets
    /\ replies \subseteq Reply
    /\ bound \in [Clients -> Lease \cup {NoLease}]
    /\ asked \subseteq Clients

ThreadOK ==
    /\ thread \in [pc : ThreadAt, packet : Packet \cup {NoPacket}]
    /\ thread.packet = NoPacket <=> thread.pc \in {"idle", "down"}

TablesOK ==
    /\ RM!ReservationTypeOK
    /\ reservationRows \in [Clients -> Addresses \cup {NoAddress}]
    /\ exclusionRows \subseteq PoolRange
    /\ api \in [pc : ApiAt, client : Clients \cup {NoLease},
                ip : Addresses \cup {NoAddress}]

StateOK ==
    /\ LMTypeOK /\ TablesOK /\ ThreadOK /\ NetworkOK
    /\ leaseRows \in [Clients -> Lease \cup {NoLease}]
    /\ thread.pc \in {"save", "acknowledge"} => myLease # NoLease
    /\ crashes \in 0..MaxCrashes

\* TypeOK is these parts together, before and after a step.
LEMMA TypeParts == (TypeOK <=> StateOK) /\ (TypeOK' <=> StateOK')
BY DEF TypeOK, StateOK, TablesOK, ThreadOK, NetworkOK

\* The part of the state that BaseInv is about and a step of a client, of the
\* network or of the control API leaves alone.
LEMMA BaseUnchanged ==
    ASSUME BaseInv, UNCHANGED <<lm, excluded, now, leaseRows, crashes>>,
           thread'.pc = thread.pc,
           thread.packet # NoPacket =>
              /\ thread'.packet.type = thread.packet.type
              /\ thread'.packet.client = thread.packet.client
              /\ thread'.packet.ip = thread.packet.ip,
           thread.pc = "down" => api'.pc = "idle",
           TablesOK', ThreadOK', NetworkOK'
    PROVE  BaseInv'
<1>1. /\ LMTypeOK' /\ LMInv'
      /\ leaseRows' \in [Clients -> Lease \cup {NoLease}]
      /\ crashes' \in 0..MaxCrashes
  BY DEF BaseInv, TypeOK, LMTypeOK, LMInv, ManagerConsistent, Consistent,
         ExcludedNotLeased
<1>2. thread.pc \notin {"idle", "down"} =>
         /\ thread'.packet.type = thread.packet.type
         /\ me' = me /\ myLease' = myLease
         /\ thread'.packet.ip = thread.packet.ip
  BY DEF BaseInv, TypeOK, me, myLease
<1>3. HandlerInv'
  BY <1>2 DEF BaseInv, HandlerInv
<1>4. (thread.pc \in {"save", "acknowledge"} => myLease # NoLease)'
  BY <1>2 DEF BaseInv, TypeOK
<1> QED
  BY <1>1, <1>3, <1>4, TypeParts DEF BaseInv, StateOK

\* Sending a packet.
LEMMA SendBase ==
    ASSUME BaseInv, NEW c \in Clients, NEW type \in PacketTypes,
           NEW a \in Addresses \cup {NoAddress}, Send(c, type, a),
           bound' \in [Clients -> Lease \cup {NoLease}]
    PROVE  BaseInv'
<1>1. ThreadOK /\ NetworkOK /\ TablesOK
  BY TypeParts DEF BaseInv, StateOK
<1>2. /\ inbox' \in Seq(Packet)
      /\ \/ Len(inbox') = Len(inbox)
         \/ Packets < MaxPackets /\ Len(inbox') = Len(inbox) + 1
  BY <1>1, SentPackets DEF NetworkOK
<1>3. /\ thread' = IF thread.packet # NoPacket
                   THEN [thread EXCEPT !.packet = Aged(thread.packet, c)]
                   ELSE thread
      /\ replies' \subseteq replies /\ asked' = asked \cup {c}
      /\ UNCHANGED <<memory, now, tables, api, crashes>>
  BY DEF Send
<1>4. /\ thread'.pc = thread.pc
      /\ thread.packet = NoPacket => thread'.packet = NoPacket
      /\ thread.packet # NoPacket =>
            /\ thread'.packet \in Packet
            /\ thread'.packet.type = thread.packet.type
            /\ thread'.packet.client = thread.packet.client
            /\ thread'.packet.ip = thread.packet.ip
  BY <1>1, <1>3, AgedPacket DEF ThreadOK
<1>5. ThreadOK'
  BY <1>1, <1>3, <1>4, NoPacketDistinct DEF ThreadOK
<1>6. Packets' <= MaxPackets
  BY <1>1, <1>2, <1>4, NoPacketDistinct, LenProperties, ServerAssumption
     DEF Packets, NetworkOK
<1>7. NetworkOK' /\ TablesOK'
  BY <1>1, <1>2, <1>3, <1>6
     DEF NetworkOK, TablesOK, tables, memory, RM!ReservationTypeOK
<1>8. thread.pc = "down" => api'.pc = "idle"
  BY <1>3 DEF BaseInv, HandlerInv
<1> QED
  BY <1>3, <1>4, <1>5, <1>7, <1>8, BaseUnchanged DEF memory, tables

\* A step of a client: it sends, or takes an answer.
LEMMA ClientBase ==
    ASSUME BaseInv, ClientStep
    PROVE  BaseInv'
<1>0. bound \in [Clients -> Lease \cup {NoLease}]
  BY DEF BaseInv, TypeOK
<1>1. ASSUME NEW c \in Clients, NEW a \in Addresses \cup {NoAddress},
             SendDiscover(c, a) \/ SendRequest(c, a) \/ SendDecline(c, a)
      PROVE  BaseInv'
  BY <1>0, <1>1, SendBase DEF SendDiscover, SendRequest, SendDecline, PacketTypes
<1>2. ASSUME NEW c \in Clients, SendRelease(c) PROVE BaseInv'
  BY <1>0, <1>2, SendBase DEF SendRelease, PacketTypes
<1>3. ASSUME NEW r \in replies, ReceiveReply(r) PROVE BaseInv'
  <2>1. ThreadOK /\ NetworkOK /\ TablesOK /\ r \in Reply
    BY TypeParts DEF BaseInv, StateOK, NetworkOK
  <2>2. UNCHANGED <<memory, now, tables, thread, api, inbox, crashes>>
    BY <1>3 DEF ReceiveReply
  <2>3. NetworkOK'
    BY <1>3, <2>1, <2>2 DEF ReceiveReply, NetworkOK, Reply, Packets
  <2>4. ThreadOK' /\ TablesOK'
    BY <2>1, <2>2 DEF ThreadOK, TablesOK, memory, tables, RM!ReservationTypeOK
  <2> QED
    BY <2>2, <2>3, <2>4, BaseUnchanged DEF memory, tables, BaseInv, HandlerInv
<1> QED
  BY <1>1, <1>2, <1>3 DEF ClientStep

\* Every step of the DHCP thread leaves the control API, its tables and the
\* clients alone, and keeps the exclusions and the clock.
LEMMA ServerFrame ==
    ASSUME ServerStep
    PROVE  /\ UNCHANGED elsewhere
           /\ UNCHANGED <<excluded, now>>
           /\ thread.pc \notin {"idle", "down"} => inbox' = inbox
BY DEF ServerStep, Receive, LookupForRequest, RenewForRequest, ObtainExisting,
       LookupReservation, AssignReserved, AssignRequested, AssignDynamic,
       SaveObtained, SaveAndAcknowledge, LookupForDecline, ReleaseLease,
       DeleteRow, GetByClient, Renew, RenewNotFound, AssignSpecific,
       CreateSpecificLeases, CreateSpecificRefused, CreateAllocates,
       CreateExhausted, Release

\* Taking a packet from the socket.
LEMMA ReceiveBase ==
    ASSUME BaseInv, Receive
    PROVE  BaseInv'
<1>1. ThreadOK /\ NetworkOK /\ TablesOK /\ StateOK
  BY TypeParts DEF BaseInv, StateOK
<1>2. PICK i \in DOMAIN inbox :
        /\ inbox' = Seqs!RemoveAt(inbox, i)
        /\ thread' = [pc |-> FirstStep[inbox[i].type], packet |-> inbox[i]]
  BY DEF Receive
<1>3. /\ thread.pc = "idle"
      /\ UNCHANGED <<lm, excluded, now, leaseRows, replies, elsewhere>>
  BY DEF Receive
<1>4. inbox[i] \in Packet
  BY <1>1, LenProperties, ElementOfSeq DEF NetworkOK
<1>5. inbox' \in Seq(Packet) /\ Len(inbox') = Len(inbox) - 1
  BY <1>1, <1>2, RemoveAtProperties DEF NetworkOK
<1>6. /\ thread'.packet = inbox[i]
      /\ \/ inbox[i].type = "DISCOVER" /\ thread'.pc = "obtain"
         \/ inbox[i].type = "REQUEST" /\ thread'.pc = "lookup"
         \/ inbox[i].type = "DECLINE" /\ thread'.pc = "decline"
         \/ inbox[i].type = "RELEASE" /\ thread'.pc = "release"
  BY <1>2, <1>4 DEF Packet, PacketTypes, FirstStep
<1>7. ThreadOK'
  BY <1>2, <1>4, <1>6, NoPacketDistinct DEF ThreadOK, ThreadAt
<1>8. Packets' <= MaxPackets
  BY <1>1, <1>3, <1>4, <1>5, <1>6, NoPacketDistinct, LenProperties,
     ServerAssumption DEF Packets, NetworkOK, ThreadOK
<1>9. NetworkOK' /\ TablesOK' /\ leaseRows' = leaseRows /\ crashes' = crashes
  BY <1>1, <1>3, <1>5, <1>8
     DEF NetworkOK, TablesOK, elsewhere, RM!ReservationTypeOK
<1>10. HandlerInv' /\ thread'.pc \notin {"save", "acknowledge"}
  BY <1>6 DEF HandlerInv
<1>11. LMTypeOK' /\ LMInv'
  BY <1>3 DEF BaseInv, TypeOK, LMTypeOK, LMInv, ManagerConsistent, Consistent,
              ExcludedNotLeased
<1> QED
  BY <1>1, <1>7, <1>9, <1>10, <1>11, TypeParts DEF BaseInv, StateOK

\* A step on the packet at hand that is known to keep the manager consistent,
\* the shape of the table and of the replies, and what the thread knows.
LEMMA HandlerBase ==
    ASSUME BaseInv, ServerStep, thread.pc \notin {"idle", "down"}, LMInv',
           leaseRows' \in [Clients -> Lease \cup {NoLease}],
           replies' \subseteq Reply,
           ThreadOK', HandlerInv',
           thread'.pc \in {"save", "acknowledge"} => myLease' # NoLease
    PROVE  BaseInv'
<1>1. ThreadOK /\ NetworkOK /\ TablesOK /\ StateOK
  BY TypeParts DEF BaseInv, StateOK
<1>2. UNCHANGED elsewhere /\ inbox' = inbox
  BY ServerFrame
<1>3. Packets' <= MaxPackets
  BY <1>1, <1>2, LenProperties, ServerAssumption
     DEF Packets, NetworkOK, ThreadOK
<1>4. NetworkOK' /\ TablesOK' /\ crashes' = crashes
  BY <1>1, <1>2, <1>3 DEF NetworkOK, TablesOK, elsewhere, RM!ReservationTypeOK
<1>5. LMTypeOK'
  BY DEF LMInv
<1> QED
  BY <1>1, <1>4, <1>5, TypeParts DEF BaseInv, StateOK

\* The thread is done with its packet, or goes on with it.
LEMMA IdleThread ==
    ASSUME thread' = ThreadIdle
    PROVE  /\ ThreadOK' /\ HandlerInv' /\ thread'.pc = "idle"
           /\ thread'.packet = NoPacket
BY DEF ThreadIdle, ThreadOK, ThreadAt, HandlerInv

\* The thread goes on with the same packet.
LEMMA GoneTo ==
    ASSUME ThreadOK, thread.packet # NoPacket,
           NEW pc \in ThreadAt \ {"idle", "down"}, Goto(pc)
    PROVE  /\ ThreadOK' /\ thread'.pc = pc /\ thread'.packet = thread.packet
           /\ me' = me
BY DEF Goto, ThreadOK, me

\* An answer is well formed, for an ACK with the lease of the client.
LEMMA AnswerShape ==
    ASSUME replies \subseteq Reply, me \in Clients, NEW type \in {"ACK", "NAK"},
           NEW l \in Lease \cup {NoLease}, Answers(type, l)
    PROVE  replies' \subseteq Reply /\ thread' = ThreadIdle
BY DEF Answers, Reply

\* The packet at hand, while the thread works on one.
LEMMA AtHand ==
    ASSUME BaseInv, thread.pc \notin {"idle", "down"}
    PROVE  /\ thread.packet # NoPacket /\ thread.packet \in Packet
           /\ me \in Clients
           /\ thread.packet.ip \in Addresses \cup {NoAddress}
           /\ ThreadOK /\ replies \subseteq Reply
           /\ leaseRows \in [Clients -> Lease \cup {NoLease}]
           /\ PoolStart \in Addresses
           /\ myLease \in Lease \cup {NoLease}
           /\ myLease # NoLease => myLease.client = me /\ myLease.ip \in PoolRange
<1>1. /\ ThreadOK /\ NetworkOK
      /\ leaseRows \in [Clients -> Lease \cup {NoLease}]
  BY TypeParts DEF BaseInv, StateOK
<1>2. thread.packet # NoPacket /\ thread.packet \in Packet
  BY <1>1 DEF ThreadOK
<1>3. me \in Clients /\ thread.packet.ip \in Addresses \cup {NoAddress}
  BY <1>2 DEF me, Packet
<1>4. myLease \in Lease \cup {NoLease}
  BY <1>3 DEF myLease, BaseInv, LMInv, LMTypeOK, ManagerState
<1>5. myLease # NoLease => myLease.client = me /\ myLease.ip \in PoolRange
  BY <1>3, IndexedLease
     DEF myLease, BaseInv, LMInv, LMTypeOK, ManagerConsistent, AllLeases,
         Consistent, IndexesAgree
<1> QED
  BY <1>1, <1>2, <1>3, <1>4, <1>5, PoolAssumption DEF NetworkOK

\* The steps in which the handler looks at the manager or at the reservations.
LEMMA LookupBase ==
    ASSUME BaseInv,
           \/ LookupForRequest \/ ObtainExisting \/ LookupForDecline
           \/ LookupReservation
    PROVE  BaseInv'
<1>1. ServerStep /\ thread.pc \notin {"idle", "down"} /\ UNCHANGED leaseRows
  BY DEF ServerStep, LookupForRequest, ObtainExisting, LookupForDecline,
         LookupReservation
<1> USE AtHand, <1>1
<1>2. replies' = replies
  BY DEF LookupForRequest, ObtainExisting, LookupForDecline, LookupReservation,
         Silent
<1>3. GetByClient(me) => LMInv' /\ lm'.byClient[me] =
                            IF HasActive(lm, me, now) THEN myLease ELSE NoLease
  BY EmptyingCalls, OwnLeaseAfter DEF BaseInv, myLease
<1>4. CASE LookupForRequest
  <2>1. CASE HasActive(lm, me, now)
    <3>1. thread.pc = "lookup" /\ GetByClient(me) /\ Goto("renew")
      BY <1>4, <2>1 DEF LookupForRequest
    <3>2. /\ ThreadOK' /\ thread'.pc = "renew"
          /\ thread'.packet = thread.packet
      BY <3>1, GoneTo DEF ThreadAt
    <3>3. HandlerInv'
      BY <3>1, <3>2 DEF BaseInv, HandlerInv
    <3> QED
      BY <1>2, <1>3, <3>1, <3>2, <3>3, HandlerBase
  <2>2. CASE ~HasActive(lm, me, now)
    <3>1. thread.pc = "lookup" /\ GetByClient(me) /\ Goto("obtain")
      BY <1>4, <2>2 DEF LookupForRequest
    <3>2. /\ ThreadOK' /\ thread'.pc = "obtain"
          /\ thread'.packet = thread.packet
      BY <3>1, GoneTo DEF ThreadAt
    <3>3. HandlerInv'
      BY <3>1, <3>2 DEF BaseInv, HandlerInv
    <3> QED
      BY <1>2, <1>3, <3>1, <3>2, <3>3, HandlerBase
  <2> QED
    BY <2>1, <2>2
<1>5. CASE ObtainExisting
  <2>1. CASE HasActive(lm, me, now)
    <3>1. thread.pc = "obtain" /\ GetByClient(me) /\ Goto("save")
      BY <1>5, <2>1 DEF ObtainExisting
    <3>2. /\ ThreadOK' /\ thread'.pc = "save" /\ me' = me
          /\ thread'.packet = thread.packet
      BY <3>1, GoneTo DEF ThreadAt
    <3>3. HandlerInv' /\ myLease' # NoLease
      BY <1>3, <2>1, <3>1, <3>2 DEF BaseInv, HandlerInv, HasActive, myLease
    <3> QED
      BY <1>2, <1>3, <3>1, <3>2, <3>3, HandlerBase
  <2>2. CASE ~HasActive(lm, me, now)
    <3>1. thread.pc = "obtain" /\ GetByClient(me) /\ Goto("reservation")
      BY <1>5, <2>2 DEF ObtainExisting
    <3>2. /\ ThreadOK' /\ thread'.pc = "reservation" /\ me' = me
          /\ thread'.packet = thread.packet
      BY <3>1, GoneTo DEF ThreadAt
    <3>3. HandlerInv'
      BY <1>3, <2>2, <3>1, <3>2 DEF BaseInv, HandlerInv, myLease
    <3> QED
      BY <1>2, <1>3, <3>1, <3>2, <3>3, HandlerBase
  <2> QED
    BY <2>1, <2>2
<1>6. CASE LookupForDecline
  <2>1. thread.pc = "decline" /\ GetByClient(me)
        /\ (Goto("release") \/ thread' = ThreadIdle)
    BY <1>6 DEF LookupForDecline, Silent
  <2>2. CASE thread' = ThreadIdle
    BY <1>2, <1>3, <2>1, <2>2, IdleThread, HandlerBase
  <2>3. CASE Goto("release")
    <3>1. /\ ThreadOK' /\ thread'.pc = "release"
          /\ thread'.packet = thread.packet
      BY <2>3, GoneTo DEF ThreadAt
    <3>2. HandlerInv'
      BY <2>1, <3>1 DEF BaseInv, HandlerInv
    <3> QED
      BY <1>2, <1>3, <2>1, <3>1, <3>2, HandlerBase
  <2> QED
    BY <2>1, <2>2, <2>3
<1>7. CASE LookupReservation
  <2> DEFINE v == RM!ReservationOf(reservations, me)
  <2>1. thread.pc = "reservation" /\ UNCHANGED <<lm, excluded, now>>
    BY <1>7 DEF LookupReservation
  <2>2. LMInv'
    BY <2>1 DEF BaseInv, LMInv, LMTypeOK, ManagerConsistent, Consistent,
                ExcludedNotLeased
  <2>3. CASE v # NoLease
    <3>1. v.ip \in Addresses
      BY <2>3, ServerAssumption
         DEF BaseInv, TypeOK, RM!ReservationTypeOK, RM!ReservationState,
             RM!Reservation, RM!ReservationOf
    <3>2. thread' = [thread EXCEPT !.pc = "reserved", !.packet.ip = v.ip]
      BY <1>7, <2>3 DEF LookupReservation
    <3> HIDE DEF v
    <3>3. /\ thread'.pc = "reserved"
          /\ thread' = [pc |-> "reserved", packet |-> thread'.packet]
          /\ thread'.packet = [thread.packet EXCEPT !.ip = v.ip]
      BY <3>2 DEF ThreadOK
    <3>4. /\ thread'.packet \in Packet /\ thread'.packet.client = me
          /\ thread'.packet.type = thread.packet.type
          /\ thread'.packet.ip = v.ip
      BY <3>1, <3>3 DEF Packet, me
    <3>5. ThreadOK'
      BY <3>3, <3>4, NoPacketDistinct DEF ThreadOK, ThreadAt
    <3>6. HandlerInv'
      BY <2>1, <3>1, <3>3, <3>4 DEF BaseInv, HandlerInv, myLease, me
    <3> QED
      BY <1>2, <2>2, <3>3, <3>5, <3>6, HandlerBase
  <2>4. CASE v = NoLease
    <3>1. \/ thread.packet.ip = NoAddress /\ Goto("dynamic")
          \/ thread.packet.ip # NoAddress /\ Goto("requested")
      BY <1>7, <2>4 DEF LookupReservation
    <3>2. /\ ThreadOK' /\ me' = me /\ thread'.packet = thread.packet
          /\ \/ thread'.pc = "dynamic"
             \/ thread.packet.ip # NoAddress /\ thread'.pc = "requested"
      BY <3>1, GoneTo DEF ThreadAt
    <3>3. HandlerInv'
      BY <2>1, <3>2 DEF BaseInv, HandlerInv, myLease
    <3> QED
      BY <1>2, <2>2, <3>2, <3>3, HandlerBase
  <2> QED
    BY <2>3, <2>4
<1> QED
  BY <1>4, <1>5, <1>6, <1>7

\* The steps in which the handler makes, renews or ends a lease.
LEMMA AssignBase ==
    ASSUME BaseInv,
           \/ AssignReserved \/ AssignRequested \/ AssignDynamic
           \/ RenewForRequest \/ ReleaseLease
    PROVE  BaseInv'
<1>1. ServerStep /\ thread.pc \notin {"idle", "down"} /\ UNCHANGED leaseRows
  BY DEF ServerStep, AssignReserved, AssignRequested, AssignDynamic,
         RenewForRequest, ReleaseLease
<1> USE AtHand, <1>1
<1> DEFINE a == thread.packet.ip
<1>2. ASSUME thread' = ThreadIdle, replies' \subseteq Reply, LMInv'
      PROVE  BaseInv'
  BY <1>2, IdleThread, HandlerBase
<1>3. ObtainFails => thread' = ThreadIdle /\ replies' \subseteq Reply
  BY AnswerShape DEF ObtainFails, Silent
<1>4. ASSUME LMInv', NEW x \in PoolRange,
             lm'.byClient[me] = NewLease(me, x, now),
             thread.pc \in {"reserved", "requested", "dynamic"},
             Goto("save"), UNCHANGED replies
      PROVE  BaseInv'
  <2>1. /\ ThreadOK' /\ thread'.pc = "save" /\ me' = me
        /\ thread'.packet = thread.packet
    BY <1>4, GoneTo DEF ThreadAt
  <2>2. NewLease(me, x, now) # NoLease
    BY NewLeaseFields, PoolAssumption DEF PoolRange, BaseInv, LMInv, LMTypeOK
  <2>3. HandlerInv' /\ myLease' # NoLease
    BY <1>4, <2>1, <2>2 DEF BaseInv, HandlerInv, myLease
  <2> QED
    BY <1>4, <2>1, <2>3, HandlerBase
<1>5. CASE AssignReserved \/ AssignRequested
  <2>1. a \in Addresses /\ thread.pc \in {"reserved", "requested"}
    BY <1>5 DEF BaseInv, HandlerInv, AssignReserved, AssignRequested
  <2>2. CASE AssignSpecific
    <3>1. CreateSpecificLeases(me, a) /\ Goto("save") /\ UNCHANGED replies
      BY <2>2 DEF AssignSpecific
    <3>2. LMInv' /\ \E x \in PoolRange : lm'.byClient[me] = NewLease(me, x, now)
      BY <2>1, <3>1, LeasingCalls, NewLeaseMade DEF BaseInv
    <3> QED
      BY <1>4, <2>1, <3>1, <3>2
  <2>3. CASE CreateSpecificRefused(me, a) /\ ~AssignSpecific
    <3>1. LMInv' /\ lm'.byClient[me] = NoLease
      BY <2>1, <2>3, EmptyingCalls, OwnLeaseAfter DEF BaseInv
    <3>2. CASE AssignReserved
      BY <1>2, <1>3, <2>3, <3>1, <3>2 DEF AssignReserved
    <3>3. CASE AssignRequested
      <4>1. Goto("dynamic") /\ UNCHANGED replies /\ thread.pc = "requested"
        BY <2>3, <3>3 DEF AssignRequested
      <4>2. /\ ThreadOK' /\ thread'.pc = "dynamic" /\ me' = me
            /\ thread'.packet = thread.packet
        BY <4>1, GoneTo DEF ThreadAt
      <4>3. HandlerInv'
        BY <3>1, <4>1, <4>2 DEF BaseInv, HandlerInv, myLease
      <4> QED
        BY <3>1, <4>1, <4>2, <4>3, HandlerBase
    <3> QED
      BY <1>5, <3>2, <3>3
  <2> QED
    BY <1>5, <2>2, <2>3 DEF AssignReserved, AssignRequested
<1>6. CASE AssignDynamic
  <2>1. CASE CreateAllocates(me) /\ Goto("save") /\ UNCHANGED replies
    <3>1. LMInv' /\ \E x \in PoolRange : lm'.byClient[me] = NewLease(me, x, now)
      BY <2>1, LeasingCalls, NewLeaseMade DEF BaseInv
    <3> QED
      BY <1>4, <1>6, <2>1, <3>1 DEF AssignDynamic
  <2>2. CASE CreateExhausted(me) /\ ObtainFails
    BY <1>2, <1>3, <2>2, EmptyingCalls DEF BaseInv
  <2> QED
    BY <1>6, <2>1, <2>2 DEF AssignDynamic
<1>7. CASE RenewForRequest
  <2>1. CASE Renew(me) /\ Goto("acknowledge") /\ UNCHANGED replies
    <3>1. LMInv'
      BY <2>1, RenewingCalls DEF BaseInv
    <3>2. /\ ThreadOK' /\ thread'.pc = "acknowledge" /\ me' = me
          /\ thread'.packet = thread.packet
      BY <2>1, GoneTo DEF ThreadAt
    <3>3. myLease' # NoLease
      <4>1. lm'.byClient[me] = [myLease EXCEPT !.end = now + LeaseTime]
        BY <2>1, OwnLeaseAfter DEF BaseInv, myLease
      <4>2. myLease \in Lease
        BY <2>1 DEF Renew, HasActive, myLease
      <4>3. lm'.byClient[me] \in Lease
        BY <4>1, <4>2, LeaseAssumption DEF Lease, BaseInv, LMInv, LMTypeOK
      <4> QED
        BY <3>2, <4>3, LeaseAssumption DEF Lease, myLease
    <3>4. HandlerInv'
      BY <1>7, <3>2 DEF BaseInv, HandlerInv, RenewForRequest
    <3> QED
      BY <2>1, <3>1, <3>2, <3>3, <3>4, HandlerBase
  <2>2. CASE RenewNotFound(me) /\ Answers("NAK", NoLease)
    BY <1>2, <2>2, EmptyingCalls, AnswerShape DEF BaseInv
  <2> QED
    BY <1>7, <2>1, <2>2 DEF RenewForRequest
<1>8. CASE ReleaseLease
  <2>1. Release(me) /\ Goto("delete") /\ UNCHANGED replies
        /\ thread.pc = "release"
    BY <1>8 DEF ReleaseLease
  <2>2. LMInv'
    BY <2>1, EmptyingCalls DEF BaseInv
  <2>3. /\ ThreadOK' /\ thread'.pc = "delete" /\ thread'.packet = thread.packet
    BY <2>1, GoneTo DEF ThreadAt
  <2>4. HandlerInv'
    BY <2>1, <2>3 DEF BaseInv, HandlerInv
  <2> QED
    BY <2>1, <2>2, <2>3, <2>4, HandlerBase
<1> QED
  BY <1>5, <1>6, <1>7, <1>8

\* The steps in which the handler writes the table and may answer.
LEMMA TableBase ==
    ASSUME BaseInv, SaveObtained \/ SaveAndAcknowledge \/ DeleteRow
    PROVE  BaseInv'
<1>1. ServerStep /\ thread.pc \notin {"idle", "down"}
      /\ UNCHANGED <<lm, excluded, now>>
  BY DEF ServerStep, SaveObtained, SaveAndAcknowledge, DeleteRow
<1> USE AtHand, <1>1
<1>2. LMInv'
  BY DEF BaseInv, LMInv, LMTypeOK, ManagerConsistent, Consistent,
         ExcludedNotLeased
<1>3. ASSUME thread' = ThreadIdle, replies' \subseteq Reply,
             leaseRows' \in [Clients -> Lease \cup {NoLease}]
      PROVE  BaseInv'
  BY <1>2, <1>3, IdleThread, HandlerBase
<1>4. thread.pc \in {"save", "acknowledge"} => myLease \in Lease
  BY DEF BaseInv, TypeOK
<1>5. Saved(myLease) \/ SaveFails(myLease) =>
         leaseRows' \in [Clients -> Lease \cup {NoLease}]
  BY DEF Saved, SaveFails
<1>6. CASE SaveObtained
  <2>1. CASE Saved(myLease) /\ Goto("acknowledge") /\ UNCHANGED replies
             /\ thread.packet.type = "REQUEST"
    <3>1. /\ ThreadOK' /\ thread'.pc = "acknowledge" /\ me' = me
          /\ thread'.packet = thread.packet
      BY <2>1, GoneTo DEF ThreadAt
    <3>2. HandlerInv' /\ myLease' # NoLease
      BY <1>4, <1>6, <2>1, <3>1 DEF BaseInv, TypeOK, HandlerInv, SaveObtained,
                                    myLease
    <3> QED
      BY <1>2, <1>5, <2>1, <3>1, <3>2, HandlerBase
  <2>2. CASE (Saved(myLease) \/ SaveFails(myLease)) /\ Silent
    BY <1>3, <1>5, <2>2 DEF Silent
  <2> QED
    BY <1>6, <2>1, <2>2 DEF SaveObtained
<1>7. CASE SaveAndAcknowledge
  <2>1. CASE Saved(myLease) /\ Answers("ACK", myLease)
    BY <1>3, <1>5, <2>1, AnswerShape
  <2>2. CASE SaveFails(myLease) /\ Silent
    BY <1>3, <1>5, <2>2 DEF Silent
  <2> QED
    BY <1>7, <2>1, <2>2 DEF SaveAndAcknowledge
<1>8. CASE DeleteRow
  BY <1>3, <1>8 DEF DeleteRow, Silent
<1> QED
  BY <1>6, <1>7, <1>8

\* Every step of the DHCP thread.
LEMMA ServerBase ==
    ASSUME BaseInv, ServerStep
    PROVE  BaseInv'
BY ReceiveBase, LookupBase, AssignBase, TableBase DEF ServerStep

\* The manager is left alone, and so is all that BaseInv says of it.
LEMMA ManagerUnchanged ==
    ASSUME LMInv, lm' = lm, now' \in Nat, excluded' \subseteq PoolRange,
           \A a \in excluded' : lm.byIp[a] = NoLease
    PROVE  LMInv'
BY DEF LMInv, LMTypeOK, ManagerConsistent, Consistent, ExcludedNotLeased

\* A step of the control API.
LEMMA ApiBase ==
    ASSUME BaseInv, ApiInv, ApiBegins \/ ApiContinues
    PROVE  BaseInv'
<1>1. StateOK /\ TablesOK /\ ThreadOK /\ NetworkOK /\ LMInv
  BY TypeParts DEF BaseInv, StateOK
<1>2. UNCHANGED <<lm, now, leaseRows, thread, network, crashes>>
  BY DEF ApiBegins, ApiContinues, ReserveRead, ExcludeRead,
         RemoveReservationRow, RemoveExclusionRow, ApiCall, memory, ReserveAdd,
         ReserveCommit, ExcludeCheck, ExcludeInPool, ExcludeCommit,
         RemoveReservationEntry, RemoveExclusionEntry, notControls, Exclude,
         Unexclude
<1>3. thread.pc # "down"
  BY DEF BaseInv, HandlerInv, ApiBegins, ApiContinues, ReserveRead,
         ExcludeRead, RemoveReservationRow, RemoveExclusionRow, ApiCall,
         ReserveAdd, ReserveCommit, ExcludeCheck, ExcludeInPool,
         ExcludeCommit, RemoveReservationEntry, RemoveExclusionEntry
<1>4. ThreadOK' /\ NetworkOK' /\ HandlerInv'
      /\ (thread.pc \in {"save", "acknowledge"} => myLease # NoLease)'
  BY <1>1, <1>2, <1>3
     DEF ThreadOK, NetworkOK, HandlerInv, BaseInv, StateOK, network, Packets,
         myLease, me
<1>5. ASSUME excluded' = excluded PROVE LMInv'
  BY <1>1, <1>2, <1>5, ManagerUnchanged DEF LMInv, LMTypeOK, ExcludedNotLeased
<1>6. ASSUME LMInv', TablesOK' PROVE BaseInv'
  BY <1>1, <1>2, <1>4, <1>6, TypeParts DEF BaseInv, StateOK, LMInv
<1>7. ASSUME NEW pc \in ApiAt, NEW c \in Clients \cup {NoLease},
             NEW a \in Addresses, ApiCall(pc, c, a),
             reservationRows' \in [Clients -> Addresses \cup {NoAddress}],
             exclusionRows' \subseteq PoolRange
      PROVE  BaseInv'
  <2>1. TablesOK' /\ excluded' = excluded
    BY <1>1, <1>7 DEF ApiCall, TablesOK, memory, RM!ReservationTypeOK
  <2> QED
    BY <1>5, <1>6, <2>1
<1>8. CASE ApiBegins
  <2>1. ASSUME NEW c \in Clients, ReserveRead(c) \/ ExcludeRead(c)
        PROVE  BaseInv'
    <3>1. leaseRows[c].ip \in Addresses
      BY <1>1, <2>1 DEF StateOK, Lease, ReserveRead, ExcludeRead
    <3> QED
      BY <1>1, <1>7, <2>1, <3>1 DEF ReserveRead, ExcludeRead, ApiAt, TablesOK
  <2>2. ASSUME NEW c \in Clients, RemoveReservationRow(c) PROVE BaseInv'
    BY <1>1, <1>7, <2>2 DEF RemoveReservationRow, ApiAt, TablesOK
  <2>3. ASSUME NEW a \in PoolRange, RemoveExclusionRow(a) PROVE BaseInv'
    <3>1. a \in Addresses
      BY PoolAssumption DEF PoolRange
    <3> QED
      BY <1>1, <1>7, <2>3, <3>1 DEF RemoveExclusionRow, ApiAt, TablesOK
  <2> QED
    BY <1>8, <2>1, <2>2, <2>3 DEF ApiBegins
<1>9. ASSUME NEW pc \in ApiAt,
             api' = [api EXCEPT !.pc = pc] \/ api' = ApiIdle
      PROVE  api' \in [pc : ApiAt, client : Clients \cup {NoLease},
                       ip : Addresses \cup {NoAddress}]
  BY <1>1, <1>9 DEF TablesOK, ApiIdle, ApiAt
<1>10. ASSUME NEW c \in Clients
       PROVE  /\ CanonicalId[c] \in Keys
              /\ RM!RemoveByClient(c) => RM!ReservationTypeOK'
  BY <1>1, ServerAssumption
     DEF TablesOK, RM!RemoveByClient, RM!ReservationTypeOK,
         RM!ReservationState, RM!Reservation, RM!Dropped, RM!ReservationOf
<1>11. UNCHANGED reservations => RM!ReservationTypeOK'
  BY <1>1 DEF TablesOK, RM!ReservationTypeOK
<1>12. CASE ReserveAdd
  <2>1. api.client \in Clients /\ api.ip \in Addresses
    BY <1>12 DEF ApiInv, ReserveAdd
  <2>2. RM!Add(api.client, api.ip) => RM!ReservationTypeOK'
    BY <1>1, <1>10, <2>1
       DEF TablesOK, RM!Add, RM!Entered, RM!ReservationTypeOK,
           RM!ReservationState, RM!Reservation
  <2>3. TablesOK' /\ UNCHANGED excluded
    BY <1>1, <1>9, <1>11, <1>12, <2>2 DEF ReserveAdd, ApiGoto, TablesOK, ApiAt
  <2> QED
    BY <1>5, <1>6, <2>3
<1>13. CASE ReserveCommit
  <2>1. api.client \in Clients /\ api.ip \in Addresses
    BY <1>13 DEF ApiInv, ReserveCommit
  <2>2. TablesOK' /\ UNCHANGED excluded
    BY <1>1, <1>9, <1>10, <1>11, <1>13, <2>1 DEF ReserveCommit, TablesOK, ApiAt
  <2> QED
    BY <1>5, <1>6, <2>2
<1>14. CASE ExcludeCheck
  <2>1. TablesOK' /\ UNCHANGED excluded
    BY <1>1, <1>9, <1>11, <1>14 DEF ExcludeCheck, ApiGoto, TablesOK, ApiAt
  <2> QED
    BY <1>5, <1>6, <2>1
<1>15. CASE ExcludeInPool
  <2>1. TablesOK' /\ api.ip \in PoolRange
    BY <1>1, <1>9, <1>11, <1>15 DEF ExcludeInPool, ApiGoto, TablesOK, ApiAt, ApiInv
  <2>2. api.ip \in Addresses
    BY <2>1, PoolAssumption DEF PoolRange
  <2>3. Exclude(api.ip) \/ Unexclude(api.ip) => LMInv'
    BY <1>1, <2>2, PoolCalls
  <2> QED
    BY <1>5, <1>6, <1>15, <2>1, <2>3 DEF ExcludeInPool
<1>16. CASE ExcludeCommit
  <2>1. TablesOK' /\ api.ip \in PoolRange
    BY <1>1, <1>9, <1>11, <1>16 DEF ExcludeCommit, TablesOK, ApiAt, ApiInv
  <2>2. api.ip \in Addresses
    BY <2>1, PoolAssumption DEF PoolRange
  <2> QED
    BY <1>1, <1>5, <1>6, <1>16, <2>1, <2>2, PoolCalls DEF ExcludeCommit
<1>17. CASE RemoveReservationEntry
  <2>1. TablesOK' /\ UNCHANGED excluded
    BY <1>1, <1>9, <1>10, <1>17
       DEF RemoveReservationEntry, TablesOK, ApiAt, ApiInv
  <2> QED
    BY <1>5, <1>6, <2>1
<1>18. CASE RemoveExclusionEntry
  <2>1. TablesOK' /\ api.ip \in Addresses
    BY <1>1, <1>9, <1>11, <1>18 DEF RemoveExclusionEntry, TablesOK, ApiAt, ApiInv
  <2> QED
    BY <1>1, <1>6, <1>18, <2>1, PoolCalls DEF RemoveExclusionEntry
<1> QED
  BY <1>8, <1>12, <1>13, <1>14, <1>15, <1>16, <1>17, <1>18 DEF ApiContinues

\* An entry of a loaded dictionary comes from one of the rows.
LEMMA LoadedType ==
    ASSUME reservationRows \in [Clients -> Addresses \cup {NoAddress}],
           NEW L \in SUBSET ReservedRows
    PROVE  Loaded(L) \in RM!ReservationState
<1> DEFINE Entry(S) == IF S = {} THEN NoLease
                       ELSE LET c == CHOOSE c \in S : TRUE
                            IN  [client |-> CanonicalId[c],
                                 ip |-> reservationRows[c]]
<1>1. ASSUME NEW S \in SUBSET L
      PROVE  Entry(S) \in RM!Reservation \cup {NoLease}
  <2>1. CASE S = {}
    BY <2>1
  <2>2. CASE S # {}
    <3>1. (CHOOSE c \in S : TRUE) \in S
      BY <2>2
    <3>2. \A c \in S : /\ CanonicalId[c] \in Keys
                       /\ reservationRows[c] \in Addresses
      BY ServerAssumption DEF ReservedRows
    <3> QED
      BY <2>2, <3>1, <3>2 DEF RM!Reservation
  <2> QED
    BY <2>1, <2>2
<1>2. Loaded(L) =
        [byClient |-> [k \in Keys |-> Entry({c \in L : CanonicalId[c] = k})],
         byIp     |-> [a \in Addresses |->
                          Entry({c \in L : reservationRows[c] = a})]]
  BY DEF Loaded
<1> HIDE DEF Entry
<1> QED
  BY <1>1, <1>2 DEF RM!ReservationState

\* The end of a process, the start of the next, and the clock.
LEMMA ProcessBase ==
    ASSUME BaseInv, Crash \/ Boot \/ ClockTick
    PROVE  BaseInv'
<1>1. StateOK /\ TablesOK /\ ThreadOK /\ NetworkOK /\ LMInv
  BY TypeParts DEF BaseInv, StateOK
<1>2. NoPacket \notin Packet
  BY NoPacketDistinct
<1>3. CASE Crash
  <2>1. LMInv'
    BY <1>1, <1>3
       DEF Crash, EmptyManager, LMInv, LMTypeOK, ManagerState, PoolRange,
           ManagerConsistent, Consistent, IndexesAgree, PoolMatchesLeases,
           ExcludedNotLeased
  <2>2. ThreadOK' /\ HandlerInv' /\ thread'.pc = "down"
        /\ thread'.packet = NoPacket
    BY <1>3 DEF Crash, ThreadDown, ThreadIdle, ThreadOK, ThreadAt, HandlerInv,
                ApiIdle
  <2>3. /\ inbox' \in Seq(Packet) /\ Len(inbox') = 0
        /\ UNCHANGED <<now, tables, replies, bound, asked>>
    BY <1>3, EmptySeq DEF Crash
  <2>4. NetworkOK'
    BY <1>1, <2>2, <2>3, ServerAssumption DEF NetworkOK, Packets
  <2>5. TablesOK'
    BY <1>1, <1>3, <2>3
       DEF Crash, TablesOK, tables, ApiIdle, ApiAt, RM!ReservationTypeOK,
           RM!ReservationState, RM!NoReservations
  <2>6. crashes' \in 0..MaxCrashes
    BY <1>1, <1>3, ServerAssumption DEF Crash, StateOK
  <2> QED
    BY <1>1, <2>1, <2>2, <2>3, <2>4, <2>5, <2>6, TypeParts
       DEF BaseInv, StateOK, tables, LMInv
<1>4. CASE Boot
  <2>1. UNCHANGED <<lm, now, tables, api, network, crashes>>
        /\ thread' = ThreadIdle /\ thread.pc = "down"
    BY <1>4 DEF Boot
  <2>2. LMInv'
    <3>1. /\ excluded' \subseteq PoolRange
          /\ \A a \in excluded' : a \notin lm.allocated
      BY <1>1, <1>4 DEF Boot, TablesOK, CanExclude
    <3>2. \A a \in excluded' : lm.byIp[a] = NoLease
      BY <1>1, <3>1, FreeMeansUnleased DEF LMInv, LMTypeOK, ManagerConsistent
    <3> QED
      BY <1>1, <2>1, <3>1, <3>2, ManagerUnchanged DEF LMInv, LMTypeOK
  <2>3. ThreadOK' /\ HandlerInv' /\ thread'.pc = "idle"
        /\ thread'.packet = NoPacket
    BY <2>1, IdleThread
  <2>4. NetworkOK'
    BY <1>1, <2>1, <2>3 DEF NetworkOK, Packets, network, ThreadOK
  <2>5. RM!ReservationTypeOK'
    BY <1>1, <1>4, LoadedType DEF Boot, TablesOK, RM!ReservationTypeOK
  <2>6. TablesOK'
    BY <1>1, <2>1, <2>5 DEF TablesOK, tables
  <2> QED
    BY <1>1, <2>1, <2>2, <2>3, <2>4, <2>6, TypeParts
       DEF BaseInv, StateOK, tables, LMInv
<1>5. CASE ClockTick
  <2>1. /\ UNCHANGED <<lm, excluded, reservations, tables, thread, api, inbox,
                       replies, asked, crashes>>
        /\ now' = now + 1
    BY <1>5 DEF ClockTick, Tick
  <2>2. LMInv'
    BY <1>1, <2>1, ManagerUnchanged DEF LMInv, LMTypeOK, ExcludedNotLeased
  <2>3. bound' \in [Clients -> Lease \cup {NoLease}]
    BY <1>1, <1>5 DEF ClockTick, NetworkOK
  <2>4. NetworkOK' /\ ThreadOK' /\ TablesOK'
    BY <1>1, <2>1, <2>3
       DEF NetworkOK, ThreadOK, TablesOK, Packets, tables, RM!ReservationTypeOK
  <2>5. HandlerInv'
        /\ (thread.pc \in {"save", "acknowledge"} => myLease # NoLease)'
    BY <1>1, <2>1 DEF BaseInv, HandlerInv, StateOK, myLease, me
  <2> QED
    BY <1>1, <2>1, <2>2, <2>4, <2>5, TypeParts DEF BaseInv, StateOK, tables, LMInv
<1> QED
  BY <1>3, <1>4, <1>5

\* A step that changes nothing.
LEMMA StutterBase ==
    ASSUME BaseInv, UNCHANGED vars
    PROVE  BaseInv'
<1>1. StateOK
  BY TypeParts DEF BaseInv
<1>2. StateOK' /\ HandlerInv'
  BY <1>1
     DEF BaseInv, StateOK, LMTypeOK, TablesOK, ThreadOK, NetworkOK, HandlerInv,
         vars, memory, tables, network, Packets, myLease, me,
         RM!ReservationTypeOK
<1>3. LMInv'
  BY DEF BaseInv, vars, memory, LMInv, LMTypeOK, ManagerConsistent, Consistent,
         ExcludedNotLeased
<1> QED
  BY <1>2, <1>3, TypeParts DEF BaseInv

\* The process is down, and everything is empty.
LEMMA InitBase == Init => BaseInv
<1> SUFFICES ASSUME Init PROVE BaseInv
  OBVIOUS
<1>1. LMInv
  BY LMInitInv DEF Init
<1>2. ThreadOK /\ HandlerInv /\ thread.packet = NoPacket /\ thread.pc = "down"
  BY DEF Init, LMInit, ThreadDown, ThreadIdle, ApiIdle, ThreadOK, ThreadAt,
         HandlerInv
<1>3. NetworkOK
  BY <1>2, EmptySeq, ServerAssumption DEF Init, NetworkOK, Packets
<1>4. TablesOK
  BY DEF Init, TablesOK, ApiIdle, ApiAt, RM!ReservationTypeOK,
         RM!ReservationState, RM!NoReservations
<1>5. /\ leaseRows \in [Clients -> Lease \cup {NoLease}]
      /\ crashes \in 0..MaxCrashes
  BY ServerAssumption DEF Init
<1> QED
  BY <1>1, <1>2, <1>3, <1>4, <1>5, TypeParts DEF BaseInv, StateOK, LMInv

-----------------------------------------------------------------------------
(* ControlInv.                                                             *)

\* What ControlInv is about and steps of clients, of the DHCP thread and of
\* the clock leave alone.
LEMMA ControlUnchanged ==
    ASSUME ControlInv,
           UNCHANGED <<excluded, reservations, reservationRows, exclusionRows,
                       api>>,
           thread'.pc # "down" => thread.pc # "down"
    PROVE  ControlInv'
<1>1. ReservedRows' = ReservedRows
  BY DEF ReservedRows
<1>2. \A c, d \in Clients : RowsClash(c, d)' <=> RowsClash(c, d)
  BY DEF RowsClash
<1>3. ApiInv' /\ ExclusionsFollow'
  BY DEF ControlInv, ApiInv, ExclusionsFollow
<1>4. RowsUnique'
  BY <1>1, <1>2 DEF ControlInv, RowsUnique, ReservedRows
<1>5. ReservationsFollow'
  BY <1>1 DEF ControlInv, ReservationsFollow
<1>6. ChecksHold'
  BY DEF ControlInv, ChecksHold, ReservationRowOf
<1> QED
  BY <1>3, <1>4, <1>5, <1>6 DEF ControlInv

\* Clients, the DHCP thread and the clock leave the controls alone.
LEMMA QuietControl ==
    ASSUME BaseInv, ControlInv,
           ClientStep \/ ServerStep \/ ClockTick \/ UNCHANGED vars
    PROVE  ControlInv'
<1>1. ThreadOK
  BY TypeParts DEF BaseInv, StateOK
<1>2. CASE ClientStep
  <2>1. ASSUME NEW c, NEW type, NEW a, Send(c, type, a)
        PROVE  ControlInv'
    <3>1. thread'.pc = thread.pc
      BY <1>1, <2>1 DEF Send, ThreadOK
    <3> QED
      BY <2>1, <3>1, ControlUnchanged DEF Send, memory, tables
  <2>2. ASSUME NEW r, ReceiveReply(r) PROVE ControlInv'
    BY <2>2, ControlUnchanged DEF ReceiveReply, memory, tables
  <2> QED
    BY <1>2, <2>1, <2>2
       DEF ClientStep, SendDiscover, SendRequest, SendRelease, SendDecline
<1>3. CASE ServerStep
  <2>1. thread.pc # "down"
    BY <1>3
       DEF ServerStep, Receive, LookupForRequest, RenewForRequest,
           ObtainExisting, LookupReservation, AssignReserved, AssignRequested,
           AssignDynamic, SaveObtained, SaveAndAcknowledge, LookupForDecline,
           ReleaseLease, DeleteRow
  <2> QED
    BY <1>3, <2>1, ServerFrame, ControlUnchanged DEF elsewhere
<1>4. CASE ClockTick
  BY <1>4, ControlUnchanged DEF ClockTick, Tick, tables
<1>5. CASE UNCHANGED vars
  BY <1>5, ControlUnchanged DEF vars, memory, tables
<1> QED
  BY <1>2, <1>3, <1>4, <1>5

\* Shapes that the steps of the control API rely on.
LEMMA ControlShapes ==
    ASSUME BaseInv
    PROVE  /\ reservations \in RM!ReservationState
           /\ reservationRows \in [Clients -> Addresses \cup {NoAddress}]
           /\ exclusionRows \subseteq PoolRange
           /\ PoolRange \subseteq Addresses
           /\ NoAddress \notin PoolRange
           /\ \A c \in Clients : CanonicalId[c] \in Keys
           /\ api \in [pc : ApiAt, client : Clients \cup {NoLease},
                       ip : Addresses \cup {NoAddress}]
           /\ leaseRows \in [Clients -> Lease \cup {NoLease}]
BY TypeParts, PoolAssumption, ServerAssumption
   DEF BaseInv, StateOK, TablesOK, RM!ReservationTypeOK, PoolRange

\* What the pool contains is its range.
LEMMA ContainsIsRange ==
    ASSUME NEW a \in Addresses
    PROVE  PoolContains(a) <=> a \in PoolRange
BY PoolAssumption DEF PoolContains, PoolRange

\* The entry that a row stands for in memory.
LEMMA RowEntry ==
    ASSUME BaseInv, NEW c \in ReservedRows
    PROVE  [client |-> CanonicalId[c], ip |-> reservationRows[c]] # NoLease
<1>1. CanonicalId[c] \in Keys /\ reservationRows[c] \in Addresses
  BY ControlShapes DEF ReservedRows
<1> QED
  BY <1>1, ServerAssumption

\* A handler begins: it has read the tables, and perhaps deleted a row.
LEMMA BeginControl ==
    ASSUME BaseInv, ControlInv, ApiBegins
    PROVE  ControlInv'
<1> USE ControlShapes
<1>2. /\ api.pc = "idle" /\ thread.pc # "down"
      /\ UNCHANGED <<excluded, reservations, thread>>
  BY DEF ApiBegins, ReserveRead, ExcludeRead, RemoveReservationRow,
         RemoveExclusionRow, ApiCall, memory
<1>3. ASSUME NEW c \in Clients, ReserveRead(c) \/ ExcludeRead(c)
      PROVE  ControlInv'
  <2> DEFINE b == leaseRows[c].ip
  <2>1. /\ UNCHANGED <<reservationRows, exclusionRows>>
        /\ b \in PoolRange /\ b \notin exclusionRows
        /\ \/ api' = [pc |-> "reserve", client |-> c, ip |-> b]
           \/ /\ api' = [pc |-> "exclude", client |-> c, ip |-> b]
              /\ ReservationRowOf(b) = {}
    <3>1. b \in Addresses
      BY <1>3 DEF ReserveRead, ExcludeRead, Lease
    <3>2. b \in PoolRange
      BY <1>3, <3>1, ContainsIsRange DEF ReserveRead, ExcludeRead
    <3> QED
      BY <1>3, <3>2 DEF ReserveRead, ExcludeRead, ApiCall
  <2> HIDE DEF b
  <2>2. ReservedRows' = ReservedRows
    BY <2>1 DEF ReservedRows
  <2>3. ApiInv' /\ ExclusionsFollow'
    BY <1>2, <2>1 DEF ControlInv, ApiInv, ExclusionsFollow
  <2>4. RowsUnique'
    BY <2>1, <2>2 DEF ControlInv, RowsUnique, RowsClash
  <2>5. ReservationsFollow'
    BY <1>2, <2>1, <2>2 DEF ControlInv, ReservationsFollow
  <2>6. ChecksHold'
    BY <2>1 DEF ChecksHold, ReservationRowOf
  <2> QED
    BY <2>3, <2>4, <2>5, <2>6 DEF ControlInv
<1>4. ASSUME NEW c \in Clients, RemoveReservationRow(c) PROVE ControlInv'
  <2>1. /\ reservationRows' = [reservationRows EXCEPT ![c] = NoAddress]
        /\ exclusionRows' = exclusionRows
        /\ api' = [pc |-> "unreserve", client |-> c, ip |-> reservationRows[c]]
        /\ c \in ReservedRows /\ reservationRows[c] \in Addresses
    BY <1>4 DEF RemoveReservationRow, ApiCall, ReservedRows
  <2>2. /\ ReservedRows' = ReservedRows \ {c}
        /\ \A d \in ReservedRows' : reservationRows'[d] = reservationRows[d]
    BY <2>1 DEF ReservedRows
  <2>3. ApiInv' /\ ExclusionsFollow' /\ ChecksHold'
    BY <1>2, <2>1 DEF ControlInv, ApiInv, ExclusionsFollow, ChecksHold
  <2>4. RowsUnique'
    BY <2>1, <2>2 DEF ControlInv, RowsUnique, RowsClash
  <2>5. \A d \in ReservedRows' : CanonicalId[d] # CanonicalId[c]
    BY <2>1, <2>2 DEF ControlInv, RowsUnique, RowsClash
  <2>6. ReservationsFollow'
    <3>1. \A d \in ReservedRows' :
             RM!ReservationOf(reservations', d)
                = [client |-> CanonicalId[d], ip |-> reservationRows'[d]]
      BY <1>2, <2>2 DEF ControlInv, ReservationsFollow
    <3>2. ASSUME NEW k \in Keys, reservations.byClient[k] # NoLease
          PROVE  /\ reservations.byClient[k].client = k
                 /\ \/ \E d \in ReservedRows' :
                          /\ CanonicalId[d] = k
                          /\ reservationRows'[d] = reservations.byClient[k].ip
                    \/ CanonicalId[c] = k
      <4>1. PICK d \in ReservedRows :
               /\ CanonicalId[d] = k
               /\ reservationRows[d] = reservations.byClient[k].ip
        BY <1>2, <3>2 DEF ControlInv, ReservationsFollow
      <4> QED
        BY <2>2, <3>2, <4>1 DEF ControlInv, ReservationsFollow
    <3> QED
      BY <1>2, <2>1, <2>5, <3>1, <3>2 DEF ReservationsFollow
  <2> QED
    BY <2>3, <2>4, <2>6 DEF ControlInv
<1>5. ASSUME NEW a \in PoolRange, RemoveExclusionRow(a) PROVE ControlInv'
  <2>1. /\ exclusionRows' = exclusionRows \ {a} /\ a \in exclusionRows
        /\ UNCHANGED reservationRows
        /\ api' = [pc |-> "unexclude", client |-> NoLease, ip |-> a]
    BY <1>5 DEF RemoveExclusionRow, ApiCall
  <2>2. ReservedRows' = ReservedRows
    BY <2>1 DEF ReservedRows
  <2>3. ApiInv' /\ ExclusionsFollow' /\ ChecksHold'
    BY <1>2, <2>1 DEF ControlInv, ApiInv, ExclusionsFollow, ChecksHold
  <2>4. RowsUnique'
    BY <2>1, <2>2 DEF ControlInv, RowsUnique, RowsClash
  <2>5. ReservationsFollow'
    BY <1>2, <2>1, <2>2 DEF ControlInv, ReservationsFollow
  <2> QED
    BY <2>3, <2>4, <2>5 DEF ControlInv
<1> QED
  BY <1>3, <1>4, <1>5 DEF ApiBegins

\* remove_by_client empties the entry of one client, both when a reservation
\* is taken back and when it is deleted.
LEMMA EntryRemoved ==
    ASSUME BaseInv, ControlInv, NEW c \in Clients, RM!RemoveByClient(c)
    PROVE  \A k \in Keys : reservations'.byClient[k] =
              IF k = CanonicalId[c] THEN NoLease ELSE reservations.byClient[k]
<1> USE ControlShapes
<1> DEFINE v == RM!ReservationOf(reservations, c)
<1>1. v # NoLease => v.client = CanonicalId[c]
  BY DEF ControlInv, ReservationsFollow, RM!ReservationOf
<1> QED
  BY <1>1 DEF RM!RemoveByClient, RM!Dropped, RM!ReservationOf,
              RM!ReservationState

\* A handler goes on: _reserve_one and remove_reservation.
LEMMA ReservingControl ==
    ASSUME BaseInv, ControlInv,
           ReserveAdd \/ ReserveCommit \/ RemoveReservationEntry
    PROVE  ControlInv'
<1> USE ControlShapes
<1> DEFINE c == api.client
           k0 == CanonicalId[c]
<1>1. /\ api.pc \in {"reserve", "reserve-commit", "unreserve"}
      /\ c \in Clients /\ api.ip \in Addresses
      /\ UNCHANGED <<excluded, exclusionRows, thread>> /\ thread.pc # "down"
  BY DEF ReserveAdd, ReserveCommit, RemoveReservationEntry, notControls,
         ControlInv, ApiInv, BaseInv, HandlerInv
<1>2. api'.pc = "idle" \/ (api'.pc = "reserve-commit" /\ api.pc = "reserve"
                           /\ api'.client = c /\ api'.ip = api.ip)
  BY DEF ReserveAdd, ReserveCommit, RemoveReservationEntry, ApiIdle, ApiGoto
<1>3. ApiInv' /\ ExclusionsFollow' /\ ChecksHold'
  BY <1>1, <1>2 DEF ControlInv, ApiInv, ExclusionsFollow, ChecksHold
<1>4. CASE ReserveAdd /\ api' = ApiIdle
  <2>1. UNCHANGED <<reservations, reservationRows>> /\ api'.pc = "idle"
        /\ api.pc = "reserve"
    BY <1>4 DEF ReserveAdd, ApiIdle, ApiGoto
  <2>2. ReservedRows' = ReservedRows
    BY <2>1 DEF ReservedRows
  <2>3. RowsUnique' /\ ReservationsFollow'
    BY <1>1, <2>1, <2>2
       DEF ControlInv, RowsUnique, RowsClash, ReservationsFollow
  <2> QED
    BY <1>3, <2>3 DEF ControlInv
<1>5. CASE ReserveAdd /\ api' # ApiIdle
  <2>1. /\ api.pc = "reserve" /\ RM!Add(c, api.ip) /\ UNCHANGED reservationRows
        /\ api'.pc = "reserve-commit" /\ api'.client = c /\ api'.ip = api.ip
    BY <1>5 DEF ReserveAdd, ApiGoto
  <2>2. ReservedRows' = ReservedRows
    BY <2>1 DEF ReservedRows
  <2>3. /\ reservations.byClient[k0] = NoLease
        /\ \A k \in Keys : reservations'.byClient[k] =
              IF k = k0 THEN [client |-> k0, ip |-> api.ip]
              ELSE reservations.byClient[k]
    BY <1>1, <2>1
       DEF RM!Add, RM!CanAdd, RM!Entered, RM!ReservationOf, RM!ReservationState
  <2>4. ASSUME NEW d \in ReservedRows PROVE CanonicalId[d] # k0
    <3>1. RM!ReservationOf(reservations, d) # NoLease
      BY <1>1, RowEntry DEF ControlInv, ReservationsFollow
    <3> QED
      BY <2>3, <3>1 DEF RM!ReservationOf
  <2>5. RowsUnique'
    BY <1>1, <2>1, <2>2 DEF ControlInv, RowsUnique, RowsClash
  <2>6. \A d \in ReservedRows :
           RM!ReservationOf(reservations', d)
              = [client |-> CanonicalId[d], ip |-> reservationRows[d]]
    BY <1>1, <2>3, <2>4
       DEF ControlInv, ReservationsFollow, RM!ReservationOf, ReservedRows
  <2>7. ASSUME NEW k \in Keys, reservations'.byClient[k] # NoLease
        PROVE  /\ reservations'.byClient[k].client = k
               /\ \/ \E d \in ReservedRows :
                        /\ CanonicalId[d] = k
                        /\ reservationRows[d] = reservations'.byClient[k].ip
                  \/ k0 = k
    BY <2>1, <2>3, <2>7 DEF ControlInv, ReservationsFollow
  <2>8. RM!ReservationOf(reservations', c) = [client |-> k0, ip |-> api.ip]
    BY <1>1, <2>3 DEF RM!ReservationOf
  <2>9. ReservationsFollow'
    BY <2>1, <2>2, <2>4, <2>6, <2>7, <2>8 DEF ReservationsFollow
  <2> QED
    BY <1>3, <2>5, <2>9 DEF ControlInv
<1>6. CASE ReserveCommit /\ reservationRows' # reservationRows
  <2>1. /\ api.pc = "reserve-commit" /\ api'.pc = "idle"
        /\ ReservationRowOf(api.ip) = {}
        /\ reservationRows' = [reservationRows EXCEPT ![c] = api.ip]
        /\ UNCHANGED reservations
    BY <1>6 DEF ReserveCommit, ApiIdle
  <2>2. api.ip # NoAddress /\ api.ip \notin exclusionRows
    BY <1>1, <2>1, ServerAssumption DEF ControlInv, ChecksHold
  <2>3. /\ ReservedRows' = ReservedRows \cup {c}
        /\ reservationRows'[c] = api.ip
        /\ \A d \in ReservedRows : d # c => reservationRows'[d] = reservationRows[d]
    BY <1>1, <2>1, <2>2 DEF ReservedRows
  <2>4. \A d \in ReservedRows : d # c /\ CanonicalId[d] # k0
                                /\ reservationRows[d] # api.ip
    BY <2>1 DEF ControlInv, ReservationsFollow, ReservationRowOf, ReservedRows
  <2>5. RowsUnique'
    BY <1>1, <2>2, <2>3, <2>4 DEF ControlInv, RowsUnique, RowsClash
  <2>6. RM!ReservationOf(reservations, c) = [client |-> k0, ip |-> api.ip]
    BY <2>1 DEF ControlInv, ReservationsFollow
  <2>7. \A d \in ReservedRows' :
           RM!ReservationOf(reservations', d)
              = [client |-> CanonicalId[d], ip |-> reservationRows'[d]]
    BY <1>1, <2>1, <2>3, <2>4, <2>6 DEF ControlInv, ReservationsFollow
  <2>8. ASSUME NEW k \in Keys, reservations'.byClient[k] # NoLease
        PROVE  /\ reservations'.byClient[k].client = k
               /\ \E d \in ReservedRows' :
                     /\ CanonicalId[d] = k
                     /\ reservationRows'[d] = reservations'.byClient[k].ip
    <3>1. CASE k = k0
      BY <1>1, <2>1, <2>3, <2>6, <3>1 DEF RM!ReservationOf
    <3>2. CASE k # k0
      BY <2>1, <2>3, <2>4, <2>8, <3>2 DEF ControlInv, ReservationsFollow
    <3> QED
      BY <3>1, <3>2
  <2>9. ReservationsFollow'
    BY <2>1, <2>7, <2>8 DEF ReservationsFollow
  <2> QED
    BY <1>3, <2>5, <2>9 DEF ControlInv
<1>7. CASE \/ ReserveCommit /\ reservationRows' = reservationRows
           \/ RemoveReservationEntry
  <2>1. CASE RM!RemoveByClient(c)
    <3>1. /\ UNCHANGED reservationRows /\ api'.pc = "idle"
          /\ api.pc \in {"reserve-commit", "unreserve"}
      BY <1>7 DEF ReserveCommit, RemoveReservationEntry, ApiIdle
    <3>2. ReservedRows' = ReservedRows
      BY <3>1 DEF ReservedRows
    <3>3. \A k \in Keys : reservations'.byClient[k] =
             IF k = k0 THEN NoLease ELSE reservations.byClient[k]
      BY <1>1, <2>1, EntryRemoved
    <3>4. \A d \in ReservedRows : CanonicalId[d] # k0
      BY <3>1 DEF ControlInv, ReservationsFollow
    <3>5. RowsUnique'
      BY <1>1, <3>1, <3>2 DEF ControlInv, RowsUnique, RowsClash
    <3>6. \A d \in ReservedRows' :
             RM!ReservationOf(reservations', d)
                = [client |-> CanonicalId[d], ip |-> reservationRows'[d]]
      BY <1>1, <3>1, <3>2, <3>3, <3>4
         DEF ControlInv, ReservationsFollow, RM!ReservationOf, ReservedRows
    <3>7. \A k \in Keys : reservations'.byClient[k] # NoLease =>
             /\ reservations'.byClient[k].client = k
             /\ \E d \in ReservedRows' :
                   /\ CanonicalId[d] = k
                   /\ reservationRows'[d] = reservations'.byClient[k].ip
      BY <3>1, <3>2, <3>3 DEF ControlInv, ReservationsFollow
    <3>8. ReservationsFollow'
      BY <3>1, <3>6, <3>7 DEF ReservationsFollow
    <3> QED
      BY <1>3, <3>5, <3>8 DEF ControlInv
  <2>2. CASE ~RM!RemoveByClient(c)
    <3>1. /\ api.pc = "reserve-commit" /\ ReservationRowOf(api.ip) = {}
          /\ reservationRows' = [reservationRows EXCEPT ![c] = api.ip]
          /\ reservationRows' = reservationRows
      BY <1>7, <2>2 DEF ReserveCommit, RemoveReservationEntry
    <3>2. reservationRows[c] = api.ip
      BY <1>1, <3>1
    <3> QED
      BY <1>1, <3>1, <3>2 DEF ReservationRowOf
  <2> QED
    BY <2>1, <2>2
<1> QED
  BY <1>4, <1>5, <1>6, <1>7

\* A handler goes on: _exclude_one and remove_exclusion.
LEMMA ExcludingControl ==
    ASSUME BaseInv, ControlInv,
           \/ ExcludeCheck \/ ExcludeInPool \/ ExcludeCommit
           \/ RemoveExclusionEntry
    PROVE  ControlInv'
<1> USE ControlShapes
<1>1. /\ api.pc \in {"exclude", "exclude-pool", "exclude-commit", "unexclude"}
      /\ api.ip \in PoolRange
      /\ UNCHANGED <<reservations, reservationRows, thread>>
      /\ thread.pc # "down"
  BY DEF ExcludeCheck, ExcludeInPool, ExcludeCommit, RemoveExclusionEntry,
         notControls, ControlInv, ApiInv, BaseInv, HandlerInv
<1>2. /\ api'.ip = api.ip \/ api'.pc = "idle"
      /\ api'.pc \in {"idle", "exclude-pool", "exclude-commit"}
      /\ api'.pc # "idle" => api.pc \in {"exclude", "exclude-pool"}
  BY DEF ExcludeCheck, ExcludeInPool, ExcludeCommit, RemoveExclusionEntry,
         ApiIdle, ApiGoto
<1>3. ReservedRows' = ReservedRows
  BY <1>1 DEF ReservedRows
<1>4. ReservationsFollow'
  BY <1>1, <1>2, <1>3 DEF ControlInv, ReservationsFollow
<1>5. ApiInv' /\ ChecksHold'
  BY <1>1, <1>2 DEF ControlInv, ApiInv, ChecksHold, ReservationRowOf
<1>6. CASE UNCHANGED exclusionRows
  <2>1. RowsUnique'
    BY <1>1, <1>3, <1>6 DEF ControlInv, RowsUnique, RowsClash
  <2>2. ExclusionsFollow'
    BY <1>1, <1>2, <1>6
       DEF ExcludeCheck, ExcludeInPool, ExcludeCommit, RemoveExclusionEntry,
           Exclude, Unexclude, ApiIdle, ApiGoto, ControlInv, ExclusionsFollow
  <2> QED
    BY <1>4, <1>5, <2>1, <2>2 DEF ControlInv
<1>7. CASE exclusionRows' # exclusionRows
  <2>1. /\ api.pc = "exclude-commit" /\ api'.pc = "idle"
        /\ exclusionRows' = exclusionRows \cup {api.ip}
        /\ UNCHANGED excluded
    BY <1>7 DEF ExcludeCheck, ExcludeInPool, ExcludeCommit,
                RemoveExclusionEntry, ApiIdle
  <2>2. \A d \in ReservedRows : reservationRows[d] # api.ip
    BY <2>1 DEF ControlInv, ChecksHold, ReservationRowOf, ReservedRows
  <2>3. RowsUnique'
    BY <1>1, <1>3, <2>1, <2>2 DEF ControlInv, RowsUnique, RowsClash, ReservedRows
  <2>4. ExclusionsFollow'
    BY <1>1, <2>1 DEF ControlInv, ExclusionsFollow
  <2> QED
    BY <1>4, <1>5, <2>3, <2>4 DEF ControlInv
<1> QED
  BY <1>6, <1>7

\* Rows that do not clash are all loaded, each under its client.
LEMMA AllLoaded ==
    ASSUME BaseInv, RowsUnique, NEW L \in SUBSET ReservedRows, Loadable(L)
    PROVE  /\ \A c \in ReservedRows :
                 RM!ReservationOf(Loaded(L), c)
                    = [client |-> CanonicalId[c], ip |-> reservationRows[c]]
           /\ \A k \in Keys : Loaded(L).byClient[k] # NoLease =>
                 \E c \in ReservedRows :
                    /\ CanonicalId[c] = k
                    /\ Loaded(L).byClient[k]
                          = [client |-> k, ip |-> reservationRows[c]]
<1> USE ControlShapes
<1>1. L = ReservedRows
  BY DEF Loadable, RowsUnique
<1> DEFINE S(k) == {c \in L : CanonicalId[c] = k}
           x(k) == CHOOSE c \in S(k) : TRUE
<1>2. \A k \in Keys : Loaded(L).byClient[k] =
         IF S(k) = {} THEN NoLease
         ELSE [client |-> CanonicalId[x(k)], ip |-> reservationRows[x(k)]]
  BY DEF Loaded
<1>3. \A k \in Keys : S(k) # {} => x(k) \in S(k)
  OBVIOUS
<1> HIDE DEF x
<1>4. \A c \in ReservedRows : CanonicalId[c] \in Keys /\ c \in S(CanonicalId[c])
  BY <1>1 DEF ReservedRows
<1>5. \A c \in ReservedRows : x(CanonicalId[c]) = c
  BY <1>3, <1>4 DEF RowsUnique, RowsClash
<1>6. \A c \in ReservedRows :
         RM!ReservationOf(Loaded(L), c)
            = [client |-> CanonicalId[c], ip |-> reservationRows[c]]
  BY <1>2, <1>4, <1>5 DEF RM!ReservationOf
<1>7. ASSUME NEW k \in Keys, Loaded(L).byClient[k] # NoLease
      PROVE  \E c \in ReservedRows :
                /\ CanonicalId[c] = k
                /\ Loaded(L).byClient[k]
                      = [client |-> k, ip |-> reservationRows[c]]
  <2>1. /\ x(k) \in S(k)
        /\ Loaded(L).byClient[k]
              = [client |-> CanonicalId[x(k)], ip |-> reservationRows[x(k)]]
    BY <1>2, <1>3, <1>7
  <2> QED
    BY <2>1
<1> QED
  BY <1>6, <1>7

\* The end of a process, and the start of the next on the same tables.
LEMMA ProcessControl ==
    ASSUME BaseInv, ControlInv, Crash \/ Boot
    PROVE  ControlInv'
<1> USE ControlShapes
<1>1. UNCHANGED tables
  BY DEF Crash, Boot
<1>2. ReservedRows' = ReservedRows
  BY <1>1 DEF ReservedRows, tables
<1>3. RowsUnique'
  BY <1>1, <1>2 DEF ControlInv, RowsUnique, RowsClash, tables
<1>4. api'.pc = "idle"
  BY DEF Crash, Boot, ApiIdle, BaseInv, HandlerInv
<1>5. ApiInv' /\ ChecksHold'
  BY <1>4 DEF ApiInv, ChecksHold
<1>6. CASE Crash
  <2>1. thread'.pc = "down" /\ reservations' = RM!NoReservations
    BY <1>6 DEF Crash, ThreadDown, ThreadIdle
  <2>2. ExclusionsFollow' /\ ReservationsFollow'
    BY <1>4, <2>1 DEF ExclusionsFollow, ReservationsFollow, RM!NoReservations
  <2> QED
    BY <1>3, <1>5, <2>2 DEF ControlInv
<1>7. CASE Boot
  <2>1. lm.allocated = {}
    BY <1>7 DEF Boot, BaseInv, HandlerInv, EmptyManager
  <2>2. excluded' = exclusionRows
    BY <1>7, <2>1, PoolAssumption DEF Boot, CanExclude, PoolContains, PoolRange
  <2>3. ExclusionsFollow'
    BY <1>1, <1>4, <2>2 DEF ExclusionsFollow, tables
  <2>4. ReservationsFollow'
    <3>1. PICK L \in SUBSET ReservedRows : Loadable(L) /\ reservations' = Loaded(L)
      BY <1>7 DEF Boot
    <3>2. ASSUME NEW k \in Keys, reservations'.byClient[k] # NoLease
          PROVE  /\ reservations'.byClient[k].client = k
                 /\ \E c \in ReservedRows' :
                       /\ CanonicalId[c] = k
                       /\ reservationRows'[c] = reservations'.byClient[k].ip
      <4>1. PICK c \in ReservedRows :
              /\ CanonicalId[c] = k
              /\ Loaded(L).byClient[k] = [client |-> k, ip |-> reservationRows[c]]
        BY <3>1, <3>2, AllLoaded DEF ControlInv
      <4> QED
        BY <1>1, <1>2, <3>1, <4>1 DEF tables
    <3>3. \A c \in ReservedRows' :
             RM!ReservationOf(reservations', c)
                = [client |-> CanonicalId[c], ip |-> reservationRows'[c]]
      BY <1>1, <1>2, <3>1, AllLoaded DEF ControlInv, tables
    <3> QED
      BY <1>4, <3>2, <3>3 DEF ReservationsFollow
  <2> QED
    BY <1>3, <1>5, <2>3, <2>4 DEF ControlInv
<1> QED
  BY <1>6, <1>7

\* The tables, the pool and the reservations are empty.
LEMMA InitControl == Init => ControlInv
<1> SUFFICES ASSUME Init PROVE ControlInv
  OBVIOUS
<1>1. /\ ReservedRows = {} /\ exclusionRows = {} /\ thread.pc = "down"
      /\ api.pc = "idle" /\ \A k \in Keys : reservations.byClient[k] = NoLease
  BY DEF Init, ReservedRows, ThreadDown, ThreadIdle, ApiIdle, RM!NoReservations
<1> QED
  BY <1>1 DEF ControlInv, ApiInv, RowsUnique, ExclusionsFollow,
              ReservationsFollow, ChecksHold

\* Both invariants together are inductive.
LEMMA ControlStep ==
    BaseInv /\ ControlInv /\ [Next]_vars => BaseInv' /\ ControlInv'
<1> SUFFICES ASSUME BaseInv, ControlInv, [Next]_vars
             PROVE  BaseInv' /\ ControlInv'
  OBVIOUS
<1>1. ApiInv
  BY DEF ControlInv
<1>2. CASE ClientStep
  BY <1>2, ClientBase, QuietControl
<1>3. CASE ServerStep
  BY <1>3, ServerBase, QuietControl
<1>4. CASE ApiBegins \/ ApiContinues
  BY <1>1, <1>4, ApiBase, BeginControl, ReservingControl, ExcludingControl
     DEF ApiContinues
<1>5. CASE Crash \/ Boot
  BY <1>5, ProcessBase, ProcessControl
<1>6. CASE ClockTick
  BY <1>6, ProcessBase, QuietControl
<1>7. CASE UNCHANGED vars
  BY <1>7, StutterBase, QuietControl
<1> QED
  BY <1>2, <1>3, <1>4, <1>5, <1>6, <1>7 DEF Next

\* The whole state of the DHCP service keeps its shape, whatever clients send,
\* in whatever order packets arrive, whatever the database refuses, and over
\* any number of crashes.
THEOREM ServerTypeCorrect == Spec => []TypeOK
<1>1. BaseInv => TypeOK
  BY DEF BaseInv
<1> QED
  BY <1>1, InitBase, InitControl, ControlStep, PTL DEF Spec

\* Whenever no request of the control API is under way, the running server
\* withholds and reserves exactly what the tables say: after failed commits,
\* after restarts, and if clients share a canonical identifier.
THEOREM ServerFollowsTables == Spec => []ControlsFollowTables
<1>1. ASSUME BaseInv, ControlInv PROVE ControlsFollowTables
  <2>1. thread.pc # "down" => \A c \in ReservedRows :
           LET v == RM!ReservationOf(reservations, c)
           IN  v # NoLease /\ v.ip = reservationRows[c]
    BY <1>1, RowEntry DEF ControlInv, ReservationsFollow
  <2> QED
    BY <1>1, <2>1
       DEF ControlInv, ExclusionsFollow, ReservationsFollow,
           ControlsFollowTables
<1> QED
  BY <1>1, InitBase, InitControl, ControlStep, PTL DEF Spec

\* No address is ever both excluded and reserved for a client.
THEOREM ServerReservedNotExcluded == Spec => []ReservedNotExcluded
<1>1. BaseInv /\ ControlInv => ReservedNotExcluded
  BY ControlShapes
     DEF ControlInv, RowsUnique, ReservedRows, ReservedNotExcluded
<1> QED
  BY <1>1, InitBase, InitControl, ControlStep, PTL DEF Spec

-----------------------------------------------------------------------------
(* LeaseInv: packets and answers on their way.  From here on packets keep  *)
(* their order.                                                            *)

\* The places of a sequence that may have grown by one element.
LEMMA GrownIndex ==
    ASSUME NEW m \in Nat, NEW n \in {m, m + 1}, NEW i \in 1..n
    PROVE  /\ i \in 1..m \/ (i = m + 1 /\ n = m + 1)
           /\ \A j \in 1..n : i < j => i \in 1..m
           /\ m + 1 # m
OBVIOUS

\* A packet on its way after a client has sent one: an older one, stale if it
\* is the client's, or the new one.
LEMMA SentInFlight ==
    ASSUME BaseInv, NEW c \in Clients, NEW type \in PacketTypes,
           NEW a \in Addresses \cup {NoAddress}, Send(c, type, a),
           NEW p \in InFlight'
    PROVE  \/ \E q \in InFlight : p.client = q.client /\ p.type = q.type
           \/ p.client = c /\ p.type = type
<1>1. ThreadOK /\ inbox \in Seq(Packet)
  BY TypeParts DEF BaseInv, StateOK, NetworkOK
<1>2. /\ inbox' \in Seq(Packet)
      /\ \A i \in 1..Len(inbox) : inbox'[i] = Aged(inbox[i], c)
      /\ \/ Len(inbox') = Len(inbox)
         \/ /\ Len(inbox') = Len(inbox) + 1
            /\ inbox'[Len(inbox) + 1] = [type |-> type, client |-> c,
                                         ip |-> a, stale |-> FALSE]
  BY <1>1, SentPackets
<1>3. /\ Len(inbox) \in Nat /\ DOMAIN inbox = 1..Len(inbox)
      /\ DOMAIN inbox' = 1..Len(inbox')
      /\ \A i \in DOMAIN inbox : inbox[i] \in Packet
  BY <1>1, <1>2, LenProperties, ElementOfSeq
<1>4. ASSUME NEW i \in DOMAIN inbox', p = inbox'[i]
      PROVE  \/ \E q \in InFlight : p.client = q.client /\ p.type = q.type
             \/ p.client = c /\ p.type = type
  <2>1. CASE i \in DOMAIN inbox
    <3>1. PICK q : q = inbox[i]
      OBVIOUS
    <3>2. p = Aged(q, c) /\ q \in Packet /\ q \in InFlight
      BY <1>2, <1>3, <1>4, <2>1, <3>1 DEF InFlight
    <3>3. p.client = q.client /\ p.type = q.type
      BY <3>2, AgedPacket
    <3> QED
      BY <3>2, <3>3
  <2>2. CASE i \notin DOMAIN inbox
    <3>1. i = Len(inbox) + 1 /\ Len(inbox') = Len(inbox) + 1
      <4>1. Len(inbox') \in {Len(inbox), Len(inbox) + 1}
        BY <1>2
      <4> QED
        BY <1>3, <1>4, <2>2, <4>1, GrownIndex
    <3>2. p = [type |-> type, client |-> c, ip |-> a, stale |-> FALSE]
      BY <1>2, <1>4, <3>1
    <3> QED
      BY <3>2
  <2> QED
    BY <2>1, <2>2
<1>5. ASSUME p = thread'.packet, p # NoPacket
      PROVE  \E q \in InFlight : p.client = q.client /\ p.type = q.type
  <2>1. thread.packet # NoPacket /\ thread'.packet = Aged(thread.packet, c)
    BY <1>1, <1>5 DEF Send, ThreadOK
  <2>2. thread.packet \in Packet /\ thread.packet \in InFlight
    BY <1>1, <2>1 DEF ThreadOK, InFlight
  <2> QED
    BY <1>5, <2>1, <2>2, AgedPacket
<1> QED
  BY <1>4, <1>5 DEF InFlight

\* Sending keeps both parts: older packets of the client are stale now, its
\* answers are forgotten, and a client that gives its lease up has none.
LEMMA SendNet ==
    ASSUME BaseInv, StaleInv, PendingInv, NEW c \in Clients,
           NEW type \in PacketTypes, NEW a \in Addresses \cup {NoAddress},
           Send(c, type, a),
           bound' \in {bound, [bound EXCEPT ![c] = NoLease]},
           type \in {"DECLINE", "RELEASE"} => bound'[c] = NoLease
    PROVE  StaleInv' /\ PendingInv'
<1>1. ThreadOK /\ inbox \in Seq(Packet)
      /\ bound \in [Clients -> Lease \cup {NoLease}]
  BY TypeParts DEF BaseInv, StateOK, NetworkOK
<1>2. /\ inbox' \in Seq(Packet)
      /\ \A i \in 1..Len(inbox) : inbox'[i] = Aged(inbox[i], c)
      /\ \/ Len(inbox') = Len(inbox)
         \/ /\ Len(inbox') = Len(inbox) + 1
            /\ inbox'[Len(inbox) + 1] = [type |-> type, client |-> c,
                                         ip |-> a, stale |-> FALSE]
  BY <1>1, SentPackets
<1>3. /\ Len(inbox) \in Nat /\ DOMAIN inbox = 1..Len(inbox)
      /\ DOMAIN inbox' = 1..Len(inbox')
      /\ \A i \in DOMAIN inbox : inbox[i] \in Packet
  BY <1>1, <1>2, LenProperties, ElementOfSeq
<1>4. /\ thread.packet = NoPacket => thread'.packet = NoPacket
      /\ thread.packet # NoPacket =>
            /\ thread.packet \in Packet
            /\ thread'.packet = Aged(thread.packet, c)
      /\ replies' = {r \in replies : r.client # c}
      /\ asked' = asked \cup {c}
  BY <1>1 DEF Send, ThreadOK
<1>5. ASSUME NEW i \in DOMAIN inbox
      PROVE  /\ inbox'[i].client = inbox[i].client
             /\ inbox[i].stale => inbox'[i].stale
             /\ inbox[i].client = c => inbox'[i].stale
  <2>1. PICK q : q = inbox[i]
    OBVIOUS
  <2>2. q \in Packet /\ inbox'[i] = Aged(q, c)
    BY <1>2, <1>3, <2>1
  <2>3. /\ Aged(q, c).client = q.client
        /\ q.stale => Aged(q, c).stale
        /\ q.client = c => Aged(q, c).stale
    BY <2>2, AgedPacket
  <2> QED
    BY <2>1, <2>2, <2>3
<1>6. ASSUME NEW i \in DOMAIN inbox', i \notin DOMAIN inbox
      PROVE  i = Len(inbox) + 1 /\ inbox'[i].client = c
  <2>0. Len(inbox') \in {Len(inbox), Len(inbox) + 1}
    BY <1>2
  <2>1. i = Len(inbox) + 1 /\ Len(inbox') = Len(inbox) + 1
    BY <1>3, <1>6, <2>0, GrownIndex
  <2>2. Len(inbox') # Len(inbox)
    BY <1>3, <2>0, <2>1, GrownIndex
  <2>3. inbox'[Len(inbox) + 1]
           = [type |-> type, client |-> c, ip |-> a, stale |-> FALSE]
    BY <1>2, <2>2
  <2> QED
    BY <2>1, <2>3
<1>7. ASSUME NEW i \in DOMAIN inbox', NEW j \in DOMAIN inbox',
             i < j, inbox'[i].client = inbox'[j].client
      PROVE  inbox'[i].stale
  <2>1. i \in DOMAIN inbox
    <3>1. Len(inbox') \in {Len(inbox), Len(inbox) + 1}
      BY <1>2
    <3> QED
      BY <1>3, <1>7, <3>1, GrownIndex
  <2>2. CASE j \in DOMAIN inbox
    BY <1>5, <1>7, <2>1, <2>2 DEF StaleInv
  <2>3. CASE j \notin DOMAIN inbox
    BY <1>5, <1>6, <1>7, <2>1, <2>3
  <2> QED
    BY <2>2, <2>3
<1>8. ASSUME thread'.packet # NoPacket, ~thread'.packet.stale,
             NEW i \in DOMAIN inbox'
      PROVE  inbox'[i].client # me'
  <2>1. /\ thread.packet # NoPacket /\ ~thread.packet.stale
        /\ thread.packet.client # c /\ me' = me
    BY <1>4, <1>8, AgedPacket DEF me
  <2>2. CASE i \in DOMAIN inbox
    BY <1>5, <2>1, <2>2 DEF StaleInv
  <2>3. CASE i \notin DOMAIN inbox
    BY <1>6, <2>1, <2>3 DEF me
  <2> QED
    BY <2>2, <2>3
<1>9. StaleInv'
  BY <1>7, <1>8 DEF StaleInv
<1>10. ASSUME NEW p \in InFlight'
       PROVE  /\ p.client \in asked'
              /\ \A r \in replies' : r.client # p.client
              /\ p.type \in {"DECLINE", "RELEASE"} => bound'[p.client] = NoLease
  <2>1. CASE p.client = c /\ p.type = type
    BY <1>4, <2>1
  <2>2. ASSUME NEW q \in InFlight, p.client = q.client, p.type = q.type
        PROVE  /\ p.client \in asked'
               /\ \A r \in replies' : r.client # p.client
               /\ p.type \in {"DECLINE", "RELEASE"} => bound'[p.client] = NoLease
    <3>1. q.client \in Clients
      <4>1. q \in Packet
        BY <1>1, <1>3, <2>2 DEF InFlight, ThreadOK
      <4> QED
        BY <4>1 DEF Packet
    <3> QED
      BY <1>1, <1>4, <2>2, <3>1 DEF PendingInv
  <2> QED
    BY <2>1, <2>2, SentInFlight
<1> QED
  BY <1>9, <1>10 DEF PendingInv

\* A client takes an answer only when no packet of its is on its way.
LEMMA ReplyNet ==
    ASSUME BaseInv, StaleInv, PendingInv, NEW r \in replies, ReceiveReply(r)
    PROVE  StaleInv' /\ PendingInv'
<1>1. /\ UNCHANGED <<thread, inbox>> /\ replies' \subseteq replies
      /\ asked' \in {asked, asked \ {r.client}}
      /\ bound' \in {[bound EXCEPT ![r.client] = r.lease],
                     [bound EXCEPT ![r.client] = NoLease]}
  BY DEF ReceiveReply
<1>2. bound \in [Clients -> Lease \cup {NoLease}] /\ asked \subseteq Clients
  BY TypeParts DEF BaseInv, StateOK, NetworkOK
<1>3. StaleInv'
  BY <1>1 DEF StaleInv, me
<1>4. InFlight' = InFlight
  BY <1>1 DEF InFlight
<1>5. \A p \in InFlight : p.client # r.client
  BY DEF PendingInv
<1>6. ASSUME NEW p \in InFlight, bound[p.client] = NoLease
      PROVE  bound'[p.client] = NoLease
  <2>1. p.client # r.client /\ p.client \in Clients
    BY <1>2, <1>5 DEF PendingInv
  <2>2. PICK d : d = p.client
    OBVIOUS
  <2> QED
    BY <1>1, <1>2, <1>6, <2>1, <2>2
<1> QED
  BY <1>1, <1>3, <1>4, <1>5, <1>6 DEF PendingInv

\* Packets are taken from the socket in order, so that a packet at hand that
\* is not stale was the last one of its client.
LEMMA ReceiveNet ==
    ASSUME ~Reordered, BaseInv, StaleInv, PendingInv, Receive
    PROVE  StaleInv' /\ PendingInv'
<1>1. ThreadOK /\ inbox \in Seq(Packet) /\ thread.packet = NoPacket
  BY TypeParts DEF BaseInv, StateOK, NetworkOK, ThreadOK, Receive
<1>2. PICK i \in DOMAIN inbox :
        /\ i = 1
        /\ inbox' = Seqs!RemoveAt(inbox, i)
        /\ thread' = [pc |-> FirstStep[inbox[i].type], packet |-> inbox[i]]
  BY DEF Receive
<1>3. UNCHANGED <<replies, bound, asked>>
  BY DEF Receive, elsewhere
<1>4. /\ inbox' \in Seq(Packet) /\ Len(inbox) \in Nat
      /\ Len(inbox') = Len(inbox) - 1
      /\ DOMAIN inbox = 1..Len(inbox) /\ DOMAIN inbox' = 1..Len(inbox')
      /\ \A j \in 1..(Len(inbox) - 1) :
            inbox'[j] = IF j < i THEN inbox[j] ELSE inbox[j + 1]
  BY <1>1, <1>2, RemoveAtProperties, LenProperties
<1>5. \A j \in DOMAIN inbox' : j + 1 \in DOMAIN inbox /\ inbox'[j] = inbox[j + 1]
                               /\ i < j + 1
  BY <1>2, <1>4
<1>6. thread'.packet = inbox[i]
  BY <1>2
<1>7. StaleInv'
  <2>1. ASSUME NEW j \in DOMAIN inbox', NEW k \in DOMAIN inbox', j < k,
               inbox'[j].client = inbox'[k].client
        PROVE  inbox'[j].stale
    <3>1. j + 1 < k + 1
      BY <1>4, <2>1
    <3> QED
      BY <1>5, <2>1, <3>1 DEF StaleInv
  <2>2. ASSUME ~inbox[i].stale, NEW j \in DOMAIN inbox'
        PROVE  inbox'[j].client # inbox[i].client
    BY <1>5, <2>2 DEF StaleInv
  <2> QED
    BY <1>6, <2>1, <2>2 DEF StaleInv, me
<1>8. InFlight' \subseteq InFlight
  <2>1. {inbox'[j] : j \in DOMAIN inbox'} \subseteq {inbox[j] : j \in DOMAIN inbox}
    BY <1>5
  <2> QED
    BY <1>6, <2>1 DEF InFlight
<1> QED
  BY <1>3, <1>7, <1>8 DEF PendingInv

\* What the handlers do with the packet at hand: they keep it, but for the
\* address, or they drop it and may answer it.
LEMMA HandlerSteps ==
    ASSUME BaseInv, ServerStep, thread.pc \notin {"idle", "down"}
    PROVE  /\ inbox' = inbox /\ UNCHANGED <<bound, asked>>
           /\ \/ /\ thread'.packet = NoPacket
                 /\ \/ replies' = replies
                    \/ /\ ~thread.packet.stale
                       /\ replies' = replies \cup
                             {[type |-> "NAK", client |-> me, lease |-> NoLease]}
                    \/ /\ ~thread.packet.stale
                       /\ SaveAndAcknowledge /\ Saved(myLease)
                       /\ replies' = replies \cup
                             {[type |-> "ACK", client |-> me, lease |-> myLease]}
              \/ /\ thread'.packet # NoPacket
                 /\ thread'.packet.client = thread.packet.client
                 /\ thread'.packet.type = thread.packet.type
                 /\ thread'.packet.stale = thread.packet.stale
                 /\ replies' = replies
<1> USE AtHand
<1>1. inbox' = inbox /\ UNCHANGED <<bound, asked>>
  BY ServerFrame DEF elsewhere
<1>2. ASSUME NEW pc, Goto(pc)
      PROVE  thread'.packet = thread.packet /\ thread'.packet # NoPacket
  BY <1>2 DEF Goto, ThreadOK
<1>3. Silent => thread'.packet = NoPacket /\ replies' = replies
  BY DEF Silent, ThreadIdle
<1>4. Answers("NAK", NoLease) =>
         /\ thread'.packet = NoPacket
         /\ \/ replies' = replies
            \/ /\ ~thread.packet.stale
               /\ replies' = replies \cup
                     {[type |-> "NAK", client |-> me, lease |-> NoLease]}
  BY DEF Answers, ThreadIdle
<1>5. CASE LookupReservation
  <2>1. CASE RM!ReservationOf(reservations, me) # NoLease
    <3> DEFINE v == RM!ReservationOf(reservations, me)
    <3>1. /\ thread' = [thread EXCEPT !.pc = "reserved", !.packet.ip = v.ip]
          /\ replies' = replies
      BY <1>5, <2>1 DEF LookupReservation
    <3> HIDE DEF v
    <3>2. thread'.packet = [thread.packet EXCEPT !.ip = v.ip]
      BY <3>1 DEF ThreadOK
    <3>3. /\ thread'.packet.client = thread.packet.client
          /\ thread'.packet.type = thread.packet.type
          /\ thread'.packet.stale = thread.packet.stale
      BY <3>2 DEF Packet
    <3>4. thread'.packet # NoPacket
      <4>1. thread.packet.type \in PacketTypes
        BY DEF Packet
      <4> QED
        BY <3>3, <4>1 DEF NoPacket, PacketTypes
    <3> QED
      BY <1>1, <3>1, <3>3, <3>4
  <2> QED
    BY <1>1, <1>2, <1>5, <2>1 DEF LookupReservation
<1>6. CASE \/ LookupForRequest \/ ObtainExisting \/ ReleaseLease
           \/ LookupForDecline \/ DeleteRow \/ SaveObtained
  BY <1>1, <1>2, <1>3, <1>6
     DEF LookupForRequest, ObtainExisting, ReleaseLease, LookupForDecline,
         DeleteRow, SaveObtained
<1>7. CASE AssignReserved \/ AssignRequested \/ AssignDynamic \/ RenewForRequest
  BY <1>1, <1>2, <1>3, <1>4, <1>7
     DEF AssignReserved, AssignRequested, AssignDynamic, RenewForRequest,
         AssignSpecific, ObtainFails
<1>8. CASE SaveAndAcknowledge
  <2>1. CASE Saved(myLease) /\ Answers("ACK", myLease)
    BY <1>1, <1>8, <2>1 DEF Answers, ThreadIdle
  <2>2. CASE SaveFails(myLease) /\ Silent
    BY <1>1, <1>3, <2>2
  <2> QED
    BY <1>8, <2>1, <2>2 DEF SaveAndAcknowledge
<1>9. ~Receive
  BY DEF Receive
<1> QED
  BY <1>5, <1>6, <1>7, <1>8, <1>9 DEF ServerStep

\* A handler drops its packet, and answers it only if it was the last one of
\* its client.
LEMMA HandlerNet ==
    ASSUME BaseInv, StaleInv, PendingInv, ServerStep,
           thread.pc \notin {"idle", "down"}
    PROVE  StaleInv' /\ PendingInv'
<1> USE AtHand
<1>1. inbox' = inbox /\ UNCHANGED <<bound, asked>>
  BY HandlerSteps
<1>2. CASE thread'.packet = NoPacket
  <2>1. StaleInv'
    BY <1>1, <1>2 DEF StaleInv
  <2>2. InFlight' = {inbox[i] : i \in DOMAIN inbox}
    BY <1>1, <1>2 DEF InFlight
  <2>3. \/ replies' = replies
        \/ /\ ~thread.packet.stale
           /\ \A r \in replies' : r \in replies \/ r.client = me
    BY <1>2, HandlerSteps
  <2>4. ~thread.packet.stale => \A p \in InFlight' : p.client # me
    BY <2>2 DEF StaleInv
  <2> QED
    BY <1>1, <2>1, <2>2, <2>3, <2>4 DEF PendingInv, InFlight
<1>3. CASE thread'.packet # NoPacket
  <2>1. /\ thread'.packet.client = thread.packet.client
        /\ thread'.packet.type = thread.packet.type
        /\ thread'.packet.stale = thread.packet.stale
        /\ replies' = replies
    BY <1>3, HandlerSteps
  <2>2. StaleInv'
    BY <1>1, <2>1 DEF StaleInv, me
  <2>3. ASSUME NEW p \in InFlight'
        PROVE  \E q \in InFlight : p.client = q.client /\ p.type = q.type
    BY <1>1, <2>1, <2>3 DEF InFlight
  <2> QED
    BY <1>1, <2>1, <2>2, <2>3 DEF PendingInv
<1> QED
  BY <1>2, <1>3

\* What is on its way, over every step.
LEMMA NetStep ==
    ASSUME ~Reordered, BaseInv, StaleInv, PendingInv, [Next]_vars
    PROVE  StaleInv' /\ PendingInv'
<1>1. CASE ClientStep
  <2>1. bound \in [Clients -> Lease \cup {NoLease}]
    BY TypeParts DEF BaseInv, StateOK, NetworkOK
  <2>2. ASSUME NEW c \in Clients, NEW a \in Addresses \cup {NoAddress},
               SendDiscover(c, a) \/ SendRequest(c, a) \/ SendDecline(c, a)
        PROVE  StaleInv' /\ PendingInv'
    BY <2>1, <2>2, SendNet
       DEF SendDiscover, SendRequest, SendDecline, PacketTypes
  <2>3. ASSUME NEW c \in Clients, SendRelease(c)
        PROVE  StaleInv' /\ PendingInv'
    BY <2>1, <2>3, SendNet DEF SendRelease, PacketTypes
  <2> QED
    BY <1>1, <2>2, <2>3, ReplyNet DEF ClientStep
<1>2. CASE ServerStep
  <2>1. Receive \/ thread.pc \notin {"idle", "down"}
    BY <1>2
       DEF ServerStep, LookupForRequest, RenewForRequest, ObtainExisting,
           LookupReservation, AssignReserved, AssignRequested, AssignDynamic,
           SaveObtained, SaveAndAcknowledge, LookupForDecline, ReleaseLease,
           DeleteRow
  <2> QED
    BY <1>2, <2>1, ReceiveNet, HandlerNet
<1>3. CASE Crash
  <2>1. inbox' = <<>> /\ thread'.packet = NoPacket
    BY <1>3 DEF Crash, ThreadDown, ThreadIdle
  <2>2. DOMAIN inbox' = {}
    BY <2>1
  <2> QED
    BY <2>1, <2>2 DEF StaleInv, PendingInv, InFlight
<1>4. CASE Boot
  <2>1. thread.packet = NoPacket /\ thread'.packet = NoPacket
        /\ UNCHANGED network
    BY <1>4, TypeParts DEF Boot, ThreadIdle, BaseInv, StateOK, ThreadOK
  <2> QED
    BY <2>1 DEF StaleInv, PendingInv, InFlight, network
<1>5. CASE ClockTick
  <2>1. UNCHANGED <<thread, inbox, replies, asked>>
        /\ \A c \in Clients : bound[c] = NoLease => bound'[c] = NoLease
    BY <1>5 DEF ClockTick
  <2>2. \A p \in InFlight : p.client \in Clients
    <3>1. ThreadOK /\ inbox \in Seq(Packet)
      BY TypeParts DEF BaseInv, StateOK, NetworkOK
    <3>2. \A i \in DOMAIN inbox : inbox[i] \in Packet
      BY <3>1, LenProperties, ElementOfSeq
    <3> QED
      BY <3>1, <3>2 DEF InFlight, ThreadOK, Packet
  <2> QED
    BY <2>1, <2>2 DEF StaleInv, PendingInv, InFlight, me
<1>6. CASE ApiBegins \/ ApiContinues \/ UNCHANGED vars
  <2>1. UNCHANGED <<thread, network>>
    BY <1>6
       DEF ApiBegins, ApiContinues, ReserveRead, ExcludeRead,
           RemoveReservationRow, RemoveExclusionRow, ApiCall, ReserveAdd,
           ReserveCommit, ExcludeCheck, ExcludeInPool, ExcludeCommit,
           RemoveReservationEntry, RemoveExclusionEntry, notControls, vars
  <2> QED
    BY <2>1 DEF StaleInv, PendingInv, InFlight, me, network
<1> QED
  BY <1>1, <1>2, <1>3, <1>4, <1>5, <1>6 DEF Next
-----------------------------------------------------------------------------
(* LeaseInv: the leases that clients use and those on their way to them.   *)

\* What a step of the DHCP thread does to the manager: nothing, or one call
\* for the client at hand.
LEMMA ServerCalls ==
    ASSUME BaseInv, ServerStep
    PROVE  \/ lm' = lm
           \/ /\ thread.pc \notin {"idle", "down"}
              /\ \E a \in Addresses : ClientCall(me) \/ AddressCall(me, a)
<1>1. PoolStart \in Addresses
  BY PoolAssumption
<1>2. CASE \/ LookupForRequest \/ ObtainExisting \/ LookupForDecline
           \/ RenewForRequest \/ AssignDynamic \/ ReleaseLease
  <2>1. ClientCall(me) /\ thread.pc \notin {"idle", "down"}
    BY <1>2 DEF LookupForRequest, ObtainExisting, LookupForDecline,
                RenewForRequest, AssignDynamic, ReleaseLease, ClientCall
  <2> QED
    BY <1>1, <2>1
<1>3. CASE AssignReserved \/ AssignRequested
  <2>1. /\ thread.pc \in {"reserved", "requested"}
        /\ \/ CreateSpecificLeases(me, thread.packet.ip)
           \/ CreateSpecificRefused(me, thread.packet.ip)
    BY <1>3 DEF AssignReserved, AssignRequested, AssignSpecific
  <2>2. thread.packet.ip \in Addresses
    BY <2>1 DEF BaseInv, HandlerInv
  <2> QED
    BY <2>1, <2>2 DEF AddressCall
<1>4. CASE \/ Receive \/ LookupReservation \/ SaveObtained
           \/ SaveAndAcknowledge \/ DeleteRow
  BY <1>4 DEF Receive, LookupReservation, SaveObtained, SaveAndAcknowledge,
              DeleteRow
<1> QED
  BY <1>2, <1>3, <1>4 DEF ServerStep

\* Starting the server and the control API leave the leases alone.
LEMMA ControlFrame ==
    ASSUME ApiBegins \/ ApiContinues \/ Boot \/ UNCHANGED vars
    PROVE  UNCHANGED <<lm, now, leaseRows, network, crashes>>
BY DEF ApiBegins, ApiContinues, ReserveRead, ExcludeRead, RemoveReservationRow,
       RemoveExclusionRow, ApiCall, memory, ReserveAdd, ReserveCommit,
       ExcludeCheck, ExcludeInPool, ExcludeCommit, RemoveReservationEntry,
       RemoveExclusionEntry, notControls, Exclude, Unexclude, Boot, tables, vars

\* The lease l of client c has just been committed and acknowledged.
JustAcknowledged(c, l) ==
    /\ SaveAndAcknowledge /\ Saved(myLease)
    /\ ~thread.packet.stale
    /\ c = me /\ l = myLease

\* Unless a client takes an answer, leases only end, and the one new answer
\* acknowledges the lease of the client at hand.
LEMMA BoundChange ==
    ASSUME BaseInv, [Next]_vars
    PROVE  \/ \E r \in replies : ReceiveReply(r)
           \/ /\ \A d \in Clients :
                    \/ bound'[d] = NoLease
                    \/ /\ bound'[d] = bound[d]
                       /\ now' = now \/ ~Expired(bound[d], now')
              /\ asked \subseteq asked'
              /\ now' \in {now, now + 1}
              /\ \A r \in replies' :
                    \/ r \in replies \/ r.type = "NAK"
                    \/ /\ JustAcknowledged(r.client, r.lease)
                       /\ r.type = "ACK"
<1> DEFINE Goal ==
       /\ \A d \in Clients :
             \/ bound'[d] = NoLease
             \/ /\ bound'[d] = bound[d]
                /\ now' = now \/ ~Expired(bound[d], now')
       /\ asked \subseteq asked'
       /\ now' \in {now, now + 1}
       /\ \A r \in replies' :
             \/ r \in replies \/ r.type = "NAK"
             \/ JustAcknowledged(r.client, r.lease) /\ r.type = "ACK"
<1>0. bound \in [Clients -> Lease \cup {NoLease}]
  BY TypeParts DEF BaseInv, StateOK, NetworkOK
<1>1. ASSUME NEW c \in Clients, NEW type, NEW a, Send(c, type, a),
             bound' \in {bound, [bound EXCEPT ![c] = NoLease]}
      PROVE  Goal
  BY <1>0, <1>1 DEF Send, memory
<1>2. CASE ClientStep
  <2>1. ASSUME NEW c \in Clients, NEW a,
               \/ SendDiscover(c, a) \/ SendRequest(c, a)
               \/ SendDecline(c, a) \/ SendRelease(c)
        PROVE  Goal
    <3>1. /\ \E t, x : Send(c, t, x)
          /\ bound' \in {bound, [bound EXCEPT ![c] = NoLease]}
      BY <2>1 DEF SendDiscover, SendRequest, SendDecline, SendRelease
    <3> QED
      BY <1>1, <3>1
  <2> QED
    BY <1>2, <2>1 DEF ClientStep
<1>3. CASE ServerStep
  <2>1. UNCHANGED <<bound, asked, now>>
    BY <1>3, ServerFrame DEF elsewhere
  <2>2. CASE thread.pc \in {"idle", "down"}
    <3>1. replies' = replies
      BY <1>3, <2>2
         DEF ServerStep, Receive, LookupForRequest, RenewForRequest,
             ObtainExisting, LookupReservation, AssignReserved,
             AssignRequested, AssignDynamic, SaveObtained, SaveAndAcknowledge,
             LookupForDecline, ReleaseLease, DeleteRow
    <3> QED
      BY <2>1, <3>1
  <2>3. CASE thread.pc \notin {"idle", "down"}
    <3>1. \A r \in replies' :
             \/ r \in replies \/ r.type = "NAK"
             \/ JustAcknowledged(r.client, r.lease) /\ r.type = "ACK"
      BY <1>3, <2>3, HandlerSteps DEF JustAcknowledged
    <3> QED
      BY <2>1, <3>1
  <2> QED
    BY <2>2, <2>3
<1>4. CASE Crash
  BY <1>4 DEF Crash
<1>5. CASE ClockTick
  BY <1>5 DEF ClockTick, Tick
<1>6. CASE ApiBegins \/ ApiContinues \/ Boot \/ UNCHANGED vars
  BY <1>6, ControlFrame DEF network
<1> QED
  BY <1>2, <1>3, <1>4, <1>5, <1>6 DEF Next

\* Leases name their client and run for at most the lease time, over every
\* step.
LEMMA EndsStep ==
    ASSUME BaseInv, EndsInv, [Next]_vars
    PROVE  EndsInv'
<1> DEFINE LmEnds == \A c \in Clients : lm.byClient[c] # NoLease =>
                        lm.byClient[c].end <= now + LeaseTime
<1>0. /\ bound \in [Clients -> Lease \cup {NoLease}] /\ replies \subseteq Reply
      /\ lm \in ManagerState /\ now \in Nat /\ LeaseTime \in Nat
      /\ LmEnds
  BY TypeParts, LeaseAssumption
     DEF BaseInv, StateOK, NetworkOK, LMTypeOK, EndsInv
<1>1. LmEnds'
  <2>1. ASSUME lm' = lm, now' \in {now, now + 1} PROVE LmEnds'
    <3>1. ASSUME NEW c \in Clients, lm.byClient[c] # NoLease
          PROVE  lm.byClient[c].end <= now' + LeaseTime
      <4>1. lm.byClient[c].end \in Nat /\ lm.byClient[c].end <= now + LeaseTime
        BY <1>0, <3>1 DEF ManagerState, Lease
      <4> QED
        BY <1>0, <2>1, <4>1
    <3> QED
      BY <2>1, <3>1
  <2>2. CASE ClientStep
    BY <2>1, <2>2 DEF ClientStep, SendDiscover, SendRequest, SendDecline,
                      SendRelease, Send, ReceiveReply, memory
  <2>3. CASE ServerStep
    <3>1. now' = now
      BY <2>3, ServerFrame
    <3>2. CASE lm' = lm
      BY <2>1, <3>1, <3>2
    <3>3. ASSUME thread.pc \notin {"idle", "down"}, NEW a \in Addresses,
                 ClientCall(me) \/ AddressCall(me, a)
          PROVE  LmEnds'
      <4>1. me \in Clients
        BY <3>3, AtHand
      <4>2. \A d \in Clients : lm'.byClient[d] # NoLease =>
               lm'.byClient[d].end <= now + LeaseTime
        BY <1>0, <3>3, <4>1, CallKeepsEnds DEF BaseInv
      <4> QED
        BY <3>1, <4>2
    <3> QED
      BY <2>3, <3>2, <3>3, ServerCalls
  <2>4. CASE Crash
    BY <2>4 DEF Crash, EmptyManager
  <2>5. CASE ClockTick
    BY <2>1, <2>5 DEF ClockTick, Tick
  <2>6. CASE ApiBegins \/ ApiContinues \/ Boot \/ UNCHANGED vars
    BY <2>1, <2>6, ControlFrame
  <2> QED
    BY <2>2, <2>3, <2>4, <2>5, <2>6 DEF Next
<1> HIDE DEF LmEnds
<1>2. ASSUME NEW r \in replies, ReceiveReply(r)
      PROVE  /\ (\A c \in Clients : bound[c] # NoLease =>
                    bound[c].client = c /\ bound[c].end > now)'
             /\ (\A x \in replies : x.type = "ACK" =>
                    /\ x.lease # NoLease
                    /\ x.lease.client = x.client
                    /\ x.lease.end <= now + LeaseTime)'
  <2>1. now' = now /\ replies' \subseteq replies
    BY <1>2 DEF ReceiveReply
  <2>2. r.client \in Clients
    BY <1>0 DEF Reply
  <2>3. CASE r.type = "ACK" /\ ~Expired(r.lease, now)
    <3>1. bound' = [bound EXCEPT ![r.client] = r.lease]
      BY <1>2, <2>3 DEF ReceiveReply
    <3>2. r.lease \in Lease /\ r.lease.client = r.client
      BY <1>0, <2>3 DEF Reply, EndsInv
    <3>3. r.lease.end > now
      BY <1>0, <2>3, <3>2 DEF Expired, Lease
    <3>4. \A c \in Clients : bound'[c] # NoLease =>
             bound'[c].client = c /\ bound'[c].end > now
      BY <1>0, <2>2, <3>1, <3>2, <3>3 DEF EndsInv
    <3> QED
      BY <2>1, <3>4 DEF EndsInv
  <2>4. CASE ~(r.type = "ACK" /\ ~Expired(r.lease, now))
    <3>1. bound' = [bound EXCEPT ![r.client] = NoLease]
      BY <1>2, <2>4 DEF ReceiveReply
    <3>2. \A c \in Clients : bound'[c] \in {bound[c], NoLease}
      BY <1>0, <3>1
    <3> QED
      BY <2>1, <3>2 DEF EndsInv
  <2> QED
    BY <2>3, <2>4
<1>3. ASSUME \A d \in Clients :
                \/ bound'[d] = NoLease
                \/ /\ bound'[d] = bound[d]
                   /\ now' = now \/ ~Expired(bound[d], now'),
             now' \in {now, now + 1},
             \A r \in replies' :
                \/ r \in replies \/ r.type = "NAK"
                \/ JustAcknowledged(r.client, r.lease) /\ r.type = "ACK"
      PROVE  /\ (\A c \in Clients : bound[c] # NoLease =>
                    bound[c].client = c /\ bound[c].end > now)'
             /\ (\A x \in replies : x.type = "ACK" =>
                    /\ x.lease # NoLease
                    /\ x.lease.client = x.client
                    /\ x.lease.end <= now + LeaseTime)'
  <2>1. ASSUME NEW c \in Clients, bound'[c] # NoLease
        PROVE  bound'[c].client = c /\ bound'[c].end > now'
    <3>1. bound'[c] = bound[c] /\ bound[c] \in Lease /\ bound[c].client = c
      BY <1>0, <1>3, <2>1 DEF EndsInv
    <3>2. bound[c].end \in Nat /\ bound[c].end > now
      BY <1>0, <3>1, <2>1 DEF EndsInv, Lease
    <3> QED
      BY <1>0, <1>3, <2>1, <3>1, <3>2 DEF Expired
  <2>2. ASSUME NEW x \in replies', x.type = "ACK"
        PROVE  /\ x.lease # NoLease
               /\ x.lease.client = x.client
               /\ x.lease.end <= now' + LeaseTime
    <3>1. CASE x \in replies
      <4>1. /\ x.lease # NoLease /\ x.lease \in Lease
            /\ x.lease.client = x.client
            /\ x.lease.end <= now + LeaseTime
        BY <1>0, <2>2, <3>1 DEF EndsInv, Reply
      <4>2. x.lease.end \in Nat
        BY <4>1 DEF Lease
      <4> QED
        BY <1>0, <1>3, <4>1, <4>2
    <3>2. CASE JustAcknowledged(x.client, x.lease)
      <4>1. thread.pc = "acknowledge" /\ now' = now
        BY <3>2 DEF JustAcknowledged, SaveAndAcknowledge
      <4>2. myLease # NoLease /\ me \in Clients /\ myLease.client = me
        BY <4>1, AtHand DEF BaseInv, TypeOK
      <4> QED
        BY <1>0, <3>2, <4>1, <4>2 DEF JustAcknowledged, EndsInv, myLease
    <3> QED
      BY <1>3, <2>2, <3>1, <3>2
  <2> QED
    BY <2>1, <2>2
<1>4. /\ (\A c \in Clients : bound[c] # NoLease =>
              bound[c].client = c /\ bound[c].end > now)'
      /\ (\A x \in replies : x.type = "ACK" =>
              /\ x.lease # NoLease
              /\ x.lease.client = x.client
              /\ x.lease.end <= now + LeaseTime)'
  BY <1>2, <1>3, BoundChange
<1> QED
  BY <1>1, <1>4 DEF EndsInv, LmEnds
\* When a lease is acknowledged and on its way, settled, or usable; now and
\* after a step.
LEMMA InUseMeans ==
    ASSUME NEW c, NEW l
    PROVE  /\ l \in Acknowledged(c) <=>
                 \E r \in replies : r.type = "ACK" /\ r.client = c /\ r.lease = l
           /\ l \in Acknowledged(c)' <=>
                 \E r \in replies' : r.type = "ACK" /\ r.client = c /\ r.lease = l
           /\ l \in Settled(c) <=>
                 (l = bound[c] /\ Quiet(c)) \/ l \in Acknowledged(c)
           /\ l \in Settled(c)' <=>
                 (l = bound'[c] /\ Quiet(c)') \/ l \in Acknowledged(c)'
           /\ l \in Usable(c) <=>
                 /\ l = bound[c] \/ l \in Acknowledged(c)
                 /\ l # NoLease /\ l.end > now
           /\ l \in Usable(c)' <=>
                 /\ l = bound'[c] \/ l \in Acknowledged(c)'
                 /\ l # NoLease /\ l.end > now'
<1>1. /\ l \in Acknowledged(c) <=>
            \E r \in replies : r.type = "ACK" /\ r.client = c /\ r.lease = l
      /\ l \in Acknowledged(c)' <=>
            \E r \in replies' : r.type = "ACK" /\ r.client = c /\ r.lease = l
  BY DEF Acknowledged
<1>2. /\ l \in Settled(c) <=> (l = bound[c] /\ Quiet(c)) \/ l \in Acknowledged(c)
      /\ l \in Settled(c)' <=>
            (l = bound'[c] /\ Quiet(c)') \/ l \in Acknowledged(c)'
  BY DEF Settled
<1>3. /\ l \in Usable(c) <=> /\ l = bound[c] \/ l \in Acknowledged(c)
                             /\ l # NoLease /\ l.end > now
      /\ l \in Usable(c)' <=> /\ l = bound'[c] \/ l \in Acknowledged(c)'
                              /\ l # NoLease /\ l.end > now'
  BY DEF Usable
<1> QED
  BY <1>1, <1>2, <1>3

\* Leases in use are leases.
LEMMA InUseShape ==
    ASSUME BaseInv, EndsInv, NEW c \in Clients, NEW l,
           l \in Settled(c) \/ l \in Usable(c)
    PROVE  l \in Lease /\ l # NoLease /\ l.end \in Nat
<1>1. bound \in [Clients -> Lease \cup {NoLease}] /\ replies \subseteq Reply
  BY TypeParts DEF BaseInv, StateOK, NetworkOK
<1>2. (l = bound[c] /\ l # NoLease) \/ l \in Acknowledged(c)
  BY InUseMeans DEF Quiet
<1>3. ASSUME l \in Acknowledged(c) PROVE l \in Lease /\ l # NoLease
  BY <1>1, <1>3, InUseMeans DEF EndsInv, Reply
<1> QED
  BY <1>1, <1>2, <1>3 DEF Lease

\* A step brings no lease into use but the one it acknowledges.
LEMMA LeasesInUse ==
    ASSUME BaseInv, EndsInv, [Next]_vars, NEW c \in Clients, NEW l
    PROVE  /\ l \in Settled(c)' => l \in Settled(c) \/ JustAcknowledged(c, l)
           /\ l \in Usable(c)' => l \in Usable(c) \/ JustAcknowledged(c, l)
<1>1. /\ bound \in [Clients -> Lease \cup {NoLease}] /\ replies \subseteq Reply
      /\ now \in Nat
  BY TypeParts DEF BaseInv, StateOK, NetworkOK, LMTypeOK
<1>2. ASSUME NEW r \in replies, ReceiveReply(r)
      PROVE  /\ l \in Settled(c)' => l \in Settled(c)
             /\ l \in Usable(c)' => l \in Usable(c)
  <2>1. now' = now /\ replies' \subseteq replies
    BY <1>2 DEF ReceiveReply
  <2>2. l \in Acknowledged(c)' => l \in Acknowledged(c)
    BY <2>1, InUseMeans
  <2>3. CASE r.type = "ACK" /\ ~Expired(r.lease, now)
    <3>1. /\ bound' = [bound EXCEPT ![r.client] = r.lease]
          /\ asked' = asked \ {r.client}
      BY <1>2, <2>3 DEF ReceiveReply
    <3>2. CASE c = r.client
      <4>1. bound'[c] = r.lease
        BY <1>1, <3>1, <3>2
      <4>2. r.lease \in Acknowledged(c)
        BY <2>3, <3>2, InUseMeans
      <4> QED
        BY <2>1, <2>2, <4>1, <4>2, InUseMeans
    <3>3. CASE c # r.client
      <4>1. bound'[c] = bound[c] /\ (c \in asked => c \in asked')
        BY <1>1, <3>1, <3>3
      <4> QED
        BY <2>1, <2>2, <4>1, InUseMeans DEF Quiet
    <3> QED
      BY <3>2, <3>3
  <2>4. CASE ~(r.type = "ACK" /\ ~Expired(r.lease, now))
    <3>1. bound' = [bound EXCEPT ![r.client] = NoLease] /\ asked' = asked
      BY <1>2, <2>4 DEF ReceiveReply
    <3>2. bound'[c] \in {bound[c], NoLease}
      BY <1>1, <3>1
    <3> QED
      BY <2>1, <2>2, <3>1, <3>2, InUseMeans DEF Quiet
  <2> QED
    BY <2>3, <2>4
<1>3. ASSUME bound'[c] = NoLease \/ bound'[c] = bound[c],
             asked \subseteq asked', now' \in {now, now + 1},
             \A r \in replies' :
                \/ r \in replies \/ r.type = "NAK"
                \/ JustAcknowledged(r.client, r.lease) /\ r.type = "ACK"
      PROVE  /\ l \in Settled(c)' => l \in Settled(c) \/ JustAcknowledged(c, l)
             /\ l \in Usable(c)' => l \in Usable(c) \/ JustAcknowledged(c, l)
  <2>1. l \in Acknowledged(c)' =>
           l \in Acknowledged(c) \/ JustAcknowledged(c, l)
    <3>1. ASSUME NEW r \in replies', r.type = "ACK", r.client = c, r.lease = l
          PROVE  r \in replies \/ JustAcknowledged(c, l)
      BY <1>3, <3>1
    <3> QED
      BY <3>1, InUseMeans
  <2>2. ASSUME l \in Settled(c)'
        PROVE  l \in Settled(c) \/ JustAcknowledged(c, l)
    <3>1. CASE l = bound'[c] /\ Quiet(c)'
      BY <1>3, <3>1, InUseMeans DEF Quiet
    <3>2. CASE l \in Acknowledged(c)'
      BY <2>1, <3>2, InUseMeans
    <3> QED
      BY <2>2, <3>1, <3>2, InUseMeans
  <2>3. ASSUME l \in Usable(c)'
        PROVE  l \in Usable(c) \/ JustAcknowledged(c, l)
    <3>1. /\ l = bound'[c] \/ l \in Acknowledged(c)'
          /\ l # NoLease /\ l.end > now'
      BY <2>3, InUseMeans
    <3>2. CASE JustAcknowledged(c, l)
      BY <3>2
    <3>3. CASE ~JustAcknowledged(c, l)
      <4>1. l = bound[c] \/ l \in Acknowledged(c)
        BY <1>3, <2>1, <3>1, <3>3
      <4>2. l \in Lease
        BY <1>1, <3>1, <4>1, InUseMeans DEF Reply, EndsInv
      <4>3. l.end > now
        BY <1>1, <1>3, <3>1, <4>2 DEF Lease
      <4> QED
        BY <3>1, <4>1, <4>3, InUseMeans
    <3> QED
      BY <3>2, <3>3
  <2> QED
    BY <2>2, <2>3
<1> QED
  BY <1>2, <1>3, BoundChange

\* No lease of the client at hand is settled, and one that gives its lease up
\* uses none.
LEMMA MeUnsettled ==
    ASSUME BaseInv, PendingInv, thread.pc \notin {"idle", "down"}
    PROVE  /\ \A l : l \notin Settled(me) /\ l \notin Acknowledged(me)
           /\ thread.packet.type \in {"DECLINE", "RELEASE"} =>
                 bound[me] = NoLease
<1>1. thread.packet \in InFlight
  BY AtHand DEF InFlight
<1>2. /\ me \in asked /\ \A r \in replies : r.client # me
      /\ thread.packet.type \in {"DECLINE", "RELEASE"} => bound[me] = NoLease
  BY <1>1 DEF PendingInv, me
<1> QED
  BY <1>2, InUseMeans DEF Quiet

\* A lease that the manager knows of and a client uses stays known: nobody but
\* its client can end it, and that one does not use it any more when it does.
LEMMA BackedStays ==
    ASSUME BaseInv, BaseInv', PendingInv, EndsInv, [Next]_vars, ~Crash,
           NEW c \in Clients, NEW l \in Lease,
           l = bound[c] \/ l \in Acknowledged(c), l.end > now,
           Backed(c, l)
    PROVE  Backed(c, l)'
<1>1. /\ l # NoLease /\ l.end \in Nat /\ now \in Nat /\ LMInv /\ LMInv'
      /\ lm \in ManagerState
  BY LeaseAssumption DEF Lease, BaseInv, LMInv, LMTypeOK
<1>2. /\ lm.byClient[c] # NoLease /\ lm.byClient[c] \in Lease
      /\ lm.byClient[c].ip = l.ip /\ lm.byClient[c].end >= l.end
  BY <1>1 DEF Backed, ManagerState
<1>3. HasActive(lm, c, now)
  BY <1>1, <1>2 DEF HasActive, Expired, Lease
<1>4. ASSUME lm'.byClient[c] = lm.byClient[c] PROVE Backed(c, l)'
  BY <1>4 DEF Backed
<1>5. CASE ServerStep
  <2>1. CASE lm' = lm
    BY <1>4, <2>1
  <2>2. ASSUME lm' # lm PROVE Backed(c, l)'
    <3>1. PICK a \in Addresses : ClientCall(me) \/ AddressCall(me, a)
      BY <1>5, <2>2, ServerCalls
    <3>2. thread.pc \notin {"idle", "down"} /\ me \in Clients
      BY <1>5, <2>2, ServerCalls, AtHand
    <3>3. CASE c # me
      BY <1>1, <1>3, <1>4, <3>1, <3>2, <3>3, OthersKeepLease
    <3>4. CASE c = me
      <4>1. CASE LookupForRequest \/ ObtainExisting \/ LookupForDecline
        <5>1. GetByClient(c)
          BY <3>4, <4>1
             DEF LookupForRequest, ObtainExisting, LookupForDecline
        <5> QED
          BY <1>1, <1>3, <1>4, <3>1, <5>1, OwnLeaseAfter
      <4>2. CASE RenewForRequest
        <5>1. Renew(c)
          BY <1>3, <3>4, <4>2 DEF RenewForRequest, RenewNotFound
        <5>2. lm'.byClient[c] = [lm.byClient[c] EXCEPT !.end = now + LeaseTime]
          BY <1>1, <3>1, <5>1, OwnLeaseAfter
        <5>3. /\ lm'.byClient[c] \in Lease /\ lm'.byClient[c].ip = l.ip
              /\ lm'.byClient[c].end = now + LeaseTime
          BY <1>1, <1>2, <5>2, LeaseAssumption DEF Lease
        <5>4. now + LeaseTime >= l.end
          BY <1>1, <1>2, LeaseAssumption DEF EndsInv, Lease
        <5> QED
          BY <5>3, <5>4, LeaseAssumption DEF Backed, Lease
      <4>3. ASSUME AssignReserved \/ AssignRequested \/ AssignDynamic
            PROVE  FALSE
        <5>1. myLease = NoLease
          BY <4>3 DEF AssignReserved, AssignRequested, AssignDynamic, BaseInv,
                      HandlerInv
        <5> QED
          BY <1>2, <3>4, <5>1 DEF myLease
      <4>4. ASSUME ReleaseLease PROVE FALSE
        <5>1. thread.packet.type \in {"DECLINE", "RELEASE"}
          BY <4>4 DEF ReleaseLease, BaseInv, HandlerInv
        <5> QED
          BY <1>1, <3>2, <3>4, <5>1, MeUnsettled
      <4>5. CASE \/ Receive \/ LookupReservation \/ SaveObtained
                 \/ SaveAndAcknowledge \/ DeleteRow
        BY <2>2, <4>5 DEF Receive, LookupReservation, SaveObtained,
                          SaveAndAcknowledge, DeleteRow
      <4> QED
        BY <1>5, <4>1, <4>2, <4>3, <4>4, <4>5 DEF ServerStep
    <3> QED
      BY <3>3, <3>4
  <2> QED
    BY <2>1, <2>2
<1>6. CASE ClientStep \/ ClockTick
  BY <1>4, <1>6 DEF ClientStep, SendDiscover, SendRequest, SendDecline,
                    SendRelease, Send, ReceiveReply, memory, ClockTick, Tick
<1>7. CASE ApiBegins \/ ApiContinues \/ Boot \/ UNCHANGED vars
  BY <1>4, <1>7, ControlFrame
<1> QED
  BY <1>5, <1>6, <1>7 DEF Next

\* The lease that is acknowledged is the manager's, and saved.
LEMMA AcknowledgedLease ==
    ASSUME BaseInv, BaseInv', NEW c, NEW l, JustAcknowledged(c, l)
    PROVE  /\ c \in Clients /\ l \in Lease /\ l.client = c
           /\ lm.byIp[l.ip] = l /\ l.ip \in PoolRange
           /\ thread.pc = "acknowledge"
           /\ leaseRows' = [leaseRows EXCEPT ![c] = l] /\ RowFits(l)
           /\ UNCHANGED <<lm, excluded, now, elsewhere>>
           /\ Backed(c, l)'
<1>1. /\ thread.pc = "acknowledge" /\ Saved(l) /\ c = me /\ l = myLease
      /\ UNCHANGED <<lm, excluded, now, elsewhere>>
  BY DEF JustAcknowledged, SaveAndAcknowledge
<1>2. /\ me \in Clients /\ myLease \in Lease /\ myLease # NoLease
      /\ myLease.client = me /\ myLease.ip \in PoolRange
  BY <1>1, AtHand DEF BaseInv, TypeOK
<1>3. lm.byIp[myLease.ip] = myLease
  BY <1>2 DEF BaseInv, LMInv, ManagerConsistent, Consistent, IndexesAgree,
              myLease
<1>4. lm'.byClient[c] = l /\ l.end \in Nat
  BY <1>1, <1>2 DEF myLease, Lease
<1>5. Backed(c, l)'
  BY <1>1, <1>2, <1>4 DEF Backed
<1> QED
  BY <1>1, <1>2, <1>3, <1>5 DEF Saved

\* Only a crash is counted.
LEMMA CrashesStep ==
    ASSUME BaseInv, [Next]_vars
    PROVE  IF Crash THEN crashes' # 0 ELSE crashes' = crashes
<1>1. crashes \in Nat
  BY ServerAssumption DEF BaseInv, TypeOK
<1>2. ~Crash => crashes' = crashes
  <2>1. CASE ServerStep
    BY <2>1, ServerFrame DEF elsewhere
  <2>2. CASE ClientStep \/ ClockTick
    BY <2>2 DEF ClientStep, SendDiscover, SendRequest, SendDecline,
                SendRelease, Send, ReceiveReply, ClockTick
  <2>3. CASE ApiBegins \/ ApiContinues \/ Boot \/ UNCHANGED vars
    BY <2>3, ControlFrame
  <2> QED
    BY <2>1, <2>2, <2>3 DEF Next
<1>3. Crash => crashes' # 0
  BY <1>1 DEF Crash
<1> QED
  BY <1>2, <1>3

\* The manager knows of every lease in use until the process ends.
LEMMA BackedStep ==
    ASSUME BaseInv, BaseInv', PendingInv, EndsInv, EndsInv', BackedInv,
           [Next]_vars
    PROVE  BackedInv'
<1> SUFFICES ASSUME crashes' = 0, NEW c \in Clients, NEW l \in Usable(c)'
             PROVE  Backed(c, l)'
  BY DEF BackedInv
<1>1. ~Crash /\ crashes = 0
  BY CrashesStep
<1>2. CASE JustAcknowledged(c, l)
  BY <1>2, AcknowledgedLease
<1>3. CASE l \in Usable(c)
  <2>1. Backed(c, l)
    BY <1>1, <1>3 DEF BackedInv
  <2>2. l \in Lease /\ l.end > now /\ (l = bound[c] \/ l \in Acknowledged(c))
    BY <1>3, InUseShape, InUseMeans
  <2> QED
    BY <1>1, <2>1, <2>2, BackedStays
<1> QED
  BY <1>2, <1>3, LeasesInUse
\* What a step does to the table of leases: one row is committed or deleted,
\* that of the client at hand.
LEMMA RowsChange ==
    ASSUME BaseInv, [Next]_vars
    PROVE  \/ leaseRows' = leaseRows
           \/ /\ thread.pc \notin {"idle", "down"}
              /\ leaseRows' = [leaseRows EXCEPT ![me] = NoLease]
           \/ /\ thread.pc \notin {"idle", "down"}
              /\ myLease # NoLease /\ RowFits(myLease)
              /\ leaseRows' = [leaseRows EXCEPT ![me] = myLease]
<1>1. CASE SaveObtained \/ SaveAndAcknowledge
  <2>1. /\ thread.pc \in {"save", "acknowledge"}
        /\ Saved(myLease) \/ SaveFails(myLease)
    BY <1>1 DEF SaveObtained, SaveAndAcknowledge
  <2>2. myLease # NoLease /\ myLease.client = me
    BY <2>1, AtHand DEF BaseInv, TypeOK
  <2> QED
    BY <2>1, <2>2 DEF Saved, SaveFails
<1>2. CASE DeleteRow
  BY <1>2 DEF DeleteRow
<1>3. CASE ServerStep /\ ~(SaveObtained \/ SaveAndAcknowledge \/ DeleteRow)
  BY <1>3 DEF ServerStep, Receive, LookupForRequest, RenewForRequest,
              ObtainExisting, LookupReservation, AssignReserved,
              AssignRequested, AssignDynamic, LookupForDecline, ReleaseLease
<1>4. CASE ClientStep \/ ClockTick \/ Crash
  BY <1>4 DEF ClientStep, SendDiscover, SendRequest, SendDecline, SendRelease,
              Send, ReceiveReply, ClockTick, Crash, tables
<1>5. CASE ApiBegins \/ ApiContinues \/ Boot \/ UNCHANGED vars
  BY <1>5, ControlFrame
<1> QED
  BY <1>1, <1>2, <1>3, <1>4, <1>5 DEF Next

\* The table has an address for one client, and every settled lease: while the
\* row of a client changes, none of its leases is settled.
LEMMA RecordedStep ==
    ASSUME BaseInv, BaseInv', PendingInv, EndsInv, RecordedInv, [Next]_vars
    PROVE  RecordedInv'
<1>0. leaseRows \in [Clients -> Lease \cup {NoLease}]
  BY TypeParts DEF BaseInv, StateOK
<1>1. ASSUME NEW c \in Clients, NEW d \in Clients, c # d,
             leaseRows'[c] # NoLease, leaseRows'[d] # NoLease
      PROVE  leaseRows'[c].ip # leaseRows'[d].ip
  <2>1. CASE leaseRows' = leaseRows
    BY <1>1, <2>1 DEF RecordedInv
  <2>2. CASE /\ thread.pc \notin {"idle", "down"}
             /\ leaseRows' = [leaseRows EXCEPT ![me] = NoLease]
    <3>1. \A e \in Clients : leaseRows'[e] \in {leaseRows[e], NoLease}
      BY <1>0, <2>2
    <3> QED
      BY <1>1, <3>1 DEF RecordedInv
  <2>3. CASE /\ thread.pc \notin {"idle", "down"}
             /\ myLease # NoLease /\ RowFits(myLease)
             /\ leaseRows' = [leaseRows EXCEPT ![me] = myLease]
    <3>1. /\ myLease.client = me /\ leaseRows'[me] = myLease
          /\ \A e \in Clients \ {me} : leaseRows'[e] = leaseRows[e]
      BY <1>0, <2>3, AtHand
    <3>2. \A e \in Clients \ {me} :
             leaseRows[e] # NoLease => leaseRows[e].ip # myLease.ip
      BY <2>3, <3>1 DEF RowFits
    <3> QED
      BY <1>1, <3>1, <3>2 DEF RecordedInv
  <2> QED
    BY <2>1, <2>2, <2>3, RowsChange
<1>2. ASSUME NEW c \in Clients, NEW l \in Settled(c)'
      PROVE  /\ leaseRows'[c] # NoLease
             /\ leaseRows'[c].ip = l.ip
             /\ leaseRows'[c].end >= l.end
  <2>1. CASE JustAcknowledged(c, l)
    <3>1. leaseRows'[c] = l /\ l \in Lease
      BY <1>0, <2>1, AcknowledgedLease
    <3>2. l # NoLease /\ l.end \in Nat
      BY <3>1, LeaseAssumption DEF Lease
    <3> QED
      BY <3>1, <3>2
  <2>2. CASE l \in Settled(c)
    <3>1. thread.pc \notin {"idle", "down"} => c # me
      BY <2>2, MeUnsettled
    <3>2. leaseRows'[c] = leaseRows[c]
      BY <1>0, <3>1, RowsChange
    <3> QED
      BY <2>2, <3>2 DEF RecordedInv
  <2> QED
    BY <1>2, <2>1, <2>2, LeasesInUse
<1> QED
  BY <1>1, <1>2 DEF RecordedInv

\* Addresses that become withheld: the one that the API excludes in the pool,
\* if the pool has not allocated it, and then no others.
LEMMA WithheldChange ==
    ASSUME BaseInv, ControlInv, [Next]_vars
    PROVE  \/ excluded' \cup exclusionRows' \subseteq excluded \cup exclusionRows
           \/ /\ api.pc = "exclude-pool" /\ api.ip \notin lm.allocated
              /\ excluded' = excluded \cup {api.ip}
              /\ exclusionRows' = exclusionRows
              /\ UNCHANGED <<lm, now, network>>
<1>1. CASE ServerStep
  BY <1>1, ServerFrame DEF elsewhere
<1>2. CASE ClientStep \/ ClockTick
  BY <1>2 DEF ClientStep, SendDiscover, SendRequest, SendDecline, SendRelease,
              Send, ReceiveReply, ClockTick, Tick, memory, tables
<1>3. CASE Crash \/ Boot
  <2>1. /\ exclusionRows' = exclusionRows
        /\ excluded' \subseteq exclusionRows
    BY <1>3 DEF Crash, Boot, tables
  <2> QED
    BY <2>1
<1>4. CASE UNCHANGED vars
  BY <1>4 DEF vars, memory, tables
<1>5. CASE ApiBegins
  BY <1>5 DEF ApiBegins, ReserveRead, ExcludeRead, RemoveReservationRow,
              RemoveExclusionRow, ApiCall, memory
<1>6. CASE ExcludeInPool
  BY <1>6 DEF ExcludeInPool, Exclude, CanExclude, Unexclude, notControls
<1>7. CASE ExcludeCommit
  <2>1. /\ \/ exclusionRows' = exclusionRows \cup {api.ip}
              /\ excluded' = excluded
           \/ exclusionRows' = exclusionRows /\ excluded' \subseteq excluded
        /\ api.pc = "exclude-commit"
    BY <1>7 DEF ExcludeCommit, Unexclude
  <2>2. thread.pc # "down"
    BY <2>1 DEF BaseInv, HandlerInv
  <2>3. api.ip \in excluded
    BY <2>1, <2>2 DEF ControlInv, ExclusionsFollow
  <2> QED
    BY <2>1, <2>3
<1>8. CASE \/ ReserveAdd \/ ReserveCommit \/ ExcludeCheck
           \/ RemoveReservationEntry \/ RemoveExclusionEntry
  BY <1>8 DEF ReserveAdd, ReserveCommit, ExcludeCheck, RemoveReservationEntry,
              RemoveExclusionEntry, Unexclude
<1> QED
  BY <1>1, <1>2, <1>3, <1>4, <1>5, <1>6, <1>7, <1>8 DEF Next, ApiContinues

\* When the API begins to wait for the pool, no settled lease that runs is on
\* its address.
LEMMA WaitsForPool ==
    ASSUME RecordedInv, BaseInv, EndsInv, [Next]_vars, ~Crash,
           NEW c \in Clients, NEW l \in Settled(c), l.end > now,
           api'.pc = "exclude-pool", l.ip = api'.ip
    PROVE  api.pc = "exclude-pool" /\ api'.ip = api.ip
<1>0. /\ api \in [pc : ApiAt, client : Clients \cup {NoLease},
                  ip : Addresses \cup {NoAddress}]
      /\ leaseRows \in [Clients -> Lease \cup {NoLease}] /\ now \in Nat
  BY TypeParts DEF BaseInv, StateOK, TablesOK, LMTypeOK
<1>1. CASE UNCHANGED api
  BY <1>1
<1>2. CASE ApiBegins
  BY <1>2 DEF ApiBegins, ReserveRead, ExcludeRead, RemoveReservationRow,
              RemoveExclusionRow, ApiCall
<1>3. CASE ExcludeCheck
  <2>1. api'.pc # "idle"
    OBVIOUS
  <2>2. api'.ip = api.ip /\ ~ActiveRow(Clients, api.ip)
    BY <1>0, <1>3, <2>1 DEF ExcludeCheck, ApiGoto, ApiIdle
  <2>3. /\ leaseRows[c] # NoLease /\ leaseRows[c].ip = l.ip
        /\ leaseRows[c].end >= l.end
    BY DEF RecordedInv
  <2>4. leaseRows[c].end > now
    BY <1>0, <2>3, InUseShape DEF Lease
  <2> QED
    BY <2>2, <2>3, <2>4 DEF ActiveRow
<1>4. CASE \/ ReserveAdd \/ ReserveCommit \/ ExcludeInPool \/ ExcludeCommit
           \/ RemoveReservationEntry \/ RemoveExclusionEntry
  <2>1. api'.pc # "exclude-pool"
    BY <1>0, <1>4 DEF ReserveAdd, ReserveCommit, ExcludeInPool, ExcludeCommit,
                      RemoveReservationEntry, RemoveExclusionEntry, ApiGoto,
                      ApiIdle
  <2> QED
    BY <2>1
<1>5. CASE ServerStep
  BY <1>1, <1>5, ServerFrame DEF elsewhere
<1>6. CASE ClientStep \/ ClockTick \/ Boot \/ UNCHANGED vars
  BY <1>1, <1>6 DEF ClientStep, SendDiscover, SendRequest, SendDecline,
                    SendRelease, Send, ReceiveReply, ClockTick, Boot, vars
<1> QED
  BY <1>2, <1>3, <1>4, <1>5, <1>6 DEF Next, ApiContinues

\* No settled lease that runs is on a withheld address: the API looks at the
\* table before it waits for the pool, and the pool refuses an address whose
\* lease was acknowledged meanwhile.
LEMMA WithheldStep ==
    ASSUME BaseInv, BaseInv', ControlInv, PendingInv, EndsInv, RecordedInv,
           WithheldInv, [Next]_vars
    PROVE  WithheldInv'
<1> SUFFICES ASSUME NEW c \in Clients, NEW l \in Settled(c)', l.end > now'
             PROVE  /\ l.ip \notin excluded' \cup exclusionRows'
                    /\ api'.pc = "exclude-pool" /\ l.ip = api'.ip =>
                          Backed(c, l)'
  BY DEF WithheldInv
<1>0. now \in Nat /\ LMInv /\ now' \in Nat
  BY DEF BaseInv, LMInv, LMTypeOK
<1>1. CASE JustAcknowledged(c, l)
  <2>1. /\ lm.byIp[l.ip] = l /\ l \in Lease /\ thread.pc = "acknowledge"
        /\ UNCHANGED <<excluded, exclusionRows>> /\ Backed(c, l)'
    BY <1>1, AcknowledgedLease DEF elsewhere
  <2>2. l # NoLease
    BY <2>1, LeaseAssumption DEF Lease
  <2>3. l.ip \notin excluded
    BY <1>0, <2>1, <2>2 DEF LMInv, ExcludedNotLeased
  <2>4. exclusionRows \subseteq excluded
    BY <2>1 DEF ControlInv, ExclusionsFollow
  <2> QED
    BY <2>1, <2>3, <2>4
<1>2. CASE l \in Settled(c)
  <2>1. l \in Lease /\ (l = bound[c] \/ l \in Acknowledged(c)) /\ l.end \in Nat
    BY <1>2, InUseShape, InUseMeans
  <2>2. l.end > now
    <3>1. now' >= now
      BY <1>0, BoundChange DEF ReceiveReply
    <3> QED
      BY <1>0, <2>1, <3>1
  <2>3. /\ l.ip \notin excluded \cup exclusionRows
        /\ api.pc = "exclude-pool" /\ l.ip = api.ip => Backed(c, l)
    BY <1>2, <2>2 DEF WithheldInv
  <2>4. l.ip \notin excluded' \cup exclusionRows'
    <3>1. ASSUME api.pc = "exclude-pool", l.ip = api.ip,
                 api.ip \notin lm.allocated
          PROVE  FALSE
      <4>1. lm.byClient[c] # NoLease /\ lm.byClient[c].ip = l.ip
        BY <2>3, <3>1 DEF Backed
      <4>2. lm.byIp[l.ip] # NoLease /\ l.ip \in Addresses
        BY <1>0, <2>1, <4>1
           DEF LMInv, ManagerConsistent, Consistent, IndexesAgree, Lease
      <4> QED
        BY <1>0, <3>1, <4>2
           DEF LMInv, ManagerConsistent, Consistent, PoolMatchesLeases
    <3> QED
      BY <2>3, <3>1, WithheldChange
  <2>5. ASSUME api'.pc = "exclude-pool", l.ip = api'.ip
        PROVE  Backed(c, l)'
    <3>1. ~Crash
      BY <2>5 DEF Crash, ApiIdle
    <3>2. api.pc = "exclude-pool" /\ l.ip = api.ip
      BY <1>2, <2>2, <2>5, <3>1, WaitsForPool
    <3> QED
      BY <2>1, <2>2, <2>3, <3>1, <3>2, BackedStays
  <2> QED
    BY <2>4, <2>5
<1> QED
  BY <1>1, <1>2, LeasesInUse

-----------------------------------------------------------------------------
(* LeaseInv is inductive, and what follows from it.                        *)

\* Nothing is on its way, and no client has a lease.
LEMMA InitLease == Init => LeaseInv
<1> SUFFICES ASSUME Init PROVE LeaseInv
  OBVIOUS
<1>1. /\ inbox = <<>> /\ thread.packet = NoPacket /\ replies = {}
      /\ \A c \in Clients : bound[c] = NoLease /\ leaseRows[c] = NoLease
      /\ \A c \in Clients : lm.byClient[c] = NoLease
  BY DEF Init, ThreadDown, ThreadIdle, LMInit, EmptyManager
<1>2. DOMAIN inbox = {}
  BY <1>1
<1>3. \A c \in Clients : Settled(c) = {} /\ Usable(c) = {}
  <2>1. ASSUME NEW c \in Clients, NEW l
        PROVE  l \notin Settled(c) /\ l \notin Usable(c)
    <3>1. l \notin Acknowledged(c)
      BY <1>1, InUseMeans
    <3> QED
      BY <1>1, <3>1, InUseMeans DEF Quiet
  <2> QED
    BY <2>1
<1>4. StaleInv /\ PendingInv
  BY <1>1, <1>2 DEF StaleInv, PendingInv, InFlight
<1>5. EndsInv
  BY <1>1 DEF EndsInv
<1>6. BackedInv /\ RecordedInv /\ WithheldInv
  BY <1>1, <1>3 DEF BackedInv, RecordedInv, WithheldInv
<1> QED
  BY <1>4, <1>5, <1>6 DEF LeaseInv

\* All three invariants together, over every step.
LEMMA LeaseStep ==
    ASSUME ~Reordered, BaseInv, ControlInv, LeaseInv, [Next]_vars
    PROVE  BaseInv' /\ ControlInv' /\ LeaseInv'
<1>1. BaseInv' /\ ControlInv'
  BY ControlStep
<1>2. StaleInv' /\ PendingInv'
  BY NetStep DEF LeaseInv
<1>3. EndsInv'
  BY EndsStep DEF LeaseInv
<1>4. BackedInv' /\ RecordedInv' /\ WithheldInv'
  BY <1>1, <1>3, BackedStep, RecordedStep, WithheldStep DEF LeaseInv
<1> QED
  BY <1>1, <1>2, <1>3, <1>4 DEF LeaseInv

\* The three invariants hold in every state if packets keep their order.
THEOREM ServerInvariant ==
    ASSUME ~Reordered
    PROVE  Spec => [](BaseInv /\ ControlInv /\ LeaseInv)
<1>1. Init => BaseInv /\ ControlInv /\ LeaseInv
  BY InitBase, InitControl, InitLease
<1>2. BaseInv /\ ControlInv /\ LeaseInv /\ [Next]_vars
         => (BaseInv /\ ControlInv /\ LeaseInv)'
  BY LeaseStep
<1> QED
  BY <1>1, <1>2, PTL DEF Spec
\* Until the first crash, the leases in use of two clients are on different
\* addresses, because the manager knows of both.
LEMMA UsableApart ==
    ASSUME BaseInv, BackedInv, EndsInv, crashes = 0,
           NEW c \in Clients, NEW d \in Clients, c # d,
           NEW k \in Usable(c), NEW l \in Usable(d)
    PROVE  k.ip # l.ip
<1>1. /\ lm.byClient[c] # NoLease /\ lm.byClient[c].ip = k.ip
      /\ lm.byClient[d] # NoLease /\ lm.byClient[d].ip = l.ip
  BY DEF BackedInv, Backed
<1>2. /\ lm.byClient[c].client = c /\ lm.byIp[k.ip] = lm.byClient[c]
      /\ lm.byClient[d].client = d /\ lm.byIp[l.ip] = lm.byClient[d]
  BY <1>1 DEF BaseInv, LMInv, ManagerConsistent, Consistent, IndexesAgree
<1> QED
  BY <1>2

\* What a client uses is usable.
LEMMA BoundUsable ==
    ASSUME EndsInv, NEW c \in Clients, bound[c] # NoLease
    PROVE  bound[c] \in Usable(c)
BY InUseMeans DEF EndsInv

\* server.py and lease_manager.py: while the process runs, two clients never
\* use the same address, whatever they send and lose, whatever the control API
\* does meanwhile and whatever the database refuses.
THEOREM ServerNoConflict ==
    ASSUME ~Reordered
    PROVE  Spec => []NoAddressConflict
<1>1. BaseInv /\ LeaseInv => NoAddressConflict
  <2> SUFFICES ASSUME BaseInv, LeaseInv, crashes = 0,
                      NEW c \in Clients, NEW d \in Clients, c # d,
                      bound[c] # NoLease, bound[d] # NoLease
               PROVE  bound[c].ip # bound[d].ip
    BY DEF NoAddressConflict, Ledger!Exclusive
  <2> QED
    BY UsableApart, BoundUsable DEF LeaseInv
<1> QED
  BY <1>1, ServerInvariant, PTL

\* dhcp/storage.py: every lease that a client with an answer to all it sent
\* uses is in the table, after any number of crashes.
THEOREM ServerLeaseRecorded ==
    ASSUME ~Reordered
    PROVE  Spec => []QuietLeaseRecorded
<1>1. RecordedInv => QuietLeaseRecorded
  BY DEF RecordedInv, Settled, QuietLeaseRecorded
<1>2. LeaseInv => RecordedInv
  BY DEF LeaseInv
<1> QED
  BY <1>1, <1>2, ServerInvariant, PTL

\* A restart forgets the leases, yet the clients that have an answer to all
\* they sent keep different addresses: the table admits only one of them.
THEOREM ServerQuietHolders ==
    ASSUME ~Reordered
    PROVE  Spec => []QuietHoldersNeverConflict
<1>1. RecordedInv => QuietHoldersNeverConflict
  <2> SUFFICES ASSUME RecordedInv, NEW c \in Clients, NEW d \in Clients,
                      c # d, Quiet(c), Quiet(d)
               PROVE  bound[c].ip # bound[d].ip
    BY DEF QuietHoldersNeverConflict
  <2>1. bound[c] \in Settled(c) /\ bound[d] \in Settled(d)
    BY InUseMeans
  <2> QED
    BY <2>1 DEF RecordedInv
<1>2. LeaseInv => RecordedInv
  BY DEF LeaseInv
<1> QED
  BY <1>1, <1>2, ServerInvariant, PTL

\* clients.py, _exclude_one: no address is withheld while such a client uses
\* it, although the API looks at the table and asks the pool in two steps.
THEOREM ServerExcludedNotInUse ==
    ASSUME ~Reordered
    PROVE  Spec => []ExcludedNotInUse
<1>1. LeaseInv => ExcludedNotInUse
  <2> SUFFICES ASSUME LeaseInv, NEW c \in Clients, Quiet(c)
               PROVE  bound[c].ip \notin excluded \cup exclusionRows
    BY DEF ExcludedNotInUse
  <2>1. bound[c] \in Settled(c) /\ bound[c].end > now
    BY InUseMeans DEF Quiet, LeaseInv, EndsInv
  <2> QED
    BY <2>1 DEF LeaseInv, WithheldInv
<1> QED
  BY <1>1, ServerInvariant, PTL

-----------------------------------------------------------------------------
(* While one process runs, the service implements the lease ledger.        *)

\* A client that takes an answer is granted its lease, or gives up.
LEMMA ReplyRefines ==
    ASSUME BaseInv, LeaseInv, crashes = 0, NEW r \in replies, ReceiveReply(r)
    PROVE  Ledger!Next
<1>1. /\ r \in Reply /\ r.client \in Clients /\ now \in Nat
      /\ bound \in [Clients -> Lease \cup {NoLease}]
      /\ now' = now
  BY TypeParts DEF BaseInv, StateOK, NetworkOK, LMTypeOK, Reply, ReceiveReply
<1>2. CASE r.type = "ACK" /\ ~Expired(r.lease, now)
  <2> DEFINE a == r.lease.ip
             term == r.lease.end - now
  <2>1. bound' = [bound EXCEPT ![r.client] = r.lease]
    BY <1>2 DEF ReceiveReply
  <2>2. /\ r.lease \in Lease /\ r.lease # NoLease
        /\ r.lease.client = r.client /\ r.lease.end <= now + LeaseTime
    BY <1>1, <1>2 DEF Reply, LeaseInv, EndsInv
  <2>3. r.lease.end \in Nat /\ r.lease.end > now /\ a \in Addresses
    BY <1>1, <1>2, <2>2 DEF Lease, Expired
  <2>4. term \in 1..LeaseTime /\ now + term = r.lease.end
    BY <1>1, <2>2, <2>3, LeaseAssumption
  <2>5. r.lease = [client |-> r.client, ip |-> a, end |-> now + term]
    BY <2>2, <2>4 DEF Lease
  <2>6. ASSUME NEW d \in Clients \ {r.client}, bound[d] # NoLease
        PROVE  bound[d].ip # a
    <3>1. r.lease \in Usable(r.client)
      BY <1>2, <2>2, <2>3, InUseMeans
    <3>2. bound[d] \in Usable(d)
      BY <2>6, BoundUsable DEF LeaseInv
    <3> QED
      BY <1>1, <3>1, <3>2, UsableApart DEF LeaseInv
  <2> HIDE DEF a, term
  <2>7. Ledger!Grant(r.client)
    BY <1>1, <2>1, <2>3, <2>4, <2>5, <2>6 DEF Ledger!Grant
  <2> QED
    BY <1>1, <2>7 DEF Ledger!Next
<1>3. CASE ~(r.type = "ACK" /\ ~Expired(r.lease, now))
  <2>1. Ledger!GiveUp(r.client)
    BY <1>1, <1>3 DEF ReceiveReply, Ledger!GiveUp
  <2> QED
    BY <1>1, <2>1 DEF Ledger!Next
<1> QED
  BY <1>2, <1>3

\* Every step of the service is a step of the ledger or none at all.
LEMMA StepRefines ==
    ASSUME BaseInv, LeaseInv, crashes = 0, [Next]_vars
    PROVE  [Ledger!Next]_(Ledger!ledgerVars)
<1> DEFINE Goal == [Ledger!Next]_(Ledger!ledgerVars)
<1>1. ASSUME UNCHANGED <<bound, now>> PROVE Goal
  BY <1>1 DEF Ledger!ledgerVars
<1>2. CASE ClientStep
  <2>1. ASSUME NEW c \in Clients, NEW a,
               \/ SendDiscover(c, a) \/ SendRequest(c, a)
               \/ SendDecline(c, a) \/ SendRelease(c)
        PROVE  Goal
    <3>1. /\ now' = now
          /\ bound' = bound \/ bound' = [bound EXCEPT ![c] = NoLease]
      BY <2>1 DEF SendDiscover, SendRequest, SendDecline, SendRelease, Send
    <3>2. ASSUME bound' = [bound EXCEPT ![c] = NoLease] PROVE Ledger!Next
      BY <3>1, <3>2 DEF Ledger!Next, Ledger!GiveUp
    <3> QED
      BY <1>1, <3>1, <3>2
  <2>2. ASSUME NEW r \in replies, ReceiveReply(r) PROVE Goal
    BY <2>2, ReplyRefines
  <2> QED
    BY <1>2, <2>1, <2>2 DEF ClientStep
<1>3. CASE ServerStep
  BY <1>1, <1>3, ServerFrame DEF elsewhere
<1>4. CASE Crash
  BY <1>1, <1>4 DEF Crash
<1>5. CASE ClockTick
  <2>1. now' = now + 1 /\ now \in Nat
        /\ bound \in [Clients -> Lease \cup {NoLease}]
    BY <1>5, TypeParts
       DEF ClockTick, Tick, BaseInv, StateOK, LMTypeOK, NetworkOK
  <2>2. bound' = [c \in Clients |->
                    IF bound[c] # NoLease /\ Expired(bound[c], now')
                    THEN NoLease ELSE bound[c]]
    BY <1>5 DEF ClockTick
  <2>3. \A c \in Clients :
           bound[c] # NoLease /\ Expired(bound[c], now')
              <=> Ledger!Outdated(bound[c], now')
    BY <2>1 DEF Expired, Ledger!Outdated, Lease
  <2>4. bound' = [c \in Clients |-> IF Ledger!Outdated(bound[c], now')
                                    THEN NoLease ELSE bound[c]]
    BY <2>2, <2>3
  <2>5. Ledger!TimePasses
    BY <2>1, <2>4 DEF Ledger!TimePasses
  <2> QED
    BY <2>5 DEF Ledger!Next
<1>6. CASE ApiBegins \/ ApiContinues \/ Boot \/ UNCHANGED vars
  BY <1>1, <1>6, ControlFrame DEF network
<1> QED
  BY <1>2, <1>3, <1>4, <1>5, <1>6 DEF Next

\* What the service promises its clients while one process runs: the leases
\* that they use are those of the lease ledger.  A restart empties the manager
\* and may grant an address whose holder is silent.
THEOREM ServerKeepsLedger ==
    ASSUME ~Reordered, MaxCrashes = 0
    PROVE  Spec => KeepsLedger
<1>1. Init => Ledger!Init
  BY DEF Init, LMInit, Ledger!Init
<1>2. BaseInv /\ LeaseInv /\ [Next]_vars => [Ledger!Next]_(Ledger!ledgerVars)
  <2>1. BaseInv => crashes = 0
    BY DEF BaseInv, TypeOK
  <2> QED
    BY <2>1, StepRefines
<1> QED
  BY <1>1, <1>2, ServerInvariant, PTL DEF Spec, KeepsLedger, Ledger!Spec
=============================================================================
