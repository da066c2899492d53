----------------------------- MODULE DHCPServer -----------------------------
(***************************************************************************)
(* The DHCP service of dhcp/server.py with everything it works on:         *)
(*                                                                         *)
(*   - the DHCP thread, which takes one packet after the other from its    *)
(*     socket and runs the handler to its end;                             *)
(*   - the lease manager and the pool (DHCPLeaseManager), the reservations *)
(*     (DHCPReservations) and the three database tables behind them;       *)
(*   - the control API of backend/api/clients.py, whose handlers run in    *)
(*     another thread of the process, one at a time;                       *)
(*   - the clients on the network, which lose packets and replies;         *)
(*   - crashes of the process: memory is lost, the tables are not.         *)
(*                                                                         *)
(* One step of a thread is one call that takes a lock or commits a         *)
(* transaction.  Between two steps the other thread, the clients and the   *)
(* clock may move.                                                         *)
(***************************************************************************)
EXTENDS DHCPLeaseManager, Sequences

CONSTANTS
    Keys,         \* canonical client identifiers of the reservations
    CanonicalId,  \* normalize_client_id
    NoAddress,    \* a packet without option 50
    MaxPackets,   \* bound of the model on packets the server has at once
    MaxCrashes,   \* bound of the model on crashes
    Database,     \* TRUE if the database may refuse a write at any time
    Reordered     \* TRUE if packets may overtake each other on their way

\* Client identifiers may share a canonical form: option 61 may spell the bytes
\* of another client's MAC address.
ASSUME ServerAssumption ==
    /\ CanonicalId \in [Clients -> Keys]
    /\ NoLease \notin [client : Keys, ip : Addresses]
    /\ NoLease \notin Clients
    /\ NoAddress \notin Addresses
    /\ MaxPackets \in Nat
    /\ MaxCrashes \in Nat

VARIABLES
    reservations,     \* DHCPServer.reservations
    leaseRows,        \* table dhcp_leases, unique in client_id and ip_address
    reservationRows,  \* table dhcp_reservations, unique in both too
    exclusionRows,    \* table dhcp_exclusions
    thread,           \* the DHCP thread: where it is, and the packet at hand
    api,              \* the control API: where it is, its client and address
    inbox,            \* packets on their way and in the socket's buffer
    replies,          \* ACKs and NAKs on their way to the clients
    bound,            \* the lease each client uses
    asked,            \* clients whose last packet has no accepted ACK
    crashes           \* crashes so far

RM == INSTANCE DHCPReservations
        WITH ClientIds <- Clients, Ips <- Addresses, NoReservation <- NoLease

Seqs == INSTANCE SequencesExt

memory  == <<lm, excluded, reservations>>
tables  == <<leaseRows, reservationRows, exclusionRows>>
network == <<inbox, replies, bound, asked>>
vars    == <<memory, now, tables, thread, api, network, crashes>>

PacketTypes == {"DISCOVER", "REQUEST", "DECLINE", "RELEASE"}

Packet == [type : PacketTypes, client : Clients,
           ip : Addresses \cup {NoAddress}, stale : BOOLEAN]

NoPacket == [type |-> "NONE"]

Reply == [type : {"ACK", "NAK"}, client : Clients, lease : Lease \cup {NoLease}]

ThreadIdle == [pc |-> "idle", packet |-> NoPacket]
ThreadDown == [ThreadIdle EXCEPT !.pc = "down"]

ApiIdle == [pc |-> "idle", client |-> NoLease, ip |-> NoAddress]

\* The client at hand, and its lease: the object that the manager keeps.
me      == thread.packet.client
myLease == lm.byClient[me]

Packets == Len(inbox) + (IF thread.packet = NoPacket THEN 0 ELSE 1)

Goto(pc) == thread' = [thread EXCEPT !.pc = pc]

ApiGoto(pc) == api' = [api EXCEPT !.pc = pc]

-----------------------------------------------------------------------------
(* The tables.  Each operation is one committed transaction.               *)

\* Faulty variant: the table does not keep addresses unique.
RowFitsAlways(l) == TRUE

\* save() fails when another client's row has the address.
RowFits(l) ==
    \A c \in Clients \ {l.client} :
        leaseRows[c] # NoLease => leaseRows[c].ip # l.ip

\* Outcomes of save(l): the row is written, or DHCPStorageError.
Saved(l) ==
    /\ RowFits(l)
    /\ leaseRows' = [leaseRows EXCEPT ![l.client] = l]

SaveFails(l) ==
    /\ ~RowFits(l) \/ Database
    /\ UNCHANGED leaseRows

-----------------------------------------------------------------------------
(* The clients.  A client that sends a packet starts a new transaction: it *)
(* ignores the replies to what it sent before.                             *)

Aged(p, c) == IF p.client = c THEN [p EXCEPT !.stale = TRUE] ELSE p

\* The packet is lost when the server is down, and may be lost on its way.
Send(c, type, a) ==
    LET p   == [type |-> type, client |-> c, ip |-> a, stale |-> FALSE]
        old == [i \in DOMAIN inbox |-> Aged(inbox[i], c)]
    IN  /\ \/ inbox' = old
           \/ /\ thread.pc # "down" /\ Packets < MaxPackets
              /\ inbox' = Append(old, p)
        /\ thread' = IF thread.packet # NoPacket
                     THEN [thread EXCEPT !.packet = Aged(thread.packet, c)]
                     ELSE thread
        /\ replies' = {r \in replies : r.client # c}
        /\ asked' = asked \cup {c}
        /\ UNCHANGED <<memory, now, tables, api, crashes>>

\* A client that starts over has no address.
SendDiscover(c, a) ==
    /\ Send(c, "DISCOVER", a)
    /\ bound' = [bound EXCEPT ![c] = NoLease]

\* Asks for an offered or remembered address, or renews: it keeps what it has.
SendRequest(c, a) ==
    /\ Send(c, "REQUEST", a)
    /\ UNCHANGED bound

SendRelease(c) ==
    /\ bound[c] # NoLease
    /\ Send(c, "RELEASE", NoAddress)
    /\ bound' = [bound EXCEPT ![c] = NoLease]

\* The client found its new address in use by somebody else.
SendDecline(c, a) ==
    /\ bound[c] # NoLease /\ a \in {bound[c].ip, NoAddress}
    /\ Send(c, "DECLINE", a)
    /\ bound' = [bound EXCEPT ![c] = NoLease]

\* A reply that is lost is one that the client never receives.
ReceiveReply(r) ==
    /\ r \in replies
    /\ replies' = replies \ {r}
    /\ IF r.type = "ACK" /\ ~Expired(r.lease, now)
       THEN /\ bound' = [bound EXCEPT ![r.client] = r.lease]
            /\ asked' = asked \ {r.client}
       ELSE /\ bound' = [bound EXCEPT ![r.client] = NoLease]
            /\ UNCHANGED asked
    /\ UNCHANGED <<memory, now, tables, thread, api, inbox, crashes>>

ClientStep ==
    \/ \E c \in Clients, a \in Addresses \cup {NoAddress} :
          SendDiscover(c, a) \/ SendRequest(c, a) \/ SendDecline(c, a)
    \/ \E c \in Clients : SendRelease(c)
    \/ \E r \in replies : ReceiveReply(r)

-----------------------------------------------------------------------------
(* The DHCP thread.                                                        *)

\* Variables a step of the DHCP thread leaves alone, whatever it does.
elsewhere == <<reservations, reservationRows, exclusionRows, api, bound, asked,
               crashes>>

\* The thread is done with the packet and says nothing.
Silent ==
    /\ thread' = ThreadIdle
    /\ UNCHANGED replies

\* The thread is done with the packet and answers it.
Answers(type, l) ==
    /\ thread' = ThreadIdle
    /\ replies' = IF thread.packet.stale
                  THEN replies
                  ELSE replies \cup {[type |-> type, client |-> me, lease |-> l]}

FirstStep ==
    [DISCOVER |-> "obtain", REQUEST |-> "lookup",
     DECLINE |-> "decline", RELEASE |-> "release"]

\* serve_forever and handle_packet.  Packets that change nothing (malformed,
\* without a message type, unsupported, DHCPINFORM, DHCPREQUESTs that select
\* another server) are not modelled.
Receive ==
    /\ thread.pc = "idle"
    /\ \E i \in DOMAIN inbox :
          /\ i = 1 \/ Reordered
          /\ inbox' = Seqs!RemoveAt(inbox, i)
          /\ thread' = [pc |-> FirstStep[inbox[i].type], packet |-> inbox[i]]
    /\ UNCHANGED <<lm, excluded, now, leaseRows, replies, elsewhere>>

\* _handle_request: lease_manager.get_by_client.
LookupForRequest ==
    /\ thread.pc = "lookup"
    /\ GetByClient(me)
    /\ Goto(IF HasActive(lm, me, now) THEN "renew" ELSE "obtain")
    /\ UNCHANGED <<leaseRows, inbox, replies, elsewhere>>

\* Faulty variant: no answer when the lease ended meanwhile.
RenewOrSilence ==
    /\ thread.pc = "renew"
    /\ \/ Renew(me) /\ Goto("acknowledge") /\ UNCHANGED replies
       \/ RenewNotFound(me) /\ Silent
    /\ UNCHANGED <<leaseRows, inbox, elsewhere>>

\* _handle_request: lease_manager.renew.  The lease may have ended since.
RenewForRequest ==
    /\ thread.pc = "renew"
    /\ \/ /\ Renew(me)
          /\ Goto("acknowledge")
          /\ UNCHANGED replies
       \/ /\ RenewNotFound(me)
          /\ Answers("NAK", NoLease)
    /\ UNCHANGED <<leaseRows, inbox, elsewhere>>

\* _obtain_lease: an existing lease comes first.
ObtainExisting ==
    /\ thread.pc = "obtain"
    /\ GetByClient(me)
    /\ IF HasActive(lm, me, now)
       THEN Goto("save")
       ELSE Goto("reservation")
    /\ UNCHANGED <<leaseRows, inbox, replies, elsewhere>>

\* _obtain_lease: then the client's static reservation, then the address the
\* packet asks for, then any.
LookupReservation ==
    /\ thread.pc = "reservation"
    /\ LET v == RM!ReservationOf(reservations, me) IN
          \/ /\ v # NoLease
             /\ thread' = [thread EXCEPT !.pc = "reserved", !.packet.ip = v.ip]
          \/ /\ v = NoLease
             /\ Goto(IF thread.packet.ip = NoAddress
                     THEN "dynamic" ELSE "requested")
    /\ UNCHANGED <<lm, excluded, now, leaseRows, inbox, replies, elsewhere>>

\* create_specific for a client that ObtainExisting left without a lease.
AssignSpecific ==
    /\ CreateSpecificLeases(me, thread.packet.ip)
    /\ Goto("save")
    /\ UNCHANGED replies

\* _obtain_lease returns None: no offer, or a DHCPNAK.
ObtainFails ==
    IF thread.packet.type = "REQUEST" THEN Answers("NAK", NoLease) ELSE Silent

AssignReserved ==
    /\ thread.pc = "reserved"
    /\ \/ AssignSpecific
       \/ CreateSpecificRefused(me, thread.packet.ip) /\ ObtainFails
    /\ UNCHANGED <<leaseRows, inbox, elsewhere>>

\* Faulty variant: a refused address is looked up again instead of any other.
AssignRequestedAgain ==
    /\ thread.pc = "requested"
    /\ \/ AssignSpecific
       \/ /\ CreateSpecificRefused(me, thread.packet.ip)
          /\ Goto("reservation")
          /\ UNCHANGED replies
    /\ UNCHANGED <<leaseRows, inbox, elsewhere>>

AssignRequested ==
    /\ thread.pc = "requested"
    /\ \/ AssignSpecific
       \/ /\ CreateSpecificRefused(me, thread.packet.ip)
          /\ Goto("dynamic")
          /\ UNCHANGED replies
    /\ UNCHANGED <<leaseRows, inbox, elsewhere>>

AssignDynamic ==
    /\ thread.pc = "dynamic"
    /\ \/ /\ CreateAllocates(me)
          /\ Goto("save")
          /\ UNCHANGED replies
       \/ CreateExhausted(me) /\ ObtainFails
    /\ UNCHANGED <<leaseRows, inbox, elsewhere>>

\* _obtain_lease: _persist_lease.  DHCPStorageError is no lease error: it ends
\* the handler without a reply.  A DHCPOFFER changes nothing on the client.
SaveObtained ==
    /\ thread.pc = "save"
    /\ \/ /\ Saved(myLease)
          /\ IF thread.packet.type = "REQUEST"
             THEN Goto("acknowledge") /\ UNCHANGED replies
             ELSE Silent
       \/ SaveFails(myLease) /\ Silent
    /\ UNCHANGED <<lm, excluded, now, inbox, elsewhere>>

\* Faulty variant: the client is answered although the lease was not saved.
AcknowledgeUnsaved ==
    /\ thread.pc = "acknowledge"
    /\ Saved(myLease) \/ SaveFails(myLease)
    /\ Answers("ACK", myLease)
    /\ UNCHANGED <<lm, excluded, now, inbox, elsewhere>>

\* _handle_request: _persist_lease (again), then the DHCPACK.
SaveAndAcknowledge ==
    /\ thread.pc = "acknowledge"
    /\ \/ Saved(myLease) /\ Answers("ACK", myLease)
       \/ SaveFails(myLease) /\ Silent
    /\ UNCHANGED <<lm, excluded, now, inbox, elsewhere>>

\* _handle_decline: get_by_client, and release if the address is the lease's.
LookupForDecline ==
    /\ thread.pc = "decline"
    /\ GetByClient(me)
    /\ IF /\ HasActive(lm, me, now)
          /\ thread.packet.ip \in {NoAddress, lm.byClient[me].ip}
       THEN Goto("release") /\ UNCHANGED replies
       ELSE Silent
    /\ UNCHANGED <<leaseRows, inbox, elsewhere>>

\* _handle_decline and _handle_release: lease_manager.release.
ReleaseLease ==
    /\ thread.pc = "release"
    /\ Release(me)
    /\ Goto("delete")
    /\ UNCHANGED <<leaseRows, inbox, replies, elsewhere>>

\* Both: storage.delete.  A failure leaves the row.
DeleteRow ==
    /\ thread.pc = "delete"
    /\ \/ leaseRows' = [leaseRows EXCEPT ![me] = NoLease]
       \/ Database /\ UNCHANGED leaseRows
    /\ Silent
    /\ UNCHANGED <<lm, excluded, now, inbox, elsewhere>>

ServerStep ==
    \/ Receive
    \/ LookupForRequest
    \/ RenewForRequest
    \/ ObtainExisting
    \/ LookupReservation
    \/ AssignReserved
    \/ AssignRequested
    \/ AssignDynamic
    \/ SaveObtained
    \/ SaveAndAcknowledge
    \/ LookupForDecline
    \/ ReleaseLease
    \/ DeleteRow

-----------------------------------------------------------------------------
(* The control API, backend/api/clients.py.  Its handlers never await, so  *)
(* no two of them overlap; they do overlap with the DHCP thread.           *)

ApiCall(pc, c, a) ==
    /\ api.pc = "idle" /\ thread.pc # "down"
    /\ api' = [pc |-> pc, client |-> c, ip |-> a]
    /\ UNCHANGED <<memory, now, leaseRows, thread, network, crashes>>

\* Variables a step of the control API leaves alone, whatever it does.
notControls == <<lm, now, leaseRows, thread, network, crashes>>

ReservationRowOf(a) == {c \in Clients : reservationRows[c] = a}

\* An active row of the address, of a client in C.
ActiveRow(C, a) ==
    \E c \in C :
        leaseRows[c] # NoLease /\ leaseRows[c].ip = a /\ leaseRows[c].end > now

\* _reserve_one: the selected client's row names the address.
ReserveRead(c) ==
    /\ leaseRows[c] # NoLease
    /\ PoolContains(leaseRows[c].ip)
    /\ reservationRows[c] = NoAddress
    /\ leaseRows[c].ip \notin exclusionRows
    /\ ApiCall("reserve", c, leaseRows[c].ip)
    /\ UNCHANGED <<reservationRows, exclusionRows>>

\* _reserve_one: active_other, then reservations.add.
ReserveAdd ==
    /\ api.pc = "reserve"
    /\ \/ /\ ~ActiveRow(Clients \ {api.client}, api.ip)
          /\ RM!Add(api.client, api.ip)
          /\ ApiGoto("reserve-commit")
       \/ /\ \/ ActiveRow(Clients \ {api.client}, api.ip)
             \/ ~RM!CanAdd(reservations, api.client, api.ip)
          /\ api' = ApiIdle
          /\ UNCHANGED reservations
    /\ UNCHANGED <<excluded, reservationRows, exclusionRows, notControls>>

\* _reserve_one: the row is committed, or the addition is taken back.
ReserveCommit ==
    /\ api.pc = "reserve-commit"
    /\ \/ /\ ReservationRowOf(api.ip) = {}
          /\ reservationRows' = [reservationRows EXCEPT ![api.client] = api.ip]
          /\ UNCHANGED reservations
       \/ /\ Database \/ ReservationRowOf(api.ip) # {}
          /\ RM!RemoveByClient(api.client)
          /\ UNCHANGED reservationRows
    /\ api' = ApiIdle
    /\ UNCHANGED <<excluded, exclusionRows, notControls>>

\* Faulty variant: reservations are not looked at.
ExcludeReadReserved(c) ==
    /\ leaseRows[c] # NoLease
    /\ PoolContains(leaseRows[c].ip)
    /\ leaseRows[c].ip \notin exclusionRows
    /\ ApiCall("exclude", c, leaseRows[c].ip)
    /\ UNCHANGED <<reservationRows, exclusionRows>>

\* _exclude_one: the selected client's row names the address.
ExcludeRead(c) ==
    /\ leaseRows[c] # NoLease
    /\ PoolContains(leaseRows[c].ip)
    /\ leaseRows[c].ip \notin exclusionRows
    /\ ReservationRowOf(leaseRows[c].ip) = {}
    /\ ApiCall("exclude", c, leaseRows[c].ip)
    /\ UNCHANGED <<reservationRows, exclusionRows>>

\* Faulty variant: only the pool is asked whether the address is in use.
ExcludeUnchecked ==
    /\ api.pc = "exclude"
    /\ ApiGoto("exclude-pool")
    /\ UNCHANGED <<excluded, reservations, reservationRows, exclusionRows,
                   notControls>>

\* _exclude_one: no active lease may use the address.
ExcludeCheck ==
    /\ api.pc = "exclude"
    /\ IF ActiveRow(Clients, api.ip) THEN api' = ApiIdle
                                     ELSE ApiGoto("exclude-pool")
    /\ UNCHANGED <<excluded, reservations, reservationRows, exclusionRows,
                   notControls>>

\* _exclude_one: pool.is_reserved and pool.reserve.  A refusal by the pool
\* ends in pool.unreserve.
ExcludeInPool ==
    /\ api.pc = "exclude-pool"
    /\ \/ /\ api.ip \notin excluded
          /\ Exclude(api.ip)
          /\ ApiGoto("exclude-commit")
       \/ /\ api.ip \notin excluded
          /\ ~CanExclude(api.ip, lm.allocated)
          /\ Unexclude(api.ip)
          /\ api' = ApiIdle
       \/ /\ api.ip \in excluded
          /\ api' = ApiIdle
          /\ UNCHANGED excluded
    /\ UNCHANGED <<reservations, reservationRows, exclusionRows, notControls>>

\* Faulty variant: a failed commit leaves the exclusion in the pool.
ExcludeCommitNoRollback ==
    /\ api.pc = "exclude-commit"
    /\ \/ exclusionRows' = exclusionRows \cup {api.ip}
       \/ Database /\ UNCHANGED exclusionRows
    /\ api' = ApiIdle
    /\ UNCHANGED <<excluded, reservations, reservationRows, notControls>>

\* _exclude_one: the row is committed, or the exclusion is taken back.
ExcludeCommit ==
    /\ api.pc = "exclude-commit"
    /\ \/ /\ exclusionRows' = exclusionRows \cup {api.ip}
          /\ UNCHANGED excluded
       \/ /\ Database
          /\ Unexclude(api.ip)
          /\ UNCHANGED exclusionRows
    /\ api' = ApiIdle
    /\ UNCHANGED <<reservations, reservationRows, notControls>>

\* remove_reservation: the row is deleted, then the entry in memory.
RemoveReservationRow(c) ==
    /\ reservationRows[c] # NoAddress
    /\ ApiCall("unreserve", c, reservationRows[c])
    /\ reservationRows' = [reservationRows EXCEPT ![c] = NoAddress]
    /\ UNCHANGED exclusionRows

RemoveReservationEntry ==
    /\ api.pc = "unreserve"
    /\ RM!RemoveByClient(api.client)
    /\ api' = ApiIdle
    /\ UNCHANGED <<excluded, reservationRows, exclusionRows, notControls>>

\* remove_exclusion: the row is deleted, then the entry in the pool.
RemoveExclusionRow(a) ==
    /\ a \in exclusionRows
    /\ ApiCall("unexclude", NoLease, a)
    /\ exclusionRows' = exclusionRows \ {a}
    /\ UNCHANGED reservationRows

RemoveExclusionEntry ==
    /\ api.pc = "unexclude"
    /\ Unexclude(api.ip)
    /\ api' = ApiIdle
    /\ UNCHANGED <<reservations, reservationRows, exclusionRows, notControls>>

\* A handler that has begun goes on by itself.
ApiContinues ==
    \/ ReserveAdd
    \/ ReserveCommit
    \/ ExcludeCheck
    \/ ExcludeInPool
    \/ ExcludeCommit
    \/ RemoveReservationEntry
    \/ RemoveExclusionEntry

ApiBegins ==
    \/ \E c \in Clients :
          ReserveRead(c) \/ ExcludeRead(c) \/ RemoveReservationRow(c)
    \/ \E a \in PoolRange : RemoveExclusionRow(a)

-----------------------------------------------------------------------------
(* The process and the clock.                                              *)

\* The process ends, at any point of either thread.
Crash ==
    /\ thread.pc # "down" /\ crashes < MaxCrashes
    /\ crashes' = crashes + 1
    /\ thread' = ThreadDown
    /\ api' = ApiIdle
    /\ lm' = EmptyManager
    /\ excluded' = {}
    /\ reservations' = RM!NoReservations
    /\ inbox' = <<>>
    /\ UNCHANGED <<now, tables, replies, bound, asked>>

\* Two rows of which DHCPReservationManager.add would refuse the later one.
RowsClash(c, d) ==
    \/ CanonicalId[c] = CanonicalId[d]
    \/ reservationRows[c] = reservationRows[d]

ReservedRows == {c \in Clients : reservationRows[c] # NoAddress}

\* Rows added one after the other, in any order, each skipped if it clashes
\* with one that was added before.
Loadable(L) ==
    /\ L \subseteq ReservedRows
    /\ \A c, d \in L : c # d => ~RowsClash(c, d)
    /\ \A c \in ReservedRows \ L : \E d \in L : RowsClash(c, d)

\* The dictionaries after the rows in L were added.
Loaded(L) ==
    LET Entry(S) == IF S = {} THEN NoLease
                    ELSE LET c == CHOOSE c \in S : TRUE
                         IN  [client |-> CanonicalId[c], ip |-> reservationRows[c]]
    IN  [byClient |-> [k \in Keys |-> Entry({c \in L : CanonicalId[c] = k})],
         byIp     |-> [a \in Addresses |->
                          Entry({c \in L : reservationRows[c] = a})]]

\* A new DHCPServer, load_persistent_controls on it, and its loop.  The
\* leases of dhcp_leases are not read back.
Boot ==
    /\ thread.pc = "down"
    /\ thread' = ThreadIdle
    /\ excluded' = {a \in exclusionRows : CanExclude(a, lm.allocated)}
    /\ \E L \in SUBSET ReservedRows :
          Loadable(L) /\ reservations' = Loaded(L)
    /\ UNCHANGED <<lm, now, tables, api, network, crashes>>

\* A client stops using an address when its lease ends.
ClockTick ==
    /\ Tick
    /\ bound' = [c \in Clients |->
                    IF bound[c] # NoLease /\ Expired(bound[c], now')
                    THEN NoLease ELSE bound[c]]
    /\ UNCHANGED <<reservations, tables, thread, api, inbox, replies, asked,
                   crashes>>

Init ==
    /\ LMInit
    /\ reservations = RM!NoReservations
    /\ leaseRows = [c \in Clients |-> NoLease]
    /\ reservationRows = [c \in Clients |-> NoAddress]
    /\ exclusionRows = {}
    /\ thread = ThreadDown
    /\ api = ApiIdle
    /\ inbox = <<>>
    /\ replies = {}
    /\ bound = [c \in Clients |-> NoLease]
    /\ asked = {}
    /\ crashes = 0

Next ==
    \/ ClientStep
    \/ ServerStep
    \/ ApiBegins
    \/ ApiContinues
    \/ Crash
    \/ Boot
    \/ ClockTick

\* Both threads are scheduled, and the process is started again.
Fairness ==
    /\ WF_vars(ServerStep)
    /\ WF_vars(ApiContinues)
    /\ WF_vars(Boot)

Spec == Init /\ [][Next]_vars

FairSpec == Spec /\ Fairness

-----------------------------------------------------------------------------
(* Properties.                                                             *)

ThreadAt ==
    {"idle", "down", "lookup", "renew", "obtain", "reservation", "reserved",
     "requested", "dynamic", "save", "acknowledge", "decline", "release",
     "delete"}

ApiAt ==
    {"idle", "reserve", "reserve-commit", "exclude", "exclude-pool",
     "exclude-commit", "unreserve", "unexclude"}

\* The shape of the whole state; the thread has a packet while it is busy.
TypeOK ==
    /\ LMTypeOK
    /\ RM!ReservationTypeOK
    /\ leaseRows \in [Clients -> Lease \cup {NoLease}]
    /\ reservationRows \in [Clients -> Addresses \cup {NoAddress}]
    /\ exclusionRows \subseteq PoolRange
    /\ thread \in [pc : ThreadAt, packet : Packet \cup {NoPacket}]
    /\ thread.packet = NoPacket <=> thread.pc \in {"idle", "down"}
    /\ thread.pc \in {"save", "acknowledge"} => myLease # NoLease
    /\ api \in [pc : ApiAt, client : Clients \cup {NoLease},
                ip : Addresses \cup {NoAddress}]
    /\ inbox \in Seq(Packet) /\ Packets <= MaxPackets
    /\ replies \subseteq Reply
    /\ bound \in [Clients -> Lease \cup {NoLease}]
    /\ asked \subseteq Clients
    /\ crashes \in 0..MaxCrashes

\* The abstract specification: the leases that clients hold, without a server.
Ledger == INSTANCE LeaseLedger
            WITH Holders <- Clients, Grounds <- Addresses, None <- NoLease,
                 MaxTerm <- LeaseTime, leased <- bound, clock <- now

\* Two clients of one process never use the same address at once, whatever
\* they send and whatever the database refuses.  (A restart forgets the
\* leases; see QuietHoldersNeverConflict.)
NoAddressConflict == crashes = 0 => Ledger!Exclusive

Quiet(c) == bound[c] # NoLease /\ c \notin asked

\* A restart forgets every lease in memory.  Still, clients that have an
\* answer to everything they sent never share an address: the lease is
\* committed before it is acknowledged, and the address is unique in the
\* table, so that no other client's lease on it can be committed.
QuietHoldersNeverConflict ==
    \A c, d \in Clients :
        c # d /\ Quiet(c) /\ Quiet(d) => bound[c].ip # bound[d].ip

\* The table knows of every lease that a quiet client uses, and for at least
\* as long as the client will use it.
QuietLeaseRecorded ==
    \A c \in Clients : Quiet(c) =>
        /\ leaseRows[c] # NoLease
        /\ leaseRows[c].ip = bound[c].ip
        /\ leaseRows[c].end >= bound[c].end

\* The API excludes an address only when no client uses it, although it looks
\* at the table first and at the pool later, and although the pool is empty
\* after a restart.
ExcludedNotInUse ==
    \A c \in Clients : Quiet(c) => bound[c].ip \notin excluded \cup exclusionRows

\* persistent_controls.py, "The database remains the source of truth": once no
\* request is under way, the running server withholds and reserves exactly
\* what the tables say, after failed commits and restarts too.
ControlsFollowTables ==
    api.pc = "idle" /\ thread.pc # "down" =>
        /\ excluded = exclusionRows
        /\ \A c \in ReservedRows :
              LET v == RM!ReservationOf(reservations, c)
              IN  v # NoLease /\ v.ip = reservationRows[c]
        /\ \A k \in Keys :
              LET v == reservations.byClient[k]
              IN  v # NoLease => \E c \in ReservedRows :
                     CanonicalId[c] = k /\ reservationRows[c] = v.ip

\* No address is both excluded and reserved for a client: each of the two
\* handlers looks at the other's table.
ReservedNotExcluded ==
    \A c \in Clients : reservationRows[c] \notin exclusionRows

\* server.py, "Respect static reservations": the address of a reservation is
\* leased to no other client.  Does not hold: only the reservation of the
\* client that asks is looked at.
ReservationsRespected ==
    [][\A c, d \in Clients :
          LET new == lm'.byClient[c]
              old == lm.byClient[c]
              reserved == RM!ReservationOf(reservations, d)
          IN  /\ c # d /\ reserved # NoLease
              /\ new # NoLease /\ (old = NoLease \/ old.ip # new.ip)
              => new.ip # reserved.ip]_vars

\* The thread finishes every packet it takes from the socket, whatever the
\* clock and the control API do meanwhile.
EveryPacketFinished ==
    []<>(thread.pc \in {"idle", "down"})

\* A DHCPREQUEST that reaches the server is answered, by an ACK or a NAK, even
\* if the lease ends while the handler runs; unless the client gives up first
\* or the process ends.  This needs a database that works and a client that
\* no other client's row stands in the way of.
RequestAnswered ==
    \A c \in Clients :
        (thread.pc = "lookup" /\ me = c /\ ~thread.packet.stale)
            ~> \/ \E r \in replies : r.client = c
               \/ thread.pc = "down"
               \/ thread.packet # NoPacket /\ thread.packet.stale

\* What the service promises its clients while one process runs: bound and
\* now are a behaviour of the lease ledger.
KeepsLedger == Ledger!Spec
=============================================================================
