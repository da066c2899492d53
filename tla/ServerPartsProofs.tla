------------------------- MODULE ServerPartsProofs -------------------------
(***************************************************************************)
(* Proofs about the parts that depend on nothing but the calls they get:   *)
(* the static reservations, for any identifiers, any canonical form, any   *)
(* addresses and any sequence of calls; the threads that serve; the ledger *)
(* of leases that the DHCP service implements; and the options of packets, *)
(* for any packets and any configuration.                                  *)
(***************************************************************************)
EXTENDS DHCPReservations, ServerLife, LeaseLedger, MCDHCPWire, DataLemmas

-----------------------------------------------------------------------------
(* The static reservations: the dictionaries stay each other's inverse.    *)

ReservationInv == ReservationTypeOK /\ DictionariesAgree

\* The empty dictionaries satisfy the invariant.
LEMMA NoReservationsInv ==
    reservations' = NoReservations => ReservationInv'
BY ReservationAssumption
   DEF NoReservations, ReservationInv, ReservationTypeOK, ReservationState,
       DictionariesAgree

\* Two empty dictionaries agree.
LEMMA ReservationInitInv == ReservationInit => ReservationInv
BY ReservationAssumption
   DEF ReservationInit, NoReservations, ReservationInv, ReservationTypeOK,
       ReservationState, DictionariesAgree

\* add writes both entries of a client and an address that had none.
LEMMA AddInv ==
    ASSUME ReservationInv, NEW c \in ClientIds, NEW a \in Ips, Add(c, a)
    PROVE  ReservationInv'
<1> DEFINE k == CanonicalId[c]
           v == [client |-> k, ip |-> a]
<1>1. k \in Keys /\ v \in Reservation /\ v # NoReservation
  BY ReservationAssumption DEF Reservation
<1>2. /\ reservations' = [byClient |-> [reservations.byClient EXCEPT ![k] = v],
                          byIp     |-> [reservations.byIp EXCEPT ![a] = v]]
      /\ reservations.byClient[k] = NoReservation
      /\ reservations.byIp[a] = NoReservation
  BY DEF Add, CanAdd, Entered, ReservationOf
<1> HIDE DEF k
<1>3. ReservationTypeOK'
  BY <1>1, <1>2 DEF ReservationInv, ReservationTypeOK, ReservationState
<1>4. DictionariesAgree'
  BY <1>1, <1>2
     DEF ReservationInv, ReservationTypeOK, ReservationState, DictionariesAgree,
         Reservation
<1>5. QED  BY <1>3, <1>4 DEF ReservationInv

\* update moves a client: its old address entry is dropped first, and the new
\* address was free or its own.
LEMMA UpdateInv ==
    ASSUME ReservationInv, NEW c \in ClientIds, NEW a \in Ips, Update(c, a)
    PROVE  ReservationInv'
<1> DEFINE k == CanonicalId[c]
           v == [client |-> k, ip |-> a]
           old == reservations.byClient[k]
           ips == [b \in Ips |-> IF b = old.ip THEN NoReservation
                                               ELSE reservations.byIp[b]]
<1>1. k \in Keys /\ v \in Reservation /\ v # NoReservation
  BY ReservationAssumption DEF Reservation
<1>2. /\ old # NoReservation
      /\ reservations.byIp[a] # NoReservation => reservations.byIp[a].client = k
  BY DEF Update, CanUpdate, ReservationOf
<1>3. reservations' = [byClient |-> [reservations.byClient EXCEPT ![k] = v],
                       byIp     |-> [ips EXCEPT ![a] = v]]
  BY DEF Update, Entered, OldAddressDropped, ReservationOf, ReservationInv,
         ReservationTypeOK, ReservationState
<1> HIDE DEF k
<1>4. ReservationTypeOK'
  BY <1>1, <1>3 DEF ReservationInv, ReservationTypeOK, ReservationState
<1>5. /\ old \in Reservation
      /\ old.client = k
      /\ reservations.byIp[old.ip] = old
  BY <1>1, <1>2
     DEF ReservationInv, ReservationTypeOK, ReservationState, DictionariesAgree
<1>6. ASSUME NEW j \in Keys, reservations'.byClient[j] # NoReservation
      PROVE  /\ reservations'.byClient[j].client = j
             /\ reservations'.byIp[reservations'.byClient[j].ip]
                   = reservations'.byClient[j]
  <2>1. CASE j = k
    BY <2>1, <1>1, <1>3, <1>4 DEF ReservationInv, ReservationTypeOK, ReservationState
  <2>2. CASE j # k
    <3>1. reservations'.byClient[j] = reservations.byClient[j]
      BY <2>2, <1>3 DEF ReservationInv, ReservationTypeOK, ReservationState
    <3> DEFINE w == reservations.byClient[j]
    <3>2. w # NoReservation /\ w.client = j /\ w.ip \in Ips
          /\ reservations.byIp[w.ip] = w
      BY <3>1, <1>6
         DEF ReservationInv, ReservationTypeOK, ReservationState,
             DictionariesAgree, Reservation
    <3>3. w.ip # old.ip /\ w.ip # a
      BY <3>2, <1>5, <1>2, <2>2
    <3>4. reservations'.byIp[w.ip] = w
      BY <3>2, <3>3, <1>3
    <3>5. QED  BY <3>1, <3>2, <3>4
  <2>3. QED  BY <2>1, <2>2
<1>7. ASSUME NEW b \in Ips, reservations'.byIp[b] # NoReservation
      PROVE  /\ reservations'.byIp[b].ip = b
             /\ reservations'.byClient[reservations'.byIp[b].client]
                   = reservations'.byIp[b]
  <2>1. CASE b = a
    BY <2>1, <1>1, <1>3 DEF ReservationInv, ReservationTypeOK, ReservationState
  <2>2. CASE b # a
    <3>1. b # old.ip /\ reservations'.byIp[b] = reservations.byIp[b]
      BY <2>2, <1>3, <1>7
    <3> DEFINE w == reservations.byIp[b]
    <3>2. w # NoReservation /\ w.ip = b /\ w.client \in Keys
          /\ reservations.byClient[w.client] = w
      BY <3>1, <1>7
         DEF ReservationInv, ReservationTypeOK, ReservationState,
             DictionariesAgree, Reservation
    <3>3. w.client # k
      BY <3>1, <3>2
    <3>4. reservations'.byClient[w.client] = w
      BY <3>2, <3>3, <1>3 DEF ReservationInv, ReservationTypeOK, ReservationState
    <3>5. QED  BY <3>1, <3>2, <3>4
  <2>3. QED  BY <2>1, <2>2
<1>8. QED
  BY <1>4, <1>6, <1>7 DEF ReservationInv, DictionariesAgree

\* Both entries of one reservation leave together.
LEMMA DroppedInv ==
    ASSUME ReservationInv, NEW v \in Reservation \cup {NoReservation},
           v # NoReservation => /\ reservations.byClient[v.client] = v
                                /\ reservations.byIp[v.ip] = v,
           reservations' = Dropped(reservations, v)
    PROVE  ReservationInv'
<1>1. CASE v = NoReservation
  BY <1>1 DEF Dropped, ReservationInv, ReservationTypeOK, DictionariesAgree
<1>2. CASE v # NoReservation
  <2>1. /\ v.client \in Keys /\ v.ip \in Ips
        /\ reservations'
             = [byClient |-> [reservations.byClient EXCEPT ![v.client] = NoReservation],
                byIp     |-> [reservations.byIp EXCEPT ![v.ip] = NoReservation]]
    BY <1>2 DEF Dropped, Reservation
  <2>2. ReservationTypeOK'
    BY <2>1 DEF ReservationInv, ReservationTypeOK, ReservationState
  <2>3. DictionariesAgree'
    BY <1>2, <2>1
       DEF ReservationInv, ReservationTypeOK, ReservationState,
           DictionariesAgree, Reservation
  <2>4. QED  BY <2>2, <2>3 DEF ReservationInv
<1>3. QED  BY <1>1, <1>2

\* Removing the reservation of a client.
LEMMA RemoveByClientInv ==
    ASSUME ReservationInv, NEW c \in ClientIds, RemoveByClient(c)
    PROVE  ReservationInv'
<1> DEFINE v == reservations.byClient[CanonicalId[c]]
<1>1. CanonicalId[c] \in Keys
  BY ReservationAssumption
<1>2. /\ v \in Reservation \cup {NoReservation}
      /\ v # NoReservation => /\ reservations.byClient[v.client] = v
                              /\ reservations.byIp[v.ip] = v
  BY <1>1
     DEF ReservationInv, ReservationTypeOK, ReservationState, DictionariesAgree
<1>3. reservations' = Dropped(reservations, v)
  BY DEF RemoveByClient, ReservationOf
<1>4. QED  BY <1>2, <1>3, DroppedInv

\* Removing the reservation of an address.
LEMMA RemoveByIpInv ==
    ASSUME ReservationInv, NEW a \in Ips, RemoveByIp(a)
    PROVE  ReservationInv'
<1> DEFINE v == reservations.byIp[a]
<1>1. /\ v \in Reservation \cup {NoReservation}
      /\ v # NoReservation => /\ reservations.byClient[v.client] = v
                              /\ reservations.byIp[v.ip] = v
  BY DEF ReservationInv, ReservationTypeOK, ReservationState, DictionariesAgree
<1>2. QED  BY <1>1, DroppedInv DEF RemoveByIp

\* ReservationInv is inductive.
LEMMA ReservationStepInv ==
    ReservationInv /\ [ReservationNext]_reservations => ReservationInv'
<1> SUFFICES ASSUME ReservationInv, [ReservationNext]_reservations
             PROVE  ReservationInv'
  OBVIOUS
<1>1. CASE UNCHANGED reservations
  BY <1>1 DEF ReservationInv, ReservationTypeOK, DictionariesAgree
<1>2. CASE ClearReservations
  BY <1>2, NoReservationsInv DEF ClearReservations
<1>3. QED
  BY <1>1, <1>2, AddInv, UpdateInv, RemoveByClientInv, RemoveByIpInv
     DEF ReservationNext

\* reservation.py, all methods: the two dictionaries are each other's inverse,
\* for every rewriting of client identifiers.
THEOREM ReservationsAgree == ReservationSpec => []DictionariesAgree
<1>1. ReservationInv => DictionariesAgree
  BY DEF ReservationInv
<1>2. QED
  BY <1>1, ReservationInitInv, ReservationStepInv, PTL DEF ReservationSpec

-----------------------------------------------------------------------------
(* The threads that serve.  Only stop() ends one: the invariant says what  *)
(* a thread relies on as long as its owner has not begun to stop the       *)
(* server.                                                                 *)

Places ==
    {"serve", "loop", "receive", "waiting", "error", "handle", "send",
     "sending"}

\* Nobody stops the server, and the thread has the socket and the flag that
\* the statement it is at relies on.
Undisturbed(s) ==
    /\ stopping[s]["owner"] = "out" /\ stopping[s]["thread"] = "out"
    /\ thread[s] \in {"new", "bound", "assigned", "ended"} \cup Places
    /\ thread[s] \in {"new", "ended"} <=> socket[s] = "absent"
    /\ thread[s] \in {"assigned"} \cup Places => held[s]
    /\ thread[s] \in Places => running[s]

LifeInv ==
    /\ LifeTypeOK
    /\ \A s \in Servers : owner[s] = "up" => Undisturbed(s)

-----------------------------------------------------------------------------
\* start() gives its thread all that the loop relies on, or no socket.
LEMMA StartKeeps ==
    ASSUME LifeInv, NEW s \in Servers, StartStep(s)
    PROVE  LifeInv'
<1>. USE DEF LifeInv, LifeTypeOK, Servers, Callers, ThreadPlaces, StopPlaces,
             Goes, KeepServer, KeepStops
<1>1. CASE DNSBindFails
  BY <1>1 DEF DNSBindFails, Undisturbed, Places
<1>2. CASE DNSBind
  BY <1>2 DEF DNSBind, Undisturbed, Places
<1>3. CASE DNSAssign
  BY <1>3 DEF DNSAssign, Undisturbed, Places
<1>4. CASE DNSSetRunning
  BY <1>4 DEF DNSSetRunning, Undisturbed, Places
<1>5. CASE DHCPDisabled
  BY <1>5 DEF DHCPDisabled, Undisturbed, Places
<1>6. CASE DHCPBindFails
  BY <1>6 DEF DHCPBindFails, Undisturbed, Places
<1>7. CASE DHCPBind
  BY <1>7 DEF DHCPBind, Undisturbed, Places
<1>. QED
  BY <1>1, <1>2, <1>3, <1>4, <1>5, <1>6, <1>7 DEF StartStep

\* Any statement of the loop leads to another one, or to the end of the thread
\* after somebody took the socket or the flag away.
LEMMA ServeKeeps ==
    ASSUME LifeInv, NEW s \in Servers, ServeStep(s)
    PROVE  LifeInv'
<1>. USE DEF LifeInv, LifeTypeOK, Servers, Callers, ThreadPlaces, StopPlaces,
             Goes, NeedsSocket, KeepServer, KeepStops
<1>1. CASE Serve(s) \/ Receive(s) \/ Send(s)
  BY <1>1 DEF Serve, Receive, Send, Undisturbed, Places
<1>2. CASE Loop(s) \/ AfterError(s)
  BY <1>2 DEF Loop, AfterError, Undisturbed, Places
<1>3. CASE ReceiveTimesOut(s) \/ ReceivePacket(s) \/ ReceiveFails(s)
  BY <1>3 DEF ReceiveTimesOut, ReceivePacket, ReceiveFails, Undisturbed, Places
<1>4. CASE HandleNothing(s) \/ HandleReply(s)
  BY <1>4 DEF HandleNothing, HandleReply, Undisturbed, Places
<1>5. CASE SendSucceeds(s) \/ SendFails(s)
  BY <1>5 DEF SendSucceeds, SendFails, Undisturbed, Places
<1>6. CASE SendFindsNone
  BY <1>6 DEF SendFindsNone, Undisturbed, Places
<1>. QED
  BY <1>1, <1>2, <1>3, <1>4, <1>5, <1>6 DEF ServeStep

\* A server that somebody is stopping has an owner that has begun to stop it.
LEMMA StopKeeps ==
    ASSUME LifeInv, NEW s \in Servers, NEW c \in Callers, StopStep(s, c)
    PROVE  LifeInv'
<1>. USE DEF LifeInv, LifeTypeOK, Servers, Callers, ThreadPlaces, StopPlaces,
             StopGoes, KeepServer
<1>1. CASE StopFlag(s, c)
  BY <1>1 DEF StopFlag, Undisturbed, Places
<1>2. CASE DNSStopRead(c)
  BY <1>2 DEF DNSStopRead, Undisturbed, Places
<1>3. CASE DNSStopClear(c)
  BY <1>3 DEF DNSStopClear, Undisturbed, Places
<1>4. CASE DNSStopClose(c)
  BY <1>4 DEF DNSStopClose, Undisturbed, Places
<1>5. CASE DHCPStopClose(c)
  BY <1>5 DEF DHCPStopClose, Undisturbed, Places
<1>6. CASE DHCPStopClear(c)
  BY <1>6 DEF DHCPStopClear, Undisturbed, Places
<1>. QED
  BY <1>1, <1>2, <1>3, <1>4, <1>5, <1>6 DEF StopStep

\* An owner that begins to stop the server ends what the invariant promises.
LEMMA OwnerKeeps ==
    ASSUME LifeInv, NEW s \in Servers,
           \/ Finally(s) \/ SocketDropped(s)
           \/ BeginStop(s) \/ StopReturns(s) \/ JoinReturns
    PROVE  LifeInv'
<1>. USE DEF LifeInv, LifeTypeOK, Servers, Callers, ThreadPlaces, StopPlaces,
             KeepServer, KeepStops
<1>1. CASE Finally(s)
  BY <1>1 DEF Finally, Undisturbed, Places
<1>2. CASE SocketDropped(s)
  BY <1>2 DEF SocketDropped, Ended, Undisturbed, Places
<1>3. CASE BeginStop(s)
  BY <1>3 DEF BeginStop, Undisturbed, Places
<1>4. CASE StopReturns(s)
  BY <1>4 DEF StopReturns, Undisturbed, Places
<1>5. CASE JoinReturns
  BY <1>5 DEF JoinReturns, Undisturbed, Places
<1>. QED
  BY <1>1, <1>2, <1>3, <1>4, <1>5

\* Every step of a thread or of an owner keeps the invariant.
LEMMA LifeStep ==
    ASSUME LifeInv, [LifeNext]_lifeVars
    PROVE  LifeInv'
<1>1. ASSUME NEW s \in Servers,
             ThreadStep(s) \/ BeginStop(s) \/ OwnerGoesOn(s)
      PROVE  LifeInv'
  BY <1>1, StartKeeps, ServeKeeps, StopKeeps, OwnerKeeps
     DEF ThreadStep, OwnerGoesOn, Callers
<1>2. CASE UNCHANGED lifeVars
  BY <1>2 DEF lifeVars, LifeInv, LifeTypeOK, Undisturbed
<1>. QED
  BY <1>1, <1>2 DEF LifeNext

\* A thread that got its socket serves until its owner calls stop().
THEOREM ServesUntilStop == LifeSpec => []OnlyStopEnds
<1>1. LifeInit => LifeInv
  BY DEF LifeInit, LifeInv, LifeTypeOK, Undisturbed, Servers, Callers,
         ThreadPlaces, StopPlaces, Places
<1>2. LifeInv => OnlyStopEnds
  BY DEF LifeInv, LifeTypeOK, Undisturbed, OnlyStopEnds, Places
<1>. QED
  BY <1>1, <1>2, LifeStep, PTL DEF LifeSpec

-----------------------------------------------------------------------------
(* The lease ledger keeps addresses exclusive, for any clients, addresses  *)
(* and longest lease.                                                      *)

\* The leases that the ledger hands out.
HeldOK ==
    /\ clock \in Nat
    /\ leased \in [Holders -> [client : Holders, ip : Grounds, end : Nat] \cup {None}]

LedgerInv == HeldOK /\ Exclusive

\* Nobody holds a lease.
LEMMA LedgerInitInv == Init => LedgerInv
BY DEF Init, LedgerInv, HeldOK, Exclusive

\* A grant names an address that nobody else holds.
LEMMA GrantInv ==
    ASSUME LedgerInv, MaxTerm \in Nat, NEW c \in Holders, Grant(c)
    PROVE  LedgerInv'
<1>1. PICK a \in Grounds, term \in 1..MaxTerm :
         /\ \A d \in Holders \ {c} : leased[d] # None => leased[d].ip # a
         /\ leased' = [leased EXCEPT ![c] =
                       [client |-> c, ip |-> a, end |-> clock + term]]
  BY DEF Grant
<1>2. clock' = clock
  BY DEF Grant
<1>3. HeldOK'
  BY <1>1, <1>2 DEF LedgerInv, HeldOK
<1>4. Exclusive'
  BY <1>1 DEF LedgerInv, HeldOK, Exclusive
<1>5. QED  BY <1>3, <1>4 DEF LedgerInv

\* Giving up and running out only take leases away.
LEMMA LedgerStepInv ==
    ASSUME LedgerInv, MaxTerm \in Nat, [Next]_ledgerVars
    PROVE  LedgerInv'
<1>1. CASE UNCHANGED ledgerVars
  BY <1>1 DEF ledgerVars, LedgerInv, HeldOK, Exclusive
<1>2. ASSUME NEW c \in Holders, GiveUp(c) PROVE LedgerInv'
  BY <1>2 DEF GiveUp, LedgerInv, HeldOK, Exclusive
<1>3. CASE TimePasses
  <2>1. \A c \in Holders : leased'[c] \in {leased[c], None}
    BY <1>3 DEF TimePasses, LedgerInv, HeldOK
  <2>2. HeldOK'
    BY <1>3, <2>1 DEF TimePasses, LedgerInv, HeldOK
  <2>3. Exclusive'
    BY <2>1 DEF LedgerInv, Exclusive
  <2>4. QED  BY <2>2, <2>3 DEF LedgerInv
<1>4. QED  BY <1>1, <1>2, <1>3, GrantInv DEF Next

\* LeaseLedger: no address ever has two holders.  Whatever implements the
\* ledger, as the DHCP service does, inherits it.
THEOREM LedgerExclusive ==
    ASSUME MaxTerm \in Nat
    PROVE  Spec => []Exclusive
<1>1. LedgerInv /\ [Next]_ledgerVars => LedgerInv'
  BY LedgerStepInv
<1>2. LedgerInv => Exclusive
  BY DEF LedgerInv
<1>3. QED  BY <1>1, <1>2, LedgerInitInv, PTL DEF Spec

-----------------------------------------------------------------------------
(* Every field of options is read as the options it is made of, and every  *)
(* reply is read again as it was written.                                  *)

\* What options.py reads are octets.
FieldOK == field \in Seq(Octet)

\* What an option goes on to is behind it and within the field.
LEMMA GoesForward ==
    ASSUME FieldOK, NEW at \in 0 .. Len(field), GoesOn(at)
    PROVE  After(at) \in at + 1 .. Len(field)
<1>1. at < Len(field) /\ Len(field) \in Nat
    BY LenProperties DEF GoesOn, WholeAt, FieldOK
<1>2. CASE field[at + 1] = PAD
    BY <1>1, <1>2 DEF After
<1>3. CASE field[at + 1] # PAD
    <2>1. WholeAt(at)
        BY <1>3 DEF GoesOn
    <2>2. field[at + 2] \in Octet
        BY <1>1, <2>1, ElementOfSeq DEF FieldOK, WholeAt
    <2>3. After(at) = at + 2 + field[at + 2] /\ After(at) <= Len(field)
        BY <1>3, <2>1 DEF After, WholeAt
    <2> DEFINE length == field[at + 2]
    <2>4. length \in 0 .. 255 /\ After(at) = at + 2 + length
        BY <2>2, <2>3 DEF Octet
    <2> HIDE DEF length
    <2>5. After(at) \in Nat /\ at + 1 <= After(at)
        BY <2>4
    <2> QED BY <1>1, <2>3, <2>5
<1> QED BY <1>2, <1>3

\* An option begins at zero, and elsewhere just where one that begins goes on
\* to.
LEMMA BeginsAre ==
    ASSUME FieldOK
    PROVE  /\ Begins \subseteq 0 .. Len(field)
           /\ 0 \in Begins
           /\ \A b \in Begins : GoesOn(b) => After(b) \in Begins
           /\ \A at \in Begins \ {0} : \E b \in Begins :
                 b < at /\ GoesOn(b) /\ After(b) = at
<1> DEFINE N == Len(field)
           Leads(B, n) == \E b \in B : GoesOn(b) /\ After(b) = n
           Body(f, n) == IF n = 0 THEN {0}
                         ELSE LET before == f[n - 1]
                              IN  IF Leads(before, n) THEN before \cup {n}
                                  ELSE before
           f == CHOOSE f : f = [n \in 0 .. N |-> Body(f, n)]
<1>1. N \in Nat
    BY LenProperties DEF FieldOK
<1>2. Begins = f[N]
    BY DEF Begins
<1>3. f = [n \in 0 .. N |-> Body(f, n)]
    <2> DEFINE T == SUBSET Nat
               c == {0}
               step == [p \in Nat \X T |->
                           IF Leads(p[2], p[1] + 1) THEN p[2] \cup {p[1] + 1}
                                                    ELSE p[2]]
    <2>1. c \in T /\ step \in [Nat \X T -> T]
        <3>1. ASSUME NEW p \in Nat \X T
              PROVE  (IF Leads(p[2], p[1] + 1) THEN p[2] \cup {p[1] + 1}
                                               ELSE p[2]) \in T
            <4> HIDE DEF Leads
            <4> QED OBVIOUS
        <3> HIDE DEF Leads
        <3> QED BY <3>1
    <2>2. PICK g \in [Nat -> T] : Follows(g, c, step)
        <3> HIDE DEF T, c, step
        <3> QED BY <2>1, Recursion, Zenon
    <2>3. g[0] = {0}
        BY <2>2 DEF Follows
    <2>4. ASSUME NEW n \in Nat
          PROVE  g[n + 1] = IF Leads(g[n], n + 1) THEN g[n] \cup {n + 1} ELSE g[n]
        <3>1. g[n + 1] = step[<<n, g[n]>>]
            BY <2>2 DEF Follows
        <3>2. <<n, g[n]>> \in Nat \X T
            OBVIOUS
        <3> HIDE DEF Leads
        <3> QED BY <3>1, <3>2
    <2> DEFINE k == [n \in 0 .. N |-> g[n]]
    <2>5. ASSUME NEW n \in 0 .. N PROVE g[n] = Body(k, n)
        <3>1. CASE n = 0
            BY <2>3, <3>1
        <3>2. CASE n # 0
            <4>1. n - 1 \in Nat /\ n - 1 \in 0 .. N /\ (n - 1) + 1 = n
                BY <1>1, <3>2
            <4>2. k[n - 1] = g[n - 1]
                BY <4>1
            <4>3. g[n] = IF Leads(g[n - 1], n) THEN g[n - 1] \cup {n} ELSE g[n - 1]
                <5> HIDE DEF Leads
                <5> QED BY <2>4, <4>1
            <4> HIDE DEF Leads, k
            <4> QED BY <3>2, <4>2, <4>3
        <3> QED BY <3>1, <3>2
    <2>6. k = [n \in 0 .. N |-> Body(k, n)]
        <3> HIDE DEF Body
        <3> QED BY <2>5
    <2> HIDE DEF k, Body, N
    <2>7. \E x : x = [n \in 0 .. N |-> Body(x, n)]
        BY <2>6
    <2> QED BY <2>7
<1> HIDE DEF f
<1>4. f[0] = {0}
    BY <1>1, <1>3
<1>5. ASSUME NEW n \in Nat, n + 1 <= N
      PROVE  f[n + 1] = IF Leads(f[n], n + 1) THEN f[n] \cup {n + 1} ELSE f[n]
    <2>1. n + 1 \in 0 .. N /\ n + 1 # 0 /\ (n + 1) - 1 = n
        BY <1>1, <1>5
    <2>2. f[n + 1] = Body(f, n + 1)
        <3> HIDE DEF Body
        <3> QED BY <1>3, <2>1
    <2> HIDE DEF Leads
    <2> QED BY <2>1, <2>2
<1> DEFINE Good(n) == /\ f[n] \subseteq 0 .. n
                      /\ 0 \in f[n]
                      /\ \A at \in f[n] \ {0} : Leads(f[n] \cap (0 .. at - 1), at)
<1>6. \A n \in Nat : n <= N => Good(n)
    <2> DEFINE P == {n \in Nat : n <= N => Good(n)}
    <2>1. 0 \in P
        BY <1>4
    <2>2. ASSUME NEW n \in P PROVE n + 1 \in P
        <3> SUFFICES ASSUME n + 1 <= N PROVE Good(n + 1)
            OBVIOUS
        <3>1. n \in Nat /\ n <= N
            BY <1>1
        <3>2. Good(n)
            BY <2>2, <3>1
        <3>3. CASE Leads(f[n], n + 1)
            <4>1. f[n + 1] = f[n] \cup {n + 1}
                <5> HIDE DEF Leads
                <5> QED BY <1>5, <3>1, <3>3
            <4>2. f[n] = f[n] \cap (0 .. n)
                BY <3>2
            <4>3. ASSUME NEW at \in f[n + 1] \ {0}
                  PROVE  Leads(f[n + 1] \cap (0 .. at - 1), at)
                <5>1. CASE at = n + 1
                    BY <3>1, <3>2, <3>3, <4>1, <5>1
                <5>2. CASE at # n + 1
                    <6>1. at \in f[n] \ {0}
                        BY <4>1, <5>2
                    <6> QED BY <3>2, <4>1, <6>1
                <5> QED BY <5>1, <5>2
            <4>4. f[n + 1] \subseteq 0 .. n + 1 /\ 0 \in f[n + 1]
                BY <3>1, <3>2, <4>1
            <4> QED BY <4>3, <4>4
        <3>4. CASE ~Leads(f[n], n + 1)
            <4>1. f[n + 1] = f[n]
                <5> HIDE DEF Leads
                <5> QED BY <1>5, <3>1, <3>4
            <4>2. f[n + 1] \subseteq 0 .. n + 1
                BY <3>1, <3>2, <4>1
            <4> QED BY <3>2, <4>1, <4>2
        <3> QED BY <3>3, <3>4
    <2>3. P \in SUBSET Nat
        OBVIOUS
    <2> HIDE DEF P
    <2>4. P = Nat
        BY <2>1, <2>2, <2>3, Induction
    <2> HIDE DEF Good
    <2> QED BY <2>4 DEF P
<1>7. \A m, n \in Nat : m <= n /\ n <= N => f[m] = f[n] \cap (0 .. m)
    <2> TAKE m \in Nat
    <2> DEFINE P == {n \in Nat : m <= n /\ n <= N => f[m] = f[n] \cap (0 .. m)}
    <2>1. ASSUME m <= N PROVE f[m] = f[m] \cap (0 .. m)
        BY <1>6, <2>1
    <2>2. 0 \in P
        <3> SUFFICES ASSUME m = 0 PROVE f[m] = f[0] \cap (0 .. m)
            OBVIOUS
        <3> QED BY <1>4
    <2>3. ASSUME NEW n \in P PROVE n + 1 \in P
        <3> SUFFICES ASSUME m <= n + 1, n + 1 <= N
                     PROVE  f[m] = f[n + 1] \cap (0 .. m)
            OBVIOUS
        <3>0. n \in Nat /\ n <= N
            BY <1>1
        <3>1. CASE m = n + 1
            BY <2>1, <3>1
        <3>2. CASE m <= n
            <4>1. f[m] = f[n] \cap (0 .. m)
                BY <2>3, <3>0, <3>2
            <4>2. f[n + 1] = f[n] \/ f[n + 1] = f[n] \cup {n + 1}
                <5> HIDE DEF Leads
                <5> QED BY <1>5, <3>0
            <4>3. n + 1 \notin 0 .. m
                BY <3>0, <3>2
            <4> QED BY <4>1, <4>2, <4>3
        <3>3. m = n + 1 \/ m <= n
            BY <3>0
        <3> QED BY <3>1, <3>2, <3>3
    <2>4. P \in SUBSET Nat
        OBVIOUS
    <2> HIDE DEF P
    <2>5. P = Nat
        BY <2>2, <2>3, <2>4, Induction
    <2> QED BY <2>5 DEF P
<1>8. Good(N)
    <2> HIDE DEF Good
    <2> QED BY <1>1, <1>6
<1>9. ASSUME NEW b \in f[N], GoesOn(b) PROVE After(b) \in f[N]
    <2> DEFINE a == After(b)
    <2>1. b \in 0 .. N
        BY <1>8
    <2>2. a \in b + 1 .. N
        BY <1>9, <2>1, GoesForward
    <2> HIDE DEF a
    <2>3. a - 1 \in Nat /\ a - 1 <= N /\ (a - 1) + 1 = a /\ b \in 0 .. a - 1
        BY <1>1, <2>1, <2>2
    <2>4. f[a - 1] = f[N] \cap (0 .. a - 1)
        BY <1>1, <1>7, <2>3
    <2>5. b \in f[a - 1]
        BY <2>3, <2>4
    <2>6. Leads(f[a - 1], a)
        BY <1>9, <2>5 DEF a
    <2>7. f[a] = f[a - 1] \cup {a}
        <3>1. a <= N
            BY <2>2
        <3> HIDE DEF Leads
        <3> QED BY <1>5, <2>3, <2>6, <3>1
    <2>8. f[a] = f[N] \cap (0 .. a)
        <3>1. a \in Nat /\ a <= N
            BY <2>1, <2>2
        <3> QED BY <1>1, <1>7, <3>1
    <2>9. a \in f[N]
        BY <2>7, <2>8
    <2> QED BY <2>9 DEF a
<1>10. ASSUME NEW at \in f[N] \ {0}
       PROVE  \E b \in f[N] : b < at /\ GoesOn(b) /\ After(b) = at
    <2>1. at \in 0 .. N /\ Leads(f[N] \cap (0 .. at - 1), at)
        <3> HIDE DEF Leads
        <3> QED BY <1>8
    <2>2. PICK b \in f[N] \cap (0 .. at - 1) : GoesOn(b) /\ After(b) = at
        BY <2>1
    <2>3. b < at
        BY <2>1, <2>2
    <2> QED BY <2>2, <2>3
<1> QED BY <1>2, <1>8, <1>9, <1>10

\* All that begins before an offset goes on to it, at the latest.
AllGoOnTo(o) == \A b \in Begins : b < o => GoesOn(b) /\ After(b) <= o

\* Between where an option begins and where the next one does none begins.
LEMMA NextBegins ==
    ASSUME FieldOK, NEW o \in Begins, AllGoOnTo(o), NEW at \in Begins, o < at
    PROVE  GoesOn(o) /\ After(o) <= at
<1>1. Begins \subseteq Nat
    <2>1. Begins \subseteq 0 .. Len(field)
        BY BeginsAre
    <2> QED BY <2>1
<1> DEFINE T == {x \in Begins : o < x}
<1>2. PICK n \in T : \A m \in T : n <= m
    <2>1. T \in SUBSET Nat /\ T # {}
        BY <1>1
    <2> HIDE DEF T
    <2>2. \E n \in T : \A m \in T : n <= m
        BY <2>1, Least
    <2> QED BY <2>2
<1>3. n \in Begins \ {0} /\ o < n /\ n <= at
    BY <1>1, <1>2
<1>4. PICK b \in Begins : b < n /\ GoesOn(b) /\ After(b) = n
    BY <1>3, BeginsAre
<1>5. ~(o < b)
    <2>1. b \notin T
        BY <1>1, <1>2, <1>3, <1>4
    <2> QED BY <2>1
<1>6. ~(b < o)
    BY <1>1, <1>3, <1>4 DEF AllGoOnTo
<1>7. b = o
    BY <1>1, <1>5, <1>6
<1> QED BY <1>3, <1>4, <1>7

\* The same holds of where it goes on to.
LEMMA GoOn ==
    ASSUME FieldOK, NEW o \in Begins, AllGoOnTo(o), GoesOn(o)
    PROVE  After(o) \in Begins /\ AllGoOnTo(After(o))
<1>1. /\ o \in Nat /\ After(o) \in Nat /\ o < After(o)
      /\ After(o) \in Begins
      /\ \A b \in Begins : b \in Nat
    <2>1. Begins \subseteq 0 .. Len(field) /\ After(o) \in Begins
        BY BeginsAre
    <2>2. After(o) \in o + 1 .. Len(field)
        BY <2>1, GoesForward
    <2> QED BY <2>1, <2>2
<1>2. ASSUME NEW b \in Begins, b < After(o)
      PROVE  GoesOn(b) /\ After(b) <= After(o)
    <2>1. CASE b < o
        <3>1. GoesOn(b) /\ After(b) <= o /\ b \in 0 .. Len(field)
            BY <2>1, BeginsAre DEF AllGoOnTo
        <3>2. After(b) \in Nat
            BY <3>1, GoesForward
        <3>3. After(b) <= After(o)
            BY <1>1, <3>1, <3>2
        <3> QED BY <3>1, <3>3
    <2>2. CASE b = o
        <3>1. After(o) <= After(o)
            BY <1>1
        <3> QED BY <2>2, <3>1
    <2>3. CASE o < b
        <3>1. After(o) <= b
            BY <2>3, NextBegins
        <3>2. ~(b < After(o))
            BY <1>1, <3>1
        <3> QED BY <1>2, <3>2
    <2>4. b < o \/ b = o \/ o < b
        BY <1>1
    <2> QED BY <2>1, <2>2, <2>3, <2>4
<1> QED BY <1>1, <1>2 DEF AllGoOnTo

\* The options that are written before an offset, and that the reader has.
Before(o) == {at \in Written : at < o}

SoFar(o) ==
    /\ Len(options) = Cardinality(Before(o))
    /\ \A at \in Before(o) : options[Rank(Written, at)] = OptionAt(at)

\* What is written are finitely many options at naturals.
LEMMA WrittenAre ==
    ASSUME FieldOK
    PROVE  /\ Written \subseteq Nat
           /\ \A o \in Nat : /\ IsFiniteSet(Before(o))
                             /\ Cardinality(Before(o)) \in Nat
<1>1. Begins \subseteq 0 .. Len(field) /\ Len(field) \in Nat
    BY BeginsAre, LenProperties DEF FieldOK
<1>2. Written \subseteq 0 .. Len(field)
    BY <1>1 DEF Written
<1>3. IsFiniteSet(0 .. Len(field))
    BY <1>1, FS_Interval
<1>4. \A o : Before(o) \subseteq 0 .. Len(field)
    BY <1>2 DEF Before
<1>5. \A o : IsFiniteSet(Before(o)) /\ Cardinality(Before(o)) \in Nat
    BY <1>3, <1>4, FS_Subset, FS_CardinalityType
<1> QED BY <1>2, <1>5

\* Behind an option that is not one of the written ones there are no more of
\* them.
LEMMA PassedOver ==
    ASSUME FieldOK, NEW o \in Begins, AllGoOnTo(o), GoesOn(o), o \notin Written
    PROVE  Before(After(o)) = Before(o)
<1>1. \A at \in Written : at \in Begins /\ at \in Nat
    BY WrittenAre DEF Written
<1>2. o \in Nat /\ After(o) \in Nat /\ o < After(o)
    <2>1. o \in 0 .. Len(field)
        BY BeginsAre
    <2> QED BY <2>1, GoesForward
<1>3. ASSUME NEW at \in Written PROVE at < After(o) <=> at < o
    <2>1. at # o
        BY <1>3
    <2>2. o < at => After(o) <= at
        BY <1>1, NextBegins
    <2> QED BY <1>1, <1>2, <2>1, <2>2
<1> QED BY <1>3 DEF Before

\* Reading a written option adds it to those that are read.
LEMMA OneMore ==
    ASSUME FieldOK, NEW o \in Written, AllGoOnTo(o)
    PROVE  /\ Before(After(o)) = Before(o) \cup {o}
           /\ Cardinality(Before(After(o))) = Cardinality(Before(o)) + 1
           /\ Rank(Written, o) = Cardinality(Before(o)) + 1
           /\ \A at \in Before(o) : Rank(Written, at) \in 1 .. Cardinality(Before(o))
<1>1. \A at \in Written : at \in Begins /\ at \in Nat
    BY WrittenAre DEF Written
<1>2. GoesOn(o)
    <2>1. WholeAt(o)
        BY DEF Written
    <2>2. o \in Nat /\ Len(field) \in Nat
        BY <1>1, LenProperties DEF FieldOK
    <2>3. o < Len(field)
        BY <2>1, <2>2 DEF WholeAt
    <2> QED BY <2>1, <2>3 DEF GoesOn
<1>3. o \in Nat /\ After(o) \in Nat /\ o < After(o)
    <2>1. o \in 0 .. Len(field)
        BY <1>1, BeginsAre
    <2> QED BY <1>2, <2>1, GoesForward
<1>4. Before(After(o)) = Before(o) \cup {o}
    <2>1. ASSUME NEW at \in Written PROVE at < After(o) <=> at < o \/ at = o
        <3>1. o < at => After(o) <= at
            BY <1>1, NextBegins
        <3>2. at \in Nat
            BY <1>1
        <3>3. CASE o < at
            <4>1. ~(at < After(o)) /\ ~(at < o) /\ at # o
                BY <1>3, <3>1, <3>2, <3>3
            <4> QED BY <4>1
        <3>4. CASE at = o
            BY <1>3, <3>4
        <3>5. CASE at < o
            <4>1. at < After(o)
                BY <1>3, <3>2, <3>5
            <4> QED BY <3>5, <4>1
        <3>6. o < at \/ at = o \/ at < o
            BY <1>3, <3>2
        <3> QED BY <3>3, <3>4, <3>5, <3>6
    <2> QED BY <2>1 DEF Before
<1>5. o \notin Before(o)
    BY <1>3 DEF Before
<1>6. IsFiniteSet(Before(o)) /\ Cardinality(Before(o)) \in Nat
    BY <1>3, WrittenAre
<1>7. Cardinality(Before(o) \cup {o}) = Cardinality(Before(o)) + 1
    BY <1>5, <1>6, FS_AddElement
<1>8. {j \in Written : j <= o} = Before(o) \cup {o}
    BY <1>1 DEF Before
<1>9. Rank(Written, o) = Cardinality(Before(o)) + 1
    BY <1>7, <1>8 DEF Rank
<1>10. ASSUME NEW at \in Before(o)
       PROVE  Rank(Written, at) \in 1 .. Cardinality(Before(o))
    <2> DEFINE B == {j \in Written : j <= at}
               A == Before(o)
    <2>0. at \in Written /\ at < o
        BY DEF Before
    <2>1. B \subseteq A /\ at \in B
        <3>1. at \in B
            BY <1>1, <2>0
        <3>2. ASSUME NEW j \in B PROVE j \in A
            <4>1. j \in Nat /\ at \in Nat
                BY <1>1, <2>0
            <4>2. j < o
                BY <1>3, <2>0, <4>1
            <4> QED BY <4>2 DEF Before
        <3> QED BY <3>1, <3>2
    <2>2. Rank(Written, at) = Cardinality(B)
        BY DEF Rank
    <2> HIDE DEF A, B
    <2>3. IsFiniteSet(A) /\ Cardinality(A) \in Nat
        BY <1>6 DEF A
    <2>4. IsFiniteSet(B) /\ Cardinality(B) <= Cardinality(A)
        BY <2>1, <2>3, FS_Subset
    <2>5. Cardinality(B) \in Nat /\ Cardinality(B) # 0
        BY <2>1, <2>4, FS_CardinalityType, FS_EmptySet
    <2> QED BY <2>2, <2>3, <2>4, <2>5 DEF A
<1> QED BY <1>4, <1>7, <1>9, <1>10

\* Options that can be written and read again: neither code ends or pads the
\* field, and the length of the value fits an octet.
Sendable ==
    {option \in [code : Octet \ {PAD, END}, value : Seq(Octet)] :
        Len(option.value) \in Octet}

\* The octets of an option, from one offset to another.
OptionIn(option, bytes, from, to) ==
    /\ to = from + 2 + Len(option.value)
    /\ to < Len(bytes)
    /\ bytes[from + 1] = option.code
    /\ bytes[from + 2] = Len(option.value)
    /\ SubSeq(bytes, from + 3, to) = option.value

\* A list of options in octets: where each begins, and that END follows.
LaidOut(list, bytes, starts) ==
    /\ starts[1] = 0
    /\ \A k \in 1 .. Len(list) :
          OptionIn(list[k], bytes, starts[k], starts[k + 1])
    /\ Len(bytes) = starts[Len(list) + 1] + 1
    /\ bytes[Len(bytes)] = END

\* An option in octets.
LEMMA OptionInOctets ==
    ASSUME NEW option \in Sendable
    PROVE  /\ ToBytes(option) \in Seq(Octet)
           /\ Len(option.value) \in Nat
           /\ Len(ToBytes(option)) = 2 + Len(option.value)
           /\ ToBytes(option)[1] = option.code
           /\ ToBytes(option)[2] = Len(option.value)
           /\ \A j \in 1 .. Len(option.value) :
                 ToBytes(option)[2 + j] = option.value[j]
<1> DEFINE v == option.value
           c == option.code
           h == <<c, Len(v)>>
<1>1. v \in Seq(Octet) /\ c \in Octet /\ Len(v) \in Octet
    BY DEF Sendable
<1>2. h \in Seq(Octet) /\ Len(h) = 2 /\ h[1] = c /\ h[2] = Len(v)
    BY <1>1
<1>3. Len(v) \in Nat
    BY <1>1, LenProperties
<1>4. ToBytes(option) = h \o v
    BY DEF ToBytes
<1> HIDE DEF h, v, c
<1>5. /\ h \o v \in Seq(Octet)
      /\ Len(h \o v) = 2 + Len(v)
      /\ \A i \in 1 .. 2 + Len(v) :
            (h \o v)[i] = IF i <= 2 THEN h[i] ELSE v[i - 2]
    <2>1. /\ h \o v \in Seq(Octet)
          /\ Len(h \o v) = Len(h) + Len(v)
          /\ \A i \in 1 .. Len(h) + Len(v) :
                (h \o v)[i] = IF i <= Len(h) THEN h[i] ELSE v[i - Len(h)]
        BY <1>1, <1>2, ConcatProperties
    <2> QED BY <1>2, <2>1
<1>6. (h \o v)[1] = c /\ (h \o v)[2] = Len(v)
    BY <1>2, <1>3, <1>5
<1>7. ASSUME NEW j \in 1 .. Len(v) PROVE (h \o v)[2 + j] = v[j]
    <2> DEFINE i == 2 + j
    <2>1. i \in 1 .. 2 + Len(v) /\ ~(i <= 2) /\ i - 2 = j
        BY <1>3
    <2> HIDE DEF i
    <2>2. (h \o v)[i] = v[j]
        BY <1>5, <2>1
    <2> QED BY <2>2 DEF i
<1>8. /\ ToBytes(option) \in Seq(Octet)
      /\ Len(ToBytes(option)) = 2 + Len(v)
      /\ ToBytes(option)[1] = c
      /\ ToBytes(option)[2] = Len(v)
    BY <1>4, <1>5, <1>6
<1>9. \A j \in 1 .. Len(v) : ToBytes(option)[2 + j] = v[j]
    BY <1>4, <1>7
<1> QED BY <1>3, <1>8, <1>9 DEF v, c

\* What encode_options writes has the options where parse_options finds them.
LEMMA EncodedIsLaidOut ==
    ASSUME NEW list \in Seq(Sendable)
    PROVE  /\ Encoded(list) \in Seq(Octet)
           /\ \E starts \in [1 .. Len(list) + 1 -> Nat] :
                 LaidOut(list, Encoded(list), starts)
<1> DEFINE N == Len(list)
           ss == [i \in 1 .. N |-> ToBytes(list[i])]
           bytes == Encoded(list)
<1>1. N \in Nat /\ DOMAIN list = 1 .. N /\ \A k \in 1 .. N : list[k] \in Sendable
    BY LenProperties, ElementOfSeq
<1>2. ss \in Seq(Seq(Octet)) /\ Len(ss) = N
    <2>1. \A i \in 1 .. N : ToBytes(list[i]) \in Seq(Octet)
        BY <1>1, OptionInOctets
    <2> HIDE DEF N
    <2> QED BY <1>1, <2>1
<1>3. bytes = FlattenSeq(ss) \o <<END>>
    BY <1>1 DEF Encoded
<1> HIDE DEF ss
<1>4. PICK starts \in [1 .. N + 1 -> Nat] :
         PutTogether(ss, FlattenSeq(ss), starts)
    <2>1. \E starts \in [1 .. Len(ss) + 1 -> Nat] :
             PutTogether(ss, FlattenSeq(ss), starts)
        BY <1>2, Pieces
    <2> QED BY <1>2, <2>1
<1> DEFINE whole == FlattenSeq(ss)
           last == <<END>>
<1>5. whole \in Seq(Octet)
    BY <1>2, Pieces
<1>6. last \in Seq(Octet) /\ Len(last) = 1 /\ last[1] = END
    BY DEF END, Octet
<1>7. Len(whole) \in Nat
    BY <1>5, LenProperties
<1> HIDE DEF whole, last
<1>8. /\ whole \o last \in Seq(Octet)
      /\ Len(whole \o last) = Len(whole) + 1
      /\ \A i \in 1 .. Len(whole) + 1 :
            (whole \o last)[i] =
                IF i <= Len(whole) THEN whole[i] ELSE last[i - Len(whole)]
    <2>1. /\ whole \o last \in Seq(Octet)
          /\ Len(whole \o last) = Len(whole) + Len(last)
          /\ \A i \in 1 .. Len(whole) + Len(last) :
                (whole \o last)[i] =
                    IF i <= Len(whole) THEN whole[i] ELSE last[i - Len(whole)]
        BY <1>5, <1>6, ConcatProperties
    <2> QED BY <1>6, <2>1
<1>9. bytes = whole \o last
    BY <1>3 DEF whole, last
<1>10. /\ bytes \in Seq(Octet)
       /\ Len(bytes) = Len(whole) + 1
       /\ \A i \in 1 .. Len(whole) : bytes[i] = whole[i]
       /\ bytes[Len(bytes)] = END
    <2>1. \A i \in 1 .. Len(whole) : bytes[i] = whole[i]
        BY <1>7, <1>8, <1>9
    <2>2. bytes[Len(whole) + 1] = END
        <3>1. /\ Len(whole) + 1 \in 1 .. Len(whole) + 1
              /\ ~(Len(whole) + 1 <= Len(whole))
              /\ (Len(whole) + 1) - Len(whole) = 1
            BY <1>7
        <3> QED BY <1>6, <1>8, <1>9, <3>1
    <2> QED BY <1>8, <1>9, <2>1, <2>2
<1>11. /\ starts[1] = 0 /\ Len(whole) = starts[N + 1]
       /\ \A k \in 1 .. N :
             /\ starts[k + 1] = starts[k] + Len(ss[k])
             /\ starts[k + 1] <= Len(whole)
             /\ \A j \in 1 .. Len(ss[k]) : whole[starts[k] + j] = ss[k][j]
    <2>1. Len(ss) = N
        BY <1>2
    <2>2. PutTogether(ss, whole, starts)
        BY <1>4 DEF whole
    <2> HIDE DEF N
    <2>3. starts[1] = 0 /\ Len(whole) = starts[N + 1]
        BY <2>1, <2>2 DEF PutTogether
    <2>4. ASSUME NEW k \in 1 .. N
          PROVE  /\ starts[k + 1] = starts[k] + Len(ss[k])
                 /\ starts[k + 1] <= Len(whole)
                 /\ \A j \in 1 .. Len(ss[k]) : whole[starts[k] + j] = ss[k][j]
        <3>1. k \in 1 .. Len(ss)
            BY <2>1
        <3> QED BY <2>2, <3>1 DEF PutTogether
    <2> QED BY <2>3, <2>4
<1> HIDE DEF bytes
<1>12. ASSUME NEW k \in 1 .. N
       PROVE  OptionIn(list[k], bytes, starts[k], starts[k + 1])
    <2> DEFINE at == starts[k]
               v == list[k].value
               n == Len(v)
               octets == ss[k]
    <2>1. /\ list[k] \in Sendable /\ v \in Seq(Octet)
        BY <1>1 DEF Sendable
    <2>2. octets = ToBytes(list[k])
        BY DEF ss
    <2>3. /\ n \in Nat /\ Len(octets) = 2 + n
          /\ octets[1] = list[k].code /\ octets[2] = n
          /\ \A j \in 1 .. n : octets[2 + j] = v[j]
        BY <2>1, <2>2, OptionInOctets
    <2>4. at \in Nat
        <3>1. k \in 1 .. N + 1
            BY <1>1
        <3> QED BY <1>4, <3>1
    <2>5. /\ starts[k + 1] = at + Len(octets) /\ starts[k + 1] <= Len(whole)
          /\ \A j \in 1 .. Len(octets) : whole[at + j] = octets[j]
        BY <1>11
    <2> HIDE DEF at, v, n, octets
    <2>6. starts[k + 1] = at + 2 + n /\ at + 2 + n <= Len(whole)
        BY <2>3, <2>4, <2>5
    <2>7. ASSUME NEW j \in 1 .. 2 + n PROVE bytes[at + j] = octets[j]
        <3>1. at + j \in 1 .. Len(whole)
            BY <1>7, <2>3, <2>4, <2>6
        <3> QED BY <1>10, <2>3, <2>5, <3>1
    <2>8. bytes[at + 1] = list[k].code /\ bytes[at + 2] = n
        <3>1. 1 \in 1 .. 2 + n /\ 2 \in 1 .. 2 + n
            BY <2>3
        <3> QED BY <2>3, <2>7, <3>1
    <2>9. SubSeq(bytes, at + 3, at + 2 + n) = v
        <3> DEFINE m == at + 3
                   e == at + 2 + n
                   s == SubSeq(bytes, m, e)
        <3>1. m \in Int /\ e \in Int /\ e - m + 1 = n /\ (m <= e <=> 1 <= n)
            BY <2>3, <2>4
        <3>2. \A i \in m .. e : bytes[i] \in Octet
            <4>1. \A i \in m .. e : i \in 1 .. Len(bytes)
                BY <1>7, <1>10, <2>3, <2>4, <2>6
            <4> QED BY <1>10, <4>1, ElementOfSeq
        <3> HIDE DEF m, e
        <3>3. /\ s \in Seq(Octet)
              /\ Len(s) = IF m <= e THEN e - m + 1 ELSE 0
              /\ \A i \in 1 .. e - m + 1 : s[i] = bytes[m + i - 1]
            BY <3>1, <3>2, SubSeqProperties
        <3>4. Len(s) = n
            BY <2>3, <3>1, <3>3
        <3> HIDE DEF s
        <3>5. ASSUME NEW i \in 1 .. n PROVE s[i] = v[i]
            <4>1. s[i] = bytes[m + i - 1]
                BY <3>1, <3>3
            <4>2. m + i - 1 = at + (2 + i) /\ 2 + i \in 1 .. 2 + n
                <5>1. i \in Nat /\ 1 <= i /\ i <= n
                    BY <2>3
                <5>2. (at + 3) + i - 1 = at + (2 + i)
                    BY <2>4, <5>1
                <5>3. 2 + i \in 1 .. 2 + n
                    BY <2>3, <5>1
                <5> QED BY <5>2, <5>3 DEF m
            <4>3. bytes[at + (2 + i)] = octets[2 + i]
                BY <2>7, <4>2
            <4> QED BY <2>3, <4>1, <4>2, <4>3
        <3>6. v \in Seq(Octet) /\ Len(v) = n
            BY <2>1 DEF v, n
        <3>7. s = v
            BY <3>3, <3>4, <3>5, <3>6, SeqEqual
        <3> QED BY <3>7 DEF s, m, e
    <2>10. starts[k + 1] < Len(bytes)
        BY <1>7, <1>10, <2>3, <2>4, <2>6
    <2> QED BY <2>6, <2>8, <2>9, <2>10 DEF at, v, n, OptionIn
<1>13. Len(bytes) = starts[N + 1] + 1
    BY <1>10, <1>11
<1>14. LaidOut(list, bytes, starts)
    BY <1>10, <1>11, <1>12, <1>13 DEF LaidOut
<1> QED BY <1>4, <1>10, <1>14 DEF bytes

\* A number of four octets is read again as it was written.
LEMMA FourOctetsReadBack ==
    ASSUME NEW n \in Nat, Packable(n)
    PROVE  /\ FourOctets(n) \in Seq(Octet)
           /\ Len(FourOctets(n)) = 4
           /\ Number(FourOctets(n)) = n
<1> DEFINE a == n \div 16777216
           b == n \div 65536
           c == n \div 256
<1>1. a \in Octet
    BY DEF Packable
<1>2. /\ b % 256 \in Octet /\ c % 256 \in Octet /\ n % 256 \in Octet
    BY DEF Octet
<1>3. FourOctets(n) = <<a, b % 256, c % 256, n % 256>>
    BY DEF FourOctets
<1>4. \A m \in Nat : m % 256 = m - 256 * (m \div 256) /\ m \div 256 \in Nat
    OBVIOUS
<1>5. b = c \div 256
    OBVIOUS
<1>6. a = b \div 256
    OBVIOUS
<1>7. a \in Nat /\ b \in Nat /\ c \in Nat
    OBVIOUS
<1> DEFINE x == b % 256
           y == c % 256
           z == n % 256
<1>8. x \in Octet /\ y \in Octet /\ z \in Octet
    BY <1>2
<1>9. z = n - 256 * c /\ y = c - 256 * b /\ x = b - 256 * a
    <2>1. n % 256 = n - 256 * (n \div 256)
        BY <1>4
    <2>2. c % 256 = c - 256 * (c \div 256)
        BY <1>4, <1>7
    <2>3. b % 256 = b - 256 * (b \div 256)
        BY <1>4, <1>7
    <2> QED BY <1>5, <1>6, <2>1, <2>2, <2>3
<1>10. FourOctets(n) = <<a, x, y, z>>
    BY <1>3
<1> HIDE DEF a, b, c, x, y, z
<1>11. x \in Int /\ y \in Int /\ z \in Int
    BY <1>8 DEF Octet
<1>12. 16777216 * a + 65536 * x + 256 * y + z = n
    BY <1>7, <1>9, <1>11
<1>13. Number(<<a, x, y, z>>) = 16777216 * a + 65536 * x + 256 * y + z
    BY DEF Number
<1>14. <<a, x, y, z>> \in Seq(Octet) /\ Len(<<a, x, y, z>>) = 4
    BY <1>1, <1>8
<1> QED BY <1>10, <1>12, <1>13, <1>14

\* A client renews before it rebinds and before its lease ends.
LEMMA TimersInOrder ==
    ASSUME NEW n \in Nat \ {0}
    PROVE  /\ RenewalTime(n) \in Nat /\ RebindingTime(n) \in Nat
           /\ 1 <= RenewalTime(n)
           /\ RenewalTime(n) <= RebindingTime(n)
           /\ RebindingTime(n) <= n
<1> DEFINE a == n \div 2
           b == (7 * n) \div 8
<1>1. a \in Nat /\ b \in Nat /\ a <= b /\ a <= n /\ b <= n
    OBVIOUS
<1>2. RenewalTime(n) = Larger(1, a) /\ RebindingTime(n) = Larger(1, b)
    BY DEF RenewalTime, RebindingTime
<1> HIDE DEF a, b
<1> QED BY <1>1, <1>2 DEF Larger

\* What is no longer than a packable time can be packed.
LEMMA ShorterPackable ==
    ASSUME NEW n \in Nat, NEW m \in Nat, m <= n, Packable(n)
    PROVE  Packable(m)
<1>1. m \div 16777216 \in Nat /\ m \div 16777216 <= n \div 16777216
    OBVIOUS
<1>2. n \div 16777216 \in 0 .. 255
    BY DEF Packable, Octet
<1> QED BY <1>1, <1>2 DEF Packable, Octet

\* The options that carry times, and those that do not.
TimeCodes == {LEASE_TIME, RENEWAL_TIME, REBINDING_TIME}

Plain == {option \in Sendable : option.code \notin TimeCodes}

\* Two lists one after the other.
LEMMA Chained ==
    ASSUME NEW S, NEW a \in Seq(S), NEW c, NEW b \in Seq(S)
    PROVE  a \o If(c, b) \in Seq(S)
<1>1. If(c, b) \in Seq(S)
    BY DEF If
<1> QED BY <1>1, ConcatProperties

\* The times that a reply with a lease carries.
Times(leaseTime) ==
    <<Option(LEASE_TIME, FourOctets(leaseTime)),
      Option(RENEWAL_TIME, FourOctets(RenewalTime(leaseTime))),
      Option(REBINDING_TIME, FourOctets(RebindingTime(leaseTime)))>>

\* A reply has options without times, and the times behind them if it has a
\* lease.
LEMMA ReplyOptionsAre ==
    ASSUME NEW settings \in Settings, NEW type \in Octet, NEW withLease
    PROVE  \E base \in Seq(Plain) :
              ReplyOptions(settings, type, withLease)
                  = base \o If(withLease, Times(settings.leaseTime))
<1> DEFINE first == <<Option(MESSAGE_TYPE, <<type>>),
                      Option(SERVER_IDENTIFIER, ServerIp),
                      Option(SUBNET_MASK, SomeAddress)>>
           router == <<Option(ROUTER, SomeAddress)>>
           dns == <<Option(DNS_SERVER, SomeAddress)>>
           base == (first \o If(settings.gateway, router))
                       \o If(settings.dns, dns)
<1>1. SomeAddress \in Seq(Octet) /\ Len(SomeAddress) = 4
    BY DEF SomeAddress, Octet
<1>2. ServerIp \in Seq(Octet) /\ Len(ServerIp) = 4
    <2>1. ServerIp \in [1 .. 4 -> Octet] /\ 4 \in Nat
        BY WireAssumption
    <2>2. ServerIp \in Seq(Octet)
        BY <2>1, SeqDef
    <2>3. DOMAIN ServerIp = 1 .. 4 /\ Len(ServerIp) \in Nat
          /\ DOMAIN ServerIp = 1 .. Len(ServerIp)
        BY <2>1, <2>2, LenProperties
    <2>4. Len(ServerIp) = 4
        BY <2>3
    <2> QED BY <2>2, <2>4
<1>3. <<type>> \in Seq(Octet) /\ Len(<<type>>) = 1
    OBVIOUS
<1>4. ASSUME NEW code \in {MESSAGE_TYPE, SERVER_IDENTIFIER, SUBNET_MASK,
                           ROUTER, DNS_SERVER},
             NEW v \in Seq(Octet), Len(v) \in {1, 4}
      PROVE  Option(code, v) \in Plain
    <2>1. code \in Octet \ {PAD, END} /\ code \notin TimeCodes
        BY DEF MESSAGE_TYPE, SERVER_IDENTIFIER, SUBNET_MASK, ROUTER, DNS_SERVER,
               PAD, END, Octet, TimeCodes, LEASE_TIME, RENEWAL_TIME,
               REBINDING_TIME
    <2>2. Len(v) \in Octet
        BY <1>4 DEF Octet
    <2> QED BY <2>1, <2>2 DEF Option, Plain, Sendable
<1>5. first \in Seq(Plain) /\ router \in Seq(Plain) /\ dns \in Seq(Plain)
    <2>1. /\ Option(MESSAGE_TYPE, <<type>>) \in Plain
          /\ Option(SERVER_IDENTIFIER, ServerIp) \in Plain
          /\ Option(SUBNET_MASK, SomeAddress) \in Plain
          /\ Option(ROUTER, SomeAddress) \in Plain
          /\ Option(DNS_SERVER, SomeAddress) \in Plain
        BY <1>1, <1>2, <1>3, <1>4
    <2> DEFINE o1 == Option(MESSAGE_TYPE, <<type>>)
               o2 == Option(SERVER_IDENTIFIER, ServerIp)
               o3 == Option(SUBNET_MASK, SomeAddress)
               o4 == Option(ROUTER, SomeAddress)
               o5 == Option(DNS_SERVER, SomeAddress)
    <2>2. /\ o1 \in Plain /\ o2 \in Plain /\ o3 \in Plain
          /\ o4 \in Plain /\ o5 \in Plain
        BY <2>1
    <2>3. first = <<o1, o2, o3>> /\ router = <<o4>> /\ dns = <<o5>>
        OBVIOUS
    <2> HIDE DEF o1, o2, o3, o4, o5, first, router, dns
    <2>4. <<o1, o2, o3>> \in Seq(Plain) /\ <<o4>> \in Seq(Plain)
          /\ <<o5>> \in Seq(Plain)
        BY <2>2
    <2> QED BY <2>3, <2>4
<1>6. base \in Seq(Plain)
    <2> HIDE DEF first, router, dns
    <2> DEFINE both == first \o If(settings.gateway, router)
    <2>1. both \in Seq(Plain)
        BY <1>5, Chained
    <2> HIDE DEF both
    <2>2. both \o If(settings.dns, dns) \in Seq(Plain)
        BY <1>5, <2>1, Chained
    <2> QED BY <2>2 DEF both
<1>7. ReplyOptions(settings, type, withLease)
          = base \o If(withLease, Times(settings.leaseTime))
    BY DEF ReplyOptions, Times
<1> HIDE DEF base
<1> QED BY <1>6, <1>7

\* The list has the code, and nothing else under it than the value.
Says(list, code, v) ==
    /\ \E i \in 1 .. Len(list) : list[i].code = code
    /\ \A i \in 1 .. Len(list) : list[i].code = code => list[i].value = v

\* A list that has a lease time has the three times of one lease.
Timed(list) ==
    (\E i \in 1 .. Len(list) : list[i].code = LEASE_TIME) =>
        \E n \in Nat \ {0} :
            /\ Packable(n)
            /\ Says(list, LEASE_TIME, FourOctets(n))
            /\ Says(list, RENEWAL_TIME, FourOctets(RenewalTime(n)))
            /\ Says(list, REBINDING_TIME, FourOctets(RebindingTime(n)))

\* A packable time makes an option that can be sent.
LEMMA TimeSendable ==
    ASSUME NEW code \in TimeCodes, NEW n \in Nat, Packable(n)
    PROVE  Option(code, FourOctets(n)) \in Sendable
<1>1. code \in Octet \ {PAD, END}
    BY DEF TimeCodes, LEASE_TIME, RENEWAL_TIME, REBINDING_TIME, PAD, END, Octet
<1> DEFINE v == FourOctets(n)
<1>2. v \in Seq(Octet) /\ Len(v) \in Octet
    <2>1. v \in Seq(Octet) /\ Len(v) = 4
        BY FourOctetsReadBack
    <2> HIDE DEF v
    <2> QED BY <2>1 DEF Octet
<1> HIDE DEF v
<1>3. Option(code, v) \in Sendable
    BY <1>1, <1>2 DEF Option, Sendable
<1> QED BY <1>3 DEF v

\* What a plain list says is what is behind it says.
LEMMA BehindPlain ==
    ASSUME NEW base \in Seq(Plain), NEW c1 \in TimeCodes, NEW c2 \in TimeCodes,
           NEW c3 \in TimeCodes, NEW v1, NEW v2, NEW v3,
           c1 # c2, c1 # c3, c2 # c3,
           Option(c1, v1) \in Sendable, Option(c2, v2) \in Sendable,
           Option(c3, v3) \in Sendable,
           NEW list,
           list = base \o <<Option(c1, v1), Option(c2, v2), Option(c3, v3)>>
    PROVE  /\ list \in Seq(Sendable)
           /\ Says(list, c1, v1) /\ Says(list, c2, v2) /\ Says(list, c3, v3)
<1> DEFINE o1 == Option(c1, v1)
           o2 == Option(c2, v2)
           o3 == Option(c3, v3)
           tail == <<o1, o2, o3>>
           N == Len(base)
<1>1. base \in Seq(Sendable) /\ N \in Nat
    <2>1. Plain \subseteq Sendable
        BY DEF Plain
    <2> QED BY <2>1, SeqMonotonic, LenProperties
<1>2. /\ o1.code = c1 /\ o1.value = v1
      /\ o2.code = c2 /\ o2.value = v2
      /\ o3.code = c3 /\ o3.value = v3
    BY DEF Option
<1>3. o1 \in Sendable /\ o2 \in Sendable /\ o3 \in Sendable
    OBVIOUS
<1> HIDE DEF o1, o2, o3
<1>4. /\ tail \in Seq(Sendable) /\ Len(tail) = 3
      /\ tail[1] = o1 /\ tail[2] = o2 /\ tail[3] = o3
    BY <1>3
<1>5. list = base \o tail
    BY DEF o1, o2, o3
<1> HIDE DEF tail, N
<1>6. /\ list \in Seq(Sendable)
      /\ Len(list) = N + 3
      /\ \A i \in 1 .. N + 3 :
            list[i] = IF i <= N THEN base[i] ELSE tail[i - N]
    <2>1. /\ base \o tail \in Seq(Sendable)
          /\ Len(base \o tail) = Len(base) + Len(tail)
          /\ \A i \in 1 .. Len(base) + Len(tail) :
                (base \o tail)[i] =
                    IF i <= Len(base) THEN base[i] ELSE tail[i - Len(base)]
        BY <1>1, <1>4, ConcatProperties
    <2> QED BY <1>4, <1>5, <2>1 DEF N
<1>7. \A i \in 1 .. N : list[i] = base[i] /\ list[i].code \notin TimeCodes
    <2>1. \A i \in 1 .. N : base[i] \in Plain
        BY ElementOfSeq DEF N
    <2>2. \A i \in 1 .. N : list[i] = base[i]
        BY <1>1, <1>6
    <2> QED BY <2>1, <2>2 DEF Plain
<1>8. list[N + 1] = o1 /\ list[N + 2] = o2 /\ list[N + 3] = o3
    <2>1. /\ N + 1 \in 1 .. N + 3 /\ ~(N + 1 <= N) /\ (N + 1) - N = 1
          /\ N + 2 \in 1 .. N + 3 /\ ~(N + 2 <= N) /\ (N + 2) - N = 2
          /\ N + 3 \in 1 .. N + 3 /\ ~(N + 3 <= N) /\ (N + 3) - N = 3
        BY <1>1
    <2> QED BY <1>4, <1>6, <2>1
<1>9. \A i \in 1 .. Len(list) : i \in 1 .. N \/ i = N + 1 \/ i = N + 2 \/ i = N + 3
    BY <1>1, <1>6
<1>10. N + 1 \in 1 .. Len(list) /\ N + 2 \in 1 .. Len(list) /\ N + 3 \in 1 .. Len(list)
    BY <1>1, <1>6
<1>11. Says(list, c1, v1)
    <2>1. ASSUME NEW i \in 1 .. Len(list), list[i].code = c1
          PROVE  list[i] = o1
        <3>1. ~(i \in 1 .. N)
            BY <1>7, <2>1
        <3>2. i # N + 2 /\ i # N + 3
            BY <1>2, <1>8, <2>1
        <3> QED BY <1>8, <1>9, <3>1, <3>2
    <2> QED BY <1>2, <1>8, <1>10, <2>1 DEF Says
<1>12. Says(list, c2, v2)
    <2>1. ASSUME NEW i \in 1 .. Len(list), list[i].code = c2
          PROVE  list[i] = o2
        <3>1. ~(i \in 1 .. N)
            BY <1>7, <2>1
        <3>2. i # N + 1 /\ i # N + 3
            BY <1>2, <1>8, <2>1
        <3> QED BY <1>8, <1>9, <3>1, <3>2
    <2> QED BY <1>2, <1>8, <1>10, <2>1 DEF Says
<1>13. Says(list, c3, v3)
    <2>1. ASSUME NEW i \in 1 .. Len(list), list[i].code = c3
          PROVE  list[i] = o3
        <3>1. ~(i \in 1 .. N)
            BY <1>7, <2>1
        <3>2. i # N + 1 /\ i # N + 2
            BY <1>2, <1>8, <2>1
        <3> QED BY <1>8, <1>9, <3>1, <3>2
    <2> QED BY <1>2, <1>8, <1>10, <2>1 DEF Says
<1> QED BY <1>6, <1>11, <1>12, <1>13

\* A reply can be sent, and its times are those of one lease.
LEMMA ReplyIsFine ==
    ASSUME NEW settings \in Settings, NEW type \in Octet, NEW withLease \in BOOLEAN,
           withLease => Packable(settings.leaseTime)
    PROVE  /\ ReplyOptions(settings, type, withLease) \in Seq(Sendable)
           /\ Timed(ReplyOptions(settings, type, withLease))
<1> DEFINE list == ReplyOptions(settings, type, withLease)
           n == settings.leaseTime
<1>1. PICK base \in Seq(Plain) : list = base \o If(withLease, Times(n))
    BY ReplyOptionsAre
<1>2. n \in Nat \ {0}
    BY WireAssumption DEF Settings
<1> HIDE DEF list, n
<1>3. CASE withLease
    <2> DEFINE r == RenewalTime(n)
               b == RebindingTime(n)
    <2>1. Packable(n)
        BY <1>3 DEF n
    <2>2. r \in Nat /\ b \in Nat /\ r <= b /\ b <= n /\ r <= n
        BY <1>2, TimersInOrder
    <2>3. Packable(r) /\ Packable(b)
        <3> HIDE DEF r, b
        <3> QED BY <1>2, <2>1, <2>2, ShorterPackable
    <2>4. list = base \o <<Option(LEASE_TIME, FourOctets(n)),
                           Option(RENEWAL_TIME, FourOctets(r)),
                           Option(REBINDING_TIME, FourOctets(b))>>
        BY <1>1, <1>3 DEF If, Times
    <2>5. /\ LEASE_TIME \in TimeCodes /\ RENEWAL_TIME \in TimeCodes
          /\ REBINDING_TIME \in TimeCodes
        BY DEF TimeCodes
    <2>6. /\ LEASE_TIME # RENEWAL_TIME /\ LEASE_TIME # REBINDING_TIME
          /\ RENEWAL_TIME # REBINDING_TIME
        BY DEF LEASE_TIME, RENEWAL_TIME, REBINDING_TIME
    <2> HIDE DEF r, b
    <2>7. /\ Option(LEASE_TIME, FourOctets(n)) \in Sendable
          /\ Option(RENEWAL_TIME, FourOctets(r)) \in Sendable
          /\ Option(REBINDING_TIME, FourOctets(b)) \in Sendable
        BY <1>2, <2>1, <2>2, <2>3, <2>5, TimeSendable
    <2>8. /\ list \in Seq(Sendable)
          /\ Says(list, LEASE_TIME, FourOctets(n))
          /\ Says(list, RENEWAL_TIME, FourOctets(r))
          /\ Says(list, REBINDING_TIME, FourOctets(b))
        BY <2>4, <2>5, <2>6, <2>7, BehindPlain
    <2> QED BY <1>2, <2>1, <2>8 DEF Timed, list, r, b
<1>4. CASE ~withLease
    <2>1. list = base
        <3>1. list = base \o <<>>
            BY <1>1, <1>4 DEF If
        <3> QED BY <3>1, ConcatEmptySeq
    <2>2. list \in Seq(Sendable)
        <3>1. Plain \subseteq Sendable
            BY DEF Plain
        <3> QED BY <2>1, <3>1, SeqMonotonic
    <2>3. \A i \in 1 .. Len(list) : list[i].code # LEASE_TIME
        <3>1. \A i \in 1 .. Len(list) : list[i] \in Plain
            BY <2>1, ElementOfSeq
        <3> QED BY <3>1 DEF Plain, TimeCodes
    <2> QED BY <2>2, <2>3 DEF Timed, list
<1> QED BY <1>3, <1>4

-----------------------------------------------------------------------------
(* The invariants.                                                         *)

\* What the reader keeps: where it is, and what it has read until there.
Reader ==
    stage \in {"options", "reply"} =>
        offset \in Begins /\ AllGoOnTo(offset) /\ SoFar(offset)

ReadInv ==
    /\ FieldOK
    /\ options \in Seq([code : Octet, value : Seq(Octet)])
    /\ stage \in {"packet", "options", "typed", "refused", "silent", "reply",
                  "received"}
    /\ stage = "packet" => offset = 0 /\ options = <<>>
    /\ Reader
    /\ OptionsAsWritten

\* The client has read the first k options, and is where the next one begins.
ReadUpTo(k, starts) ==
    /\ offset = starts[k + 1]
    /\ Len(options) = k
    /\ \A i \in 1 .. k : options[i] = reply.options[i]

Halfway ==
    \E starts \in [1 .. Len(reply.options) + 1 -> Nat] :
        /\ LaidOut(reply.options, field, starts)
        /\ \E k \in 0 .. Len(reply.options) : ReadUpTo(k, starts)

ReplyInv ==
    /\ stage \notin {"reply", "received"} => reply = NoReply
    /\ stage \in {"reply", "received"} =>
          reply.options \in Seq(Sendable) /\ Timed(reply.options)
    /\ stage = "reply" => Halfway
    /\ stage = "received" => options = reply.options

\* What is read from a field depends on nothing but the field.
LEMMA SameField ==
    ASSUME field' = field
    PROVE  /\ Begins' = Begins /\ Written' = Written
           /\ Whole' = Whole
           /\ \A o : AllGoOnTo(o)' <=> AllGoOnTo(o)
           /\ \A o : Before(o)' = Before(o)
           /\ \A at : OptionAt(at)' = OptionAt(at)
<1>1. Begins' = Begins
    BY DEF Begins, GoesOn, WholeAt, After
<1>2. \A at : (WholeAt(at)' <=> WholeAt(at)) /\ After(at)' = After(at)
    BY DEF WholeAt, After
<1>3. \A at : GoesOn(at)' <=> GoesOn(at)
    BY <1>2 DEF GoesOn
<1>4. Written' = Written
    BY <1>1, <1>2 DEF Written
<1>5. Whole' = Whole
    BY <1>1 DEF Whole
<1>6. \A o : AllGoOnTo(o)' <=> AllGoOnTo(o)
    BY <1>1, <1>2, <1>3 DEF AllGoOnTo
<1>7. \A o : Before(o)' = Before(o)
    BY <1>4 DEF Before
<1>8. \A at : OptionAt(at)' = OptionAt(at)
    BY <1>2 DEF OptionAt
<1> QED BY <1>1, <1>4, <1>5, <1>6, <1>7, <1>8

\* A field that ends where the reader stands is whole, and the reader has all
\* of its options.
LEMMA AllRead ==
    ASSUME FieldOK, offset \in Begins, AllGoOnTo(offset), SoFar(offset),
           offset < Len(field) => field[offset + 1] = END
    PROVE  /\ Whole
           /\ Len(options) = Cardinality(Written)
           /\ \A at \in Written : options[Rank(Written, at)] = OptionAt(at)
<1>1. Whole
    BY DEF Whole
<1>2. ~GoesOn(offset) /\ ~WholeAt(offset)
    <2>1. offset \in Nat /\ Len(field) \in Nat
        <3>1. offset \in 0 .. Len(field)
            BY BeginsAre
        <3> QED BY <3>1, LenProperties DEF FieldOK
    <2>2. ~WholeAt(offset)
        <3> SUFFICES ASSUME WholeAt(offset) PROVE FALSE
            OBVIOUS
        <3>1. offset + 1 < Len(field) /\ field[offset + 1] # END
            BY DEF WholeAt
        <3>2. offset < Len(field)
            BY <2>1, <3>1
        <3> QED BY <3>1, <3>2
    <2>3. END # PAD
        BY DEF END, PAD
    <2> QED BY <2>2, <2>3 DEF GoesOn
<1>3. ASSUME NEW at \in Written PROVE at < offset
    <2>1. at \in Begins /\ at \in Nat /\ offset \in Nat /\ WholeAt(at)
        <3>1. offset \in 0 .. Len(field)
            BY BeginsAre
        <3> QED BY <3>1, WrittenAre DEF Written
    <2>2. ~(offset < at)
        BY <1>2, <2>1, NextBegins
    <2>3. at # offset
        BY <1>2, <2>1
    <2> QED BY <2>1, <2>2, <2>3
<1>4. Before(offset) = Written
    BY <1>3 DEF Before
<1> QED BY <1>1, <1>4 DEF SoFar

\* A field in which the reader cannot go on from an option is not whole.
LEMMA Stuck ==
    ASSUME FieldOK, offset \in Begins, AllGoOnTo(offset), ~GoesOn(offset),
           offset < Len(field), field[offset + 1] # END
    PROVE  ~Whole
<1> SUFFICES ASSUME NEW at \in Begins, at < Len(field) => field[at + 1] = END
             PROVE  FALSE
    BY DEF Whole
<1>1. at \in Nat /\ offset \in Nat /\ Len(field) \in Nat
    <2>1. offset \in 0 .. Len(field) /\ at \in 0 .. Len(field)
        BY BeginsAre
    <2> QED BY <2>1, LenProperties DEF FieldOK
<1>2. CASE at < offset
    <2>1. GoesOn(at)
        BY <1>2 DEF AllGoOnTo
    <2>2. at < Len(field) /\ field[at + 1] # END
        <3>1. at < Len(field)
            BY <2>1 DEF GoesOn
        <3>2. PAD # END
            BY DEF PAD, END
        <3> QED BY <2>1, <3>1, <3>2 DEF GoesOn, WholeAt
    <2> QED BY <2>2
<1>3. CASE at = offset
    BY <1>3
<1>4. CASE offset < at
    BY <1>4, NextBegins
<1>5. at < offset \/ at = offset \/ offset < at
    BY <1>1
<1> QED BY <1>2, <1>3, <1>4, <1>5

\* A reader starts at the first option, with none.
LEMMA AtStart ==
    FieldOK /\ offset = 0 /\ options = <<>>
        => offset \in Begins /\ AllGoOnTo(offset) /\ SoFar(offset)
<1> SUFFICES ASSUME FieldOK, offset = 0, options = <<>>
             PROVE  0 \in Begins /\ AllGoOnTo(0) /\ SoFar(0)
    OBVIOUS
<1>1. 0 \in Begins /\ \A b \in Begins : ~(b < 0)
    <2>1. Begins \subseteq 0 .. Len(field) /\ 0 \in Begins
        BY BeginsAre
    <2> QED BY <2>1
<1>2. AllGoOnTo(0)
    BY <1>1 DEF AllGoOnTo
<1>3. Before(0) = {}
    <2>1. \A at \in Written : at \in Begins
        BY DEF Written
    <2> QED BY <1>1, <2>1 DEF Before
<1>4. Len(options) = 0 /\ Cardinality({}) = 0
    BY EmptySeq, FS_EmptySet
<1>5. SoFar(0)
    BY <1>3, <1>4 DEF SoFar
<1> QED BY <1>1, <1>2, <1>5

\* The server begins with a packet that has arrived.
LEMMA WireInitInv == WireInit => ReadInv /\ ReplyInv
<1> SUFFICES ASSUME WireInit PROVE ReadInv /\ ReplyInv
    OBVIOUS
<1>1. field \in Seq(Octet) /\ options = <<>> /\ offset = 0
      /\ stage = "packet" /\ reply = NoReply
    BY WireAssumption DEF WireInit
<1>2. ReadInv
    BY <1>1 DEF ReadInv, FieldOK, Reader, OptionsAsWritten
<1>3. ReplyInv
    BY <1>1 DEF ReplyInv
<1> QED BY <1>2, <1>3

\* A packet without a whole head is refused before its options are read.
LEMMA ReadPacketInv ==
    ASSUME ReadInv, ReplyInv, ReadPacket
    PROVE  ReadInv' /\ ReplyInv'
<1>1. /\ field' = field /\ offset' = offset /\ options' = options
      /\ head' = head /\ reply' = reply /\ stage = "packet"
      /\ stage' = IF head.complete /\ head.cookie THEN "options" ELSE "refused"
    BY DEF ReadPacket, Becomes
<1>2. /\ FieldOK' /\ options' \in Seq([code : Octet, value : Seq(Octet)])
      /\ offset' = 0 /\ options' = <<>>
    BY <1>1 DEF ReadInv, FieldOK
<1>3. Reader'
    <2>1. (FieldOK /\ offset = 0 /\ options = <<>>
              => offset \in Begins /\ AllGoOnTo(offset) /\ SoFar(offset))'
        BY AtStart, PTL
    <2> QED BY <1>2, <2>1 DEF Reader
<1>4. OptionsAsWritten'
    BY <1>1 DEF OptionsAsWritten
<1>5. stage' \in {"options", "refused"}
    BY <1>1
<1>6. ReadInv'
    BY <1>2, <1>3, <1>4, <1>5 DEF ReadInv
<1>7. ReplyInv'
    BY <1>1, <1>5 DEF ReplyInv
<1> QED BY <1>6, <1>7

\* Where a client is after the first k options: at the code of the next one,
\* or at END.
LEMMA ClientIsAt ==
    ASSUME NEW list \in Seq(Sendable), NEW bytes,
           NEW starts \in [1 .. Len(list) + 1 -> Nat],
           LaidOut(list, bytes, starts), NEW k \in 0 .. Len(list)
    PROVE  /\ starts[k + 1] \in Nat /\ starts[k + 1] < Len(bytes)
           /\ k = Len(list) => bytes[starts[k + 1] + 1] = END
           /\ k < Len(list) =>
                 /\ k + 1 \in 1 .. Len(list)
                 /\ OptionIn(list[k + 1], bytes, starts[k + 1], starts[k + 2])
                 /\ bytes[starts[k + 1] + 1] \notin {PAD, END}
<1> DEFINE N == Len(list)
<1>1. N \in Nat /\ k \in Nat /\ k <= N
    BY LenProperties
<1>2. starts[N + 1] \in Nat /\ Len(bytes) = starts[N + 1] + 1
      /\ bytes[Len(bytes)] = END
    BY <1>1 DEF LaidOut
<1>3. CASE k = N
    BY <1>1, <1>2, <1>3
<1>4. CASE k < N
    <2> DEFINE i == k + 1
    <2>1. i \in 1 .. N /\ i \in 1 .. N + 1 /\ i + 1 \in 1 .. N + 1 /\ i + 1 = k + 2
        BY <1>1, <1>4
    <2>2. list[i] \in Sendable
        BY <2>1, ElementOfSeq
    <2>3. list[i].code \notin {PAD, END} /\ Len(list[i].value) \in Nat
        <3>1. list[i].value \in Seq(Octet)
            BY <2>2 DEF Sendable
        <3> QED BY <2>2, <3>1, LenProperties DEF Sendable
    <2> HIDE DEF i
    <2>4. OptionIn(list[i], bytes, starts[i], starts[i + 1])
        BY <2>1 DEF LaidOut
    <2>5. starts[i] \in Nat /\ starts[i + 1] \in Nat
        BY <2>1
    <2>6. starts[i] < Len(bytes)
        <3> DEFINE length == Len(list[i].value)
                   at == starts[i]
                   next == starts[i + 1]
                   end == Len(bytes)
        <3>1. end \in Nat /\ length \in Nat /\ at \in Nat
            BY <1>2, <2>3, <2>5
        <3>2. next = at + 2 + length /\ next < end
            BY <2>4 DEF OptionIn
        <3> HIDE DEF length, at, next, end
        <3>3. at < end
            BY <3>1, <3>2
        <3> QED BY <3>3 DEF at, end
    <2>7. k # N
        BY <1>1, <1>4
    <2>8. bytes[starts[i] + 1] \notin {PAD, END}
        BY <2>3, <2>4 DEF OptionIn
    <2>9. starts[k + 2] = starts[i + 1]
        BY <2>1
    <2> QED BY <2>1, <2>4, <2>5, <2>6, <2>7, <2>8, <2>9 DEF i
<1> QED BY <1>1, <1>3, <1>4

\* The same of the client that has read the first k options.
LEMMA ClientStands ==
    ASSUME reply.options \in Seq(Sendable),
           NEW starts \in [1 .. Len(reply.options) + 1 -> Nat],
           NEW k \in 0 .. Len(reply.options),
           LaidOut(reply.options, field, starts), ReadUpTo(k, starts)
    PROVE  /\ offset < Len(field)
           /\ k = Len(reply.options) => field[offset + 1] = END
           /\ k < Len(reply.options) =>
                 /\ k + 1 \in 1 .. Len(reply.options)
                 /\ OptionIn(reply.options[k + 1], field, offset, starts[k + 2])
                 /\ field[offset + 1] \notin {PAD, END}
<1> DEFINE list == reply.options
<1>1. /\ list \in Seq(Sendable) /\ LaidOut(list, field, starts)
      /\ starts \in [1 .. Len(list) + 1 -> Nat] /\ k \in 0 .. Len(list)
    OBVIOUS
<1> HIDE DEF list
<1>2. /\ starts[k + 1] \in Nat /\ starts[k + 1] < Len(field)
      /\ k = Len(list) => field[starts[k + 1] + 1] = END
      /\ k < Len(list) =>
            /\ k + 1 \in 1 .. Len(list)
            /\ OptionIn(list[k + 1], field, starts[k + 1], starts[k + 2])
            /\ field[starts[k + 1] + 1] \notin {PAD, END}
    BY <1>1, ClientIsAt
<1>3. offset = starts[k + 1]
    BY DEF ReadUpTo
<1> QED BY <1>2, <1>3 DEF list

\* The reader of a packet, or of a reply, goes over padding.
LEMMA ReadPadInv ==
    ASSUME ReadInv, ReplyInv, ReadPad
    PROVE  ReadInv' /\ ReplyInv'
<1>1. /\ stage \in {"options", "reply"} /\ offset < Len(field)
      /\ field[offset + 1] = PAD
      /\ offset' = offset + 1 /\ options' = options
      /\ head' = head /\ field' = field /\ stage' = stage /\ reply' = reply
    BY DEF ReadPad, Reading, Goto
<1>2. FieldOK /\ offset \in Begins /\ AllGoOnTo(offset) /\ SoFar(offset)
    BY <1>1 DEF ReadInv, Reader
<1>3. GoesOn(offset) /\ After(offset) = offset' /\ offset \notin Written
    BY <1>1 DEF GoesOn, After, Written, WholeAt
<1>4. /\ offset' \in Begins /\ AllGoOnTo(offset')
      /\ Before(offset') = Before(offset)
    BY <1>2, <1>3, GoOn, PassedOver
<1>5. SoFar(offset')
    BY <1>2, <1>4 DEF SoFar
<1>6. Reader'
    <2>1. offset' \in Begins' /\ AllGoOnTo(offset)'
        BY <1>1, <1>4, SameField
    <2>2. SoFar(offset)'
        BY <1>1, <1>5, SameField DEF SoFar
    <2> QED BY <2>1, <2>2 DEF Reader
<1>7. OptionsAsWritten'
    BY <1>1 DEF OptionsAsWritten
<1>8. ReadInv'
    BY <1>1, <1>6, <1>7 DEF ReadInv, FieldOK
<1>9. stage = "options"
    <2> SUFFICES ASSUME stage = "reply" PROVE FALSE
        BY <1>1
    <2>1. reply.options \in Seq(Sendable)
        BY DEF ReplyInv
    <2>2. PICK starts \in [1 .. Len(reply.options) + 1 -> Nat],
               k \in 0 .. Len(reply.options) :
             LaidOut(reply.options, field, starts) /\ ReadUpTo(k, starts)
        BY DEF ReplyInv, Halfway
    <2>3. PAD # END
        BY DEF PAD, END
    <2>4. k = Len(reply.options) \/ k < Len(reply.options)
        <3>1. Len(reply.options) \in Nat
            BY <2>1, LenProperties
        <3> QED BY <3>1
    <2> QED BY <1>1, <2>1, <2>2, <2>3, <2>4, ClientStands
<1>10. ReplyInv'
    BY <1>1, <1>9 DEF ReplyInv
<1> QED BY <1>8, <1>10

\* The end of the options is the end of all that are written.
LEMMA ReadEndInv ==
    ASSUME ReadInv, ReplyInv, ReadEnd
    PROVE  ReadInv' /\ ReplyInv'
<1>1. /\ stage \in {"options", "reply"}
      /\ offset < Len(field) => field[offset + 1] = END
      /\ stage' = IF stage = "options" THEN "typed" ELSE "received"
      /\ head' = head /\ field' = field /\ offset' = offset
      /\ options' = options /\ reply' = reply
    BY DEF ReadEnd, Becomes
<1>2. FieldOK /\ offset \in Begins /\ AllGoOnTo(offset) /\ SoFar(offset)
    BY <1>1 DEF ReadInv, Reader
<1>3. /\ Whole
      /\ Len(options) = Cardinality(Written)
      /\ \A at \in Written : options[Rank(Written, at)] = OptionAt(at)
    BY <1>1, <1>2, AllRead
<1>4. OptionsAsWritten'
    <2>1. Whole' /\ Len(options') = Cardinality(Written')
        BY <1>1, <1>3, SameField
    <2>2. \A at \in Written' : options'[Rank(Written', at)] = OptionAt(at)'
        BY <1>1, <1>3, SameField
    <2>3. stage' # "refused"
        BY <1>1
    <2> QED BY <2>1, <2>2, <2>3 DEF OptionsAsWritten, Rank
<1>5. ReadInv'
    BY <1>1, <1>4 DEF ReadInv, FieldOK, Reader
<1>6. ASSUME stage = "reply" PROVE options = reply.options
    <2>1. reply.options \in Seq(Sendable)
        BY <1>6 DEF ReplyInv
    <2>2. PICK starts \in [1 .. Len(reply.options) + 1 -> Nat],
               k \in 0 .. Len(reply.options) :
             LaidOut(reply.options, field, starts) /\ ReadUpTo(k, starts)
        BY <1>6 DEF ReplyInv, Halfway
    <2>3. offset < Len(field) /\ field[offset + 1] = END
        BY <1>1, <2>1, <2>2, ClientStands
    <2>4. Len(reply.options) \in Nat
        BY <2>1, LenProperties
    <2>5. k = Len(reply.options)
        <3>1. ~(k < Len(reply.options))
            BY <2>1, <2>2, <2>3, ClientStands
        <3> QED BY <2>4, <3>1
    <2>6. /\ Len(options) = Len(reply.options)
          /\ \A i \in 1 .. Len(options) : options[i] = reply.options[i]
        BY <2>2, <2>5 DEF ReadUpTo
    <2> DEFINE S == [code : Octet, value : Seq(Octet)]
    <2>7. options \in Seq(S) /\ reply.options \in Seq(S)
        <3>1. Sendable \subseteq S
            BY DEF Sendable
        <3>2. options \in Seq(S)
            BY DEF ReadInv
        <3> HIDE DEF S
        <3> QED BY <2>1, <3>1, <3>2, SeqMonotonic
    <2> HIDE DEF S
    <2> QED BY <2>6, <2>7, SeqEqual
<1>7. ReplyInv'
    <2>1. CASE stage = "options"
        BY <1>1, <2>1 DEF ReplyInv
    <2>2. CASE stage = "reply"
        <3>1. stage' = "received" /\ options' = reply'.options
            BY <1>1, <1>6, <2>2
        <3> QED BY <1>1, <2>2, <3>1 DEF ReplyInv
    <2> QED BY <1>1, <2>1, <2>2
<1> QED BY <1>5, <1>7

\* An option that is cut off refuses the field; no reply has one.
LEMMA ReadOptionInv ==
    ASSUME ReadInv, ReplyInv, ReadOption
    PROVE  ReadInv' /\ ReplyInv'
<1>1. /\ stage \in {"options", "reply"} /\ offset < Len(field)
      /\ field[offset + 1] \notin {PAD, END}
    BY DEF ReadOption, Reading
<1>2. FieldOK /\ offset \in Begins /\ AllGoOnTo(offset) /\ SoFar(offset)
    BY <1>1 DEF ReadInv, Reader
<1>3. offset \in Nat /\ Len(field) \in Nat /\ field \in Seq(Octet)
    <2>1. offset \in 0 .. Len(field)
        BY <1>2, BeginsAre
    <2> QED BY <1>2, <2>1, LenProperties DEF FieldOK
<1> DEFINE end == offset + 2 + field[offset + 2]
<1>4. offset + 1 < Len(field) => field[offset + 2] \in Octet
    <2> SUFFICES ASSUME offset + 1 < Len(field) PROVE field[offset + 2] \in Octet
        OBVIOUS
    <2>1. offset + 2 \in 1 .. Len(field)
        BY <1>3
    <2> QED BY <1>3, <2>1, ElementOfSeq
<1>5. ASSUME NEW k \in Nat, stage = "reply",
             NEW starts \in [1 .. Len(reply.options) + 1 -> Nat],
             k \in 0 .. Len(reply.options),
             LaidOut(reply.options, field, starts), ReadUpTo(k, starts)
      PROVE  /\ offset + 1 < Len(field) /\ end <= Len(field)
             /\ k + 1 \in 1 .. Len(reply.options)
             /\ end = starts[k + 2]
             /\ Option(field[offset + 1], SubSeq(field, offset + 3, end))
                   = reply.options[k + 1]
    <2>1. reply.options \in Seq(Sendable) /\ Len(reply.options) \in Nat
        <3>1. reply.options \in Seq(Sendable)
            BY <1>5 DEF ReplyInv
        <3> QED BY <3>1, LenProperties
    <2>3. k # Len(reply.options)
        BY <1>1, <1>5, <2>1, ClientStands
    <2>4. k < Len(reply.options)
        BY <1>5, <2>1, <2>3
    <2> DEFINE option == reply.options[k + 1]
               length == Len(option.value)
    <2>5. /\ k + 1 \in 1 .. Len(reply.options)
          /\ field[offset + 1] = option.code
          /\ field[offset + 2] = length
          /\ starts[k + 2] = offset + 2 + length
          /\ starts[k + 2] < Len(field)
          /\ SubSeq(field, offset + 3, starts[k + 2]) = option.value
        <3>1. /\ k + 1 \in 1 .. Len(reply.options)
              /\ OptionIn(option, field, offset, starts[k + 2])
            BY <1>5, <2>1, <2>4, ClientStands
        <3> HIDE DEF option
        <3> QED BY <3>1 DEF OptionIn
    <2>6. option \in Sendable
        BY <2>1, <2>5, ElementOfSeq
    <2>7. length \in Nat
        <3>1. option.value \in Seq(Octet)
            BY <2>6 DEF Sendable
        <3> QED BY <3>1, LenProperties
    <2>8. Option(option.code, option.value) = option
        BY <2>6 DEF Option, Sendable
    <2> HIDE DEF option, length
    <2>9. end = starts[k + 2]
        BY <2>5
    <2>10. offset + 1 < Len(field) /\ end <= Len(field)
        <3>1. end = offset + 2 + length /\ end < Len(field)
            BY <2>5, <2>9
        <3> HIDE DEF end
        <3> QED BY <1>3, <2>7, <3>1
    <2> QED BY <2>5, <2>8, <2>9, <2>10 DEF option
<1>6. ASSUME stage = "reply"
      PROVE  \E starts \in [1 .. Len(reply.options) + 1 -> Nat],
                k \in 0 .. Len(reply.options) :
             LaidOut(reply.options, field, starts) /\ ReadUpTo(k, starts)
    BY <1>6 DEF ReplyInv, Halfway
<1> HIDE DEF end
<1>7. CASE offset + 1 >= Len(field) \/ ~(end <= Len(field))
    <2>1. /\ stage' = "refused"
          /\ head' = head /\ field' = field /\ offset' = offset
          /\ options' = options /\ reply' = reply
        <3>1. CASE offset + 1 >= Len(field)
            BY <3>1 DEF ReadOption, Becomes
        <3>2. CASE ~(offset + 1 >= Len(field))
            BY <1>7, <3>2 DEF ReadOption, Becomes, Fits, end
        <3> QED BY <3>1, <3>2
    <2>2. ~GoesOn(offset)
        <3>1. CASE offset + 1 >= Len(field)
            <4>1. ~(offset + 1 < Len(field))
                BY <1>3, <3>1
            <4> QED BY <1>1, <4>1 DEF GoesOn, WholeAt
        <3>2. CASE ~(end <= Len(field))
            BY <1>1, <3>2 DEF GoesOn, WholeAt, end
        <3> QED BY <1>7, <3>1, <3>2
    <2>3. ~Whole
        BY <1>1, <1>2, <2>2, Stuck
    <2>4. OptionsAsWritten'
        BY <2>1, <2>3, SameField DEF OptionsAsWritten
    <2>5. ReadInv'
        BY <2>1, <2>4 DEF ReadInv, FieldOK, Reader
    <2>6. stage # "reply"
        <3> SUFFICES ASSUME stage = "reply" PROVE FALSE
            OBVIOUS
        <3>1. PICK starts \in [1 .. Len(reply.options) + 1 -> Nat],
                   k \in 0 .. Len(reply.options) :
                 LaidOut(reply.options, field, starts) /\ ReadUpTo(k, starts)
            BY <1>6
        <3>2. offset + 1 < Len(field) /\ end <= Len(field)
            BY <1>5, <3>1
        <3>3. ~(offset + 1 >= Len(field))
            BY <1>3, <3>2
        <3> QED BY <1>7, <3>2, <3>3
    <2>7. ReplyInv'
        BY <1>1, <2>1, <2>6 DEF ReplyInv
    <2> QED BY <2>5, <2>7
<1>8. CASE ~(offset + 1 >= Len(field) \/ ~(end <= Len(field)))
    <2> DEFINE option == Option(field[offset + 1], SubSeq(field, offset + 3, end))
    <2>1. /\ options' = Append(options, option) /\ offset' = end
          /\ head' = head /\ field' = field /\ stage' = stage /\ reply' = reply
        BY <1>8 DEF ReadOption, Goto, Fits, end
    <2>2. offset + 1 < Len(field) /\ end <= Len(field)
        BY <1>3, <1>8
    <2>3. end \in Nat /\ offset + 2 <= end
        <3> DEFINE length == field[offset + 2]
        <3>1. length \in Octet /\ end = offset + 2 + length
            BY <1>4, <2>2 DEF end
        <3> HIDE DEF length
        <3> QED BY <1>3, <3>1 DEF Octet
    <2>4. /\ WholeAt(offset) /\ After(offset) = end /\ OptionAt(offset) = option
        BY <1>1, <2>2 DEF WholeAt, After, OptionAt, end
    <2>5. GoesOn(offset) /\ offset \in Written
        BY <1>1, <1>2, <2>4 DEF GoesOn, Written
    <2>6. end \in Begins /\ AllGoOnTo(end)
        BY <1>2, <2>4, <2>5, GoOn
    <2>7. /\ Before(end) = Before(offset) \cup {offset}
          /\ Cardinality(Before(end)) = Cardinality(Before(offset)) + 1
          /\ Rank(Written, offset) = Cardinality(Before(offset)) + 1
          /\ \A at \in Before(offset) :
                Rank(Written, at) \in 1 .. Cardinality(Before(offset))
        BY <1>2, <2>4, <2>5, OneMore
    <2> DEFINE S == [code : Octet, value : Seq(Octet)]
    <2>8. option \in S
        <3>1. field[offset + 1] \in Octet
            <4>1. offset + 1 \in 1 .. Len(field)
                BY <1>1, <1>3
            <4> QED BY <1>3, <4>1, ElementOfSeq
        <3>2. SubSeq(field, offset + 3, end) \in Seq(Octet)
            <4>1. \A i \in offset + 3 .. end : field[i] \in Octet
                <5>1. \A i \in offset + 3 .. end : i \in 1 .. Len(field)
                    BY <1>3, <2>2, <2>3
                <5> QED BY <1>3, <5>1, ElementOfSeq
            <4>2. offset + 3 \in Int /\ end \in Int
                BY <1>3, <2>3
            <4> QED BY <4>1, <4>2, SubSeqProperties
        <3> QED BY <3>1, <3>2 DEF Option
    <2>9. options \in Seq(S) /\ Len(options) \in Nat
        <3>1. options \in Seq(S)
            BY DEF ReadInv
        <3> QED BY <3>1, LenProperties
    <2> HIDE DEF option, S
    <2>10. /\ options' \in Seq(S) /\ Len(options') = Len(options) + 1
           /\ options'[Len(options) + 1] = option
           /\ \A i \in 1 .. Len(options) : options'[i] = options[i]
        BY <2>1, <2>8, <2>9
    <2>11. /\ Len(options') = Cardinality(Before(end))
           /\ \A at \in Before(end) : options'[Rank(Written, at)] = OptionAt(at)
        <3>1. Len(options) = Cardinality(Before(offset))
            BY <1>2 DEF SoFar
        <3>2. ASSUME NEW at \in Before(offset)
              PROVE  options'[Rank(Written, at)] = OptionAt(at)
            <4>1. Rank(Written, at) \in 1 .. Len(options)
                BY <2>7, <3>1
            <4>2. options[Rank(Written, at)] = OptionAt(at)
                BY <1>2 DEF SoFar
            <4> QED BY <2>10, <4>1, <4>2
        <3>3. options'[Rank(Written, offset)] = OptionAt(offset)
            BY <2>4, <2>7, <2>10, <3>1
        <3> QED BY <2>7, <2>10, <3>1, <3>2, <3>3
    <2>12. Reader'
        <3>1. offset' \in Begins' /\ AllGoOnTo(offset)'
            BY <2>1, <2>6, SameField
        <3>2. Len(options)' = Cardinality(Before(offset)')
            BY <2>1, <2>11, SameField
        <3>3. \A at \in Before(offset)' :
                 options'[Rank(Written', at)] = OptionAt(at)'
            BY <2>1, <2>11, SameField
        <3>4. SoFar(offset)'
            BY <3>2, <3>3 DEF SoFar, Rank
        <3> QED BY <3>1, <3>4 DEF Reader
    <2>13. OptionsAsWritten'
        BY <1>1, <2>1 DEF OptionsAsWritten
    <2>14. ReadInv'
        BY <1>1, <2>1, <2>10, <2>12, <2>13 DEF ReadInv, FieldOK, S
    <2>15. ASSUME stage = "reply" PROVE Halfway'
        <3>1. PICK starts \in [1 .. Len(reply.options) + 1 -> Nat],
                   k \in 0 .. Len(reply.options) :
                 LaidOut(reply.options, field, starts) /\ ReadUpTo(k, starts)
            BY <1>6, <2>15
        <3>2. /\ k \in Nat /\ k + 1 \in 0 .. Len(reply.options)
              /\ end = starts[k + 2] /\ option = reply.options[k + 1]
            <4>1. k \in Nat
                OBVIOUS
            <4>2. /\ k + 1 \in 1 .. Len(reply.options)
                  /\ end = starts[k + 2] /\ option = reply.options[k + 1]
                BY <1>5, <2>15, <3>1, <4>1 DEF option
            <4> QED BY <4>1, <4>2
        <3>3. Len(options) = k /\ \A i \in 1 .. k : options[i] = reply.options[i]
            BY <3>1 DEF ReadUpTo
        <3>4. Len(options') = k + 1
            BY <2>10, <3>3
        <3>5. \A i \in 1 .. k + 1 : options'[i] = reply.options[i]
            <4>1. options'[k + 1] = reply.options[k + 1]
                BY <2>10, <3>2, <3>3
            <4>2. \A i \in 1 .. k : options'[i] = reply.options[i]
                BY <2>10, <3>3
            <4>3. \A i \in 1 .. k + 1 : i \in 1 .. k \/ i = k + 1
                BY <3>2
            <4> QED BY <4>1, <4>2, <4>3
        <3>6. offset' = starts[(k + 1) + 1]
            <4>1. (k + 1) + 1 = k + 2
                BY <3>2
            <4> QED BY <2>1, <3>2, <4>1
        <3>7. ReadUpTo(k + 1, starts)'
            BY <2>1, <3>4, <3>5, <3>6 DEF ReadUpTo
        <3>8. LaidOut(reply.options, field, starts)'
            BY <2>1, <3>1 DEF LaidOut
        <3> QED BY <2>1, <3>2, <3>7, <3>8 DEF Halfway
    <2>16. ReplyInv'
        BY <1>1, <2>1, <2>15 DEF ReplyInv
    <2> QED BY <2>14, <2>16
<1> QED BY <1>7, <1>8

\* What is sent can be read from its first option on.
LEMMA SendReplyInv ==
    ASSUME ReadInv, ReplyInv, NEW list \in Seq(Sendable), NEW to, Timed(list),
           SendReply(list, to)
    PROVE  ReadInv' /\ ReplyInv'
<1>1. /\ reply'.options = list /\ field' = Encoded(list)
      /\ offset' = 0 /\ options' = <<>> /\ stage' = "reply" /\ head' = head
    BY DEF SendReply
<1>2. Encoded(list) \in Seq(Octet)
    BY EncodedIsLaidOut
<1>3. PICK starts \in [1 .. Len(list) + 1 -> Nat] :
         LaidOut(list, Encoded(list), starts)
    BY EncodedIsLaidOut
<1>4. FieldOK'
    BY <1>1, <1>2 DEF FieldOK
<1>5. Reader'
    <2>1. (FieldOK /\ offset = 0 /\ options = <<>>
              => offset \in Begins /\ AllGoOnTo(offset) /\ SoFar(offset))'
        BY AtStart, PTL
    <2> QED BY <1>1, <1>4, <2>1 DEF Reader
<1>6. ReadInv'
    <2>1. OptionsAsWritten'
        BY <1>1 DEF OptionsAsWritten
    <2>2. options' \in Seq([code : Octet, value : Seq(Octet)])
        BY <1>1
    <2> QED BY <1>1, <1>4, <1>5, <2>1, <2>2 DEF ReadInv
<1>7. Halfway'
    <2>1. Len(list) \in Nat /\ 0 \in 0 .. Len(list)
        BY LenProperties
    <2>2. offset' = starts[0 + 1] /\ Len(options') = 0
        <3>1. starts[1] = 0
            BY <1>3 DEF LaidOut
        <3> QED BY <1>1, <3>1
    <2>3. ReadUpTo(0, starts)'
        BY <2>2 DEF ReadUpTo
    <2>4. LaidOut(reply.options, field, starts)'
        BY <1>1, <1>3 DEF LaidOut
    <2> QED BY <1>1, <1>3, <2>1, <2>3, <2>4 DEF Halfway
<1>8. ReplyInv'
    BY <1>1, <1>7 DEF ReplyInv
<1> QED BY <1>6, <1>8

\* A packet that is not answered leaves everything as it is.
LEMMA SilentInv ==
    ASSUME ReadInv, ReplyInv, stage = "typed", Silent
    PROVE  ReadInv' /\ ReplyInv'
<1>1. /\ stage' = "silent" /\ head' = head /\ field' = field
      /\ offset' = offset /\ options' = options /\ reply' = reply
    BY DEF Silent, Becomes
<1>2. ReadInv'
    BY <1>1 DEF ReadInv, FieldOK, Reader, OptionsAsWritten
<1>3. ReplyInv'
    BY <1>1 DEF ReplyInv
<1> QED BY <1>2, <1>3

\* A handler that replies sends what can be read, or raises.
LEMMA RepliesInv ==
    ASSUME ReadInv, ReplyInv, stage = "typed", NEW type \in Octet,
           NEW withLease \in BOOLEAN, Reply(type, withLease)
    PROVE  ReadInv' /\ ReplyInv'
<1>1. PICK settings \in Settings :
         IF withLease => Packable(settings.leaseTime)
         THEN SendReply(ReplyOptions(settings, type, withLease),
                        Destination(withLease))
         ELSE Silent
    BY DEF Reply
<1>2. CASE withLease => Packable(settings.leaseTime)
    <2> DEFINE list == ReplyOptions(settings, type, withLease)
    <2>1. list \in Seq(Sendable) /\ Timed(list)
        BY <1>2, ReplyIsFine
    <2>2. SendReply(list, Destination(withLease))
        BY <1>1, <1>2
    <2> HIDE DEF list
    <2> QED BY <2>1, <2>2, SendReplyInv
<1>3. CASE ~(withLease => Packable(settings.leaseTime))
    BY <1>1, <1>3, SilentInv
<1> QED BY <1>2, <1>3

\* The four handlers reply or are silent.
LEMMA HandlersInv ==
    ASSUME ReadInv, ReplyInv,
           HandleDiscover \/ HandleRequest \/ HandleInform \/ HandleOther
    PROVE  ReadInv' /\ ReplyInv'
<1>1. /\ stage = "typed"
      /\ \/ Silent
         \/ \E type \in {OFFER, ACK, NAK}, withLease \in BOOLEAN :
               Reply(type, withLease)
    BY Zenon DEF HandleDiscover, HandleRequest, HandleInform, HandleOther
<1>2. {OFFER, ACK, NAK} \subseteq Octet
    BY DEF OFFER, ACK, NAK, Octet
<1> QED BY <1>1, <1>2, SilentInv, RepliesInv

\* Every step keeps both invariants.
LEMMA WireStepInv ==
    ReadInv /\ ReplyInv /\ [WireNext]_wireVars => ReadInv' /\ ReplyInv'
<1> SUFFICES ASSUME ReadInv, ReplyInv, [WireNext]_wireVars
             PROVE  ReadInv' /\ ReplyInv'
    OBVIOUS
<1>1. CASE UNCHANGED wireVars
    <2>1. /\ stage' = stage /\ head' = head /\ field' = field
          /\ offset' = offset /\ options' = options /\ reply' = reply
        BY <1>1 DEF wireVars
    <2>2. Reader' /\ OptionsAsWritten'
        <3>1. Reader'
            <4>1. offset \in Begins /\ AllGoOnTo(offset) =>
                     offset' \in Begins' /\ AllGoOnTo(offset)'
                BY <2>1, SameField
            <4>2. SoFar(offset) => SoFar(offset)'
                BY <2>1, SameField DEF SoFar, Rank
            <4> QED BY <2>1, <4>1, <4>2 DEF ReadInv, Reader
        <3>2. OptionsAsWritten'
            BY <2>1, SameField DEF ReadInv, OptionsAsWritten, Rank
        <3> QED BY <3>1, <3>2
    <2>3. ReadInv'
        BY <2>1, <2>2 DEF ReadInv, FieldOK
    <2>4. ReplyInv'
        BY <2>1 DEF ReplyInv, Halfway, LaidOut, ReadUpTo
    <2> QED BY <2>3, <2>4
<1> QED BY <1>1, ReadPacketInv, ReadPadInv, ReadEndInv, ReadOptionInv, HandlersInv
        DEF WireNext

\* Under a code that the list says, get_option finds its value.
LEMMA ValueIs ==
    ASSUME NEW list \in Seq(Sendable), options = list, NEW code, NEW v,
           Says(list, code, v)
    PROVE  Value(code) = v
<1>1. DOMAIN options = 1 .. Len(list) /\ Len(list) \in Nat
    BY LenProperties
<1>2. With(code) \in SUBSET Nat /\ With(code) # {}
    BY <1>1 DEF With, Says
<1>3. \E i \in With(code) : \A j \in With(code) : i <= j
    BY <1>2, Least
<1> DEFINE i == CHOOSE i \in With(code) : \A j \in With(code) : i <= j
<1>4. i \in With(code)
    BY <1>3
<1>5. Value(code) = options[i].value
    BY DEF Value
<1> HIDE DEF i
<1>6. i \in 1 .. Len(list) /\ list[i].code = code
    BY <1>1, <1>4 DEF With
<1> QED BY <1>5, <1>6 DEF Says

\* The invariant says what the run checks of replies.
LEMMA RepliesAreRead == ReadInv /\ ReplyInv => ReplyReadsBack
<1> SUFFICES ASSUME ReadInv, ReplyInv PROVE ReplyReadsBack
    OBVIOUS
<1>1. stage = "refused" => reply = NoReply
    BY DEF ReplyInv
<1>2. ASSUME stage = "received", Has(LEASE_TIME)
      PROVE  LET time(code) == Number(Value(code))
             IN  /\ 1 <= time(RENEWAL_TIME)
                 /\ time(RENEWAL_TIME) <= time(REBINDING_TIME)
                 /\ time(REBINDING_TIME) <= time(LEASE_TIME)
    <2> DEFINE list == reply.options
    <2>1. list \in Seq(Sendable) /\ Timed(list) /\ options = list
        BY <1>2 DEF ReplyInv
    <2> HIDE DEF list
    <2>2. \E i \in 1 .. Len(list) : list[i].code = LEASE_TIME
        <3>1. DOMAIN options = 1 .. Len(list)
            BY <2>1, LenProperties
        <3> QED BY <1>2, <2>1, <3>1 DEF Has, With
    <2>3. PICK n \in Nat \ {0} :
             /\ Packable(n)
             /\ Says(list, LEASE_TIME, FourOctets(n))
             /\ Says(list, RENEWAL_TIME, FourOctets(RenewalTime(n)))
             /\ Says(list, REBINDING_TIME, FourOctets(RebindingTime(n)))
        BY <2>1, <2>2 DEF Timed
    <2> DEFINE r == RenewalTime(n)
               b == RebindingTime(n)
    <2>4. /\ r \in Nat /\ b \in Nat /\ 1 <= r /\ r <= b /\ b <= n
        BY TimersInOrder
    <2> HIDE DEF r, b
    <2>5. Packable(r) /\ Packable(b)
        <3>1. r <= n
            BY <2>4
        <3> QED BY <2>3, <2>4, <3>1, ShorterPackable
    <2>6. /\ Value(LEASE_TIME) = FourOctets(n)
          /\ Value(RENEWAL_TIME) = FourOctets(r)
          /\ Value(REBINDING_TIME) = FourOctets(b)
        BY <2>1, <2>3, ValueIs DEF r, b
    <2>7. /\ Number(FourOctets(n)) = n
          /\ Number(FourOctets(r)) = r
          /\ Number(FourOctets(b)) = b
        BY <2>3, <2>4, <2>5, FourOctetsReadBack
    <2> QED BY <2>4, <2>6, <2>7
<1>3. stage = "received" => options = reply.options
    BY DEF ReplyInv
<1> QED BY <1>1, <1>2, <1>3 DEF ReplyReadsBack

\* DHCPWire: the options read are those that the field is made of, for every
\* packet and every configuration; a field that ends within an option, and
\* only that, is refused.
THEOREM OptionsReadAsWritten == WireSpec => []OptionsAsWritten
<1>1. ReadInv => OptionsAsWritten
    BY DEF ReadInv
<1> QED BY <1>1, WireInitInv, WireStepInv, PTL DEF WireSpec

\* DHCPWire: the client reads every option of every reply, never refuses one,
\* and its times are in order, for every lease time of the configuration.
THEOREM RepliesReadBack == WireSpec => []ReplyReadsBack
BY WireInitInv, WireStepInv, RepliesAreRead, PTL DEF WireSpec
=============================================================================
