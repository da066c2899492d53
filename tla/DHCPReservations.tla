-------------------------- MODULE DHCPReservations --------------------------
(***************************************************************************)
(* dhcp/reservation.py: the static reservations of a DHCPServer.           *)
(*                                                                         *)
(* A DHCPReservationManager keeps one reservation object under two         *)
(* dictionaries, _by_client and _by_ip.  Every method first rewrites the   *)
(* client identifier to a canonical form (a MAC address loses its          *)
(* separators and its upper case), so several identifiers may name one     *)
(* reservation: CanonicalId is that rewriting.  Each method holds the      *)
(* manager's lock throughout, and is one action.                           *)
(***************************************************************************)
EXTENDS Integers

CONSTANTS
    ClientIds,     \* identifiers as callers spell them
    Keys,          \* their canonical forms
    CanonicalId,   \* normalize_client_id, a function from the one to the other
    Ips,           \* addresses that may be reserved
    NoReservation  \* the None of the dictionaries

ASSUME ReservationAssumption ==
    /\ CanonicalId \in [ClientIds -> Keys]
    /\ NoReservation \notin [client : Keys, ip : Ips]

VARIABLE
    reservations   \* both dictionaries

Reservation == [client : Keys, ip : Ips]

ReservationState ==
    [byClient : [Keys -> Reservation \cup {NoReservation}],
     byIp : [Ips -> Reservation \cup {NoReservation}]]

\* get_by_client
ReservationOf(r, c) == r.byClient[CanonicalId[c]]

\* Faulty variant: the address is not looked up.
CanAddTwice(r, c, a) == ReservationOf(r, c) = NoReservation

\* add raises when the client or the address already has a reservation.
CanAdd(r, c, a) ==
    /\ ReservationOf(r, c) = NoReservation
    /\ r.byIp[a] = NoReservation

\* update raises when the client has none or the address is another client's.
CanUpdate(r, c, a) ==
    /\ ReservationOf(r, c) # NoReservation
    /\ r.byIp[a] # NoReservation => r.byIp[a].client = CanonicalId[c]

\* The entry of both dictionaries that add and update write.
Entered(r, c, a) ==
    LET v == [client |-> CanonicalId[c], ip |-> a]
    IN  [byClient |-> [r.byClient EXCEPT ![CanonicalId[c]] = v],
         byIp     |-> [r.byIp EXCEPT ![a] = v]]

\* Faulty variant: the old address stays behind.
OldAddressKept(r, v) == r

\* update pops the address entry of the old reservation before it enters the
\* new one.
OldAddressDropped(r, v) ==
    [r EXCEPT !.byIp = [a \in Ips |->
                           IF a = v.ip THEN NoReservation ELSE r.byIp[a]]]

\* Both entries of the reservation v are popped, if there is one.
Dropped(r, v) ==
    IF v = NoReservation
    THEN r
    ELSE [byClient |-> [r.byClient EXCEPT ![v.client] = NoReservation],
          byIp     |-> [r.byIp EXCEPT ![v.ip] = NoReservation]]

NoReservations ==
    [byClient |-> [k \in Keys |-> NoReservation],
     byIp     |-> [a \in Ips |-> NoReservation]]

-----------------------------------------------------------------------------

Add(c, a) ==
    /\ CanAdd(reservations, c, a)
    /\ reservations' = Entered(reservations, c, a)

Update(c, a) ==
    /\ CanUpdate(reservations, c, a)
    /\ LET r == OldAddressDropped(reservations,
                                  ReservationOf(reservations, c))
       IN  reservations' = Entered(r, c, a)

RemoveByClient(c) ==
    reservations' = Dropped(reservations, ReservationOf(reservations, c))

RemoveByIp(a) ==
    reservations' = Dropped(reservations, reservations.byIp[a])

ClearReservations == reservations' = NoReservations

ReservationInit == reservations = NoReservations

ReservationNext ==
    \/ \E c \in ClientIds, a \in Ips : Add(c, a) \/ Update(c, a)
    \/ \E c \in ClientIds : RemoveByClient(c)
    \/ \E a \in Ips : RemoveByIp(a)
    \/ ClearReservations

ReservationSpec == ReservationInit /\ [][ReservationNext]_reservations

-----------------------------------------------------------------------------
(* Properties.                                                             *)

\* The shape of the two dictionaries.
ReservationTypeOK == reservations \in ReservationState

\* The two dictionaries of the reservation manager are each other's inverse
\* after any sequence of additions, moves and removals: a client has one
\* address, an address one client, and no entry outlives its reservation.
DictionariesAgree ==
    /\ \A k \in Keys : reservations.byClient[k] # NoReservation =>
          /\ reservations.byClient[k].client = k
          /\ reservations.byIp[reservations.byClient[k].ip]
                = reservations.byClient[k]
    /\ \A a \in Ips : reservations.byIp[a] # NoReservation =>
          /\ reservations.byIp[a].ip = a
          /\ reservations.byClient[reservations.byIp[a].client]
                = reservations.byIp[a]

=============================================================================
