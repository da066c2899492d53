--------------------------- MODULE MCServerParts ---------------------------
(* The parts that the servers are built from and that depend on nothing    *)
(* but the calls they get, each by itself: the lease manager with its      *)
(* pool, the static reservations, the reading and writing of packets, and  *)
(* the threads that serve.  A behaviour is one of one of them; the others  *)
(* stay as they are.                                                       *)
(* The pool has three addresses, one more is outside it, and four clients  *)
(* share it, so that it runs out and addresses change hands; of the four   *)
(* clients with reservations callers spell the first in two ways.          *)
EXTENDS DHCPLeaseManager, DHCPReservations, MCDHCPWire, ServerLife

CONSTANTS mac1, MAC1, mac2, mac3, mac4

VARIABLE part

MCAddresses == 10..13

MCClientIds == {mac1, MAC1, mac2, mac3, mac4}

MCKeys == {mac1, mac2, mac3, mac4}

MCCanonicalId ==
    [c \in MCClientIds |-> IF c = MAC1 THEN mac1 ELSE c]

PartsInit ==
    /\ part \in {"leases", "reservations", "wire", "life"}
    /\ LMInit /\ ReservationInit /\ WireInit /\ LifeInit
    /\ part # "wire" => field = <<>> /\ head = WholeHead

PartsNext ==
    /\ UNCHANGED part
    /\ \/ part = "leases" /\ LMNext
          /\ UNCHANGED <<reservations, wireVars, lifeVars>>
       \/ part = "reservations" /\ ReservationNext
          /\ UNCHANGED <<lmVars, wireVars, lifeVars>>
       \/ part = "wire" /\ WireNext
          /\ UNCHANGED <<lmVars, reservations, lifeVars>>
       \/ part = "life" /\ LifeNext
          /\ UNCHANGED <<lmVars, reservations, wireVars>>

partsVars == <<part, lmVars, reservations, wireVars, lifeVars>>

PartsSpec ==
    /\ PartsInit /\ [][PartsNext]_partsVars
    /\ part = "life" => LifeFairness
=============================================================================
