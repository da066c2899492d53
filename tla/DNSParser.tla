----------------------------- MODULE DNSParser -----------------------------
(* dns_engine/parser.py: the header, the name and the rest of the question *)
(* of one query.  A packet is a sequence of octets, an offset counts from  *)
(* zero, and one step of the model is one turn of the loop of _read_domain.*)
EXTENDS SequencesExt

CONSTANTS
    Packets,            \* the packets that arrive
    Decodable(_),       \* octets that are text in UTF-8
    MAX_DOMAIN_LENGTH,
    MAX_POINTER_JUMPS

ASSUME ParserAssumption ==
    /\ \A p \in Packets : p \in Seq(0 .. 255)
    /\ MAX_DOMAIN_LENGTH \in Nat /\ MAX_POINTER_JUMPS \in Nat

DNS_HEADER_SIZE == 12

IN_CLASS == 1

VARIABLES
    packet,
    cursor,  \* the local variables of _read_domain
    parse    \* "header", "name", "question", "accepted" or "refused"

parserVars == <<packet, cursor, parse>>

Octet(offset) == packet[offset + 1]

\* _require_length
Available(offset, size) == offset + size <= Len(packet)

Word(offset) == 256 * Octet(offset) + Octet(offset + 1)

ParserInit ==
    /\ packet \in Packets
    /\ cursor = [labels |-> <<>>, original |-> DNS_HEADER_SIZE,
                 current |-> DNS_HEADER_SIZE, jumped |-> FALSE, jumps |-> 0,
                 visited |-> {}, encoded |-> 0]
    /\ parse = "header"

Refuse == parse' = "refused" /\ UNCHANGED <<packet, cursor>>

-----------------------------------------------------------------------------
(* _read_header and _validate_header.                                      *)

\* A query (QR), of the standard kind (opcode), no reserved bit set (Z), and
\* one question.
HeaderValid ==
    /\ Available(0, DNS_HEADER_SIZE)
    /\ Word(2) \div 32768 = 0
    /\ (Word(2) \div 2048) % 16 = 0
    /\ (Word(2) \div 16) % 8 = 0
    /\ Word(4) = 1

ReadHeader ==
    /\ parse = "header"
    /\ IF HeaderValid
       THEN parse' = "name" /\ UNCHANGED <<packet, cursor>>
       ELSE Refuse

-----------------------------------------------------------------------------
(* _read_domain.                                                           *)

\* The kind of the octet at the current offset.
Here(kind) ==
    /\ parse = "name"
    /\ Available(cursor.current, 1)
    /\ LET length == Octet(cursor.current)
       IN  CASE kind = "end" -> length = 0
             [] kind = "label" -> length \in 1 .. 63
             [] kind = "reserved" -> length \in 64 .. 191
             [] kind = "pointer" -> length >= 192

PastTheEnd ==
    /\ parse = "name" /\ ~Available(cursor.current, 1)
    /\ Refuse

NameEnds ==
    /\ Here("end")
    /\ IF cursor.encoded + 1 > MAX_DOMAIN_LENGTH
       THEN Refuse
       ELSE /\ cursor' = [cursor EXCEPT !.original =
                             IF cursor.jumped THEN @ ELSE cursor.current + 1]
            /\ parse' = "question"
            /\ UNCHANGED packet

ReadLabel ==
    /\ Here("label")
    /\ LET length == Octet(cursor.current)
           first == cursor.current + 1
           label == SubSeq(packet, first + 1, first + length)
       IN  IF /\ cursor.encoded + 1 + length <= MAX_DOMAIN_LENGTH
              /\ Available(first, length)
              /\ Decodable(label)
           THEN /\ cursor' = [cursor EXCEPT !.labels = Append(@, label),
                                            !.encoded = @ + 1 + length,
                                            !.current = first + length]
                /\ UNCHANGED <<packet, parse>>
           ELSE Refuse

\* Faulty variant: behind the last pointer instead of the first.
AfterEveryPointer == cursor.current + 2

\* Where to go on after the name, if it is not known yet.
AfterPointer ==
    IF cursor.jumped THEN cursor.original ELSE cursor.current + 2

FollowPointer ==
    /\ Here("pointer")
    /\ IF ~Available(cursor.current, 2)
       THEN Refuse
       ELSE LET pointer == Word(cursor.current) - 192 * 256
            IN  IF \/ pointer >= Len(packet)
                   \/ cursor.jumps + 1 > MAX_POINTER_JUMPS
                   \/ pointer \in cursor.visited
                THEN Refuse
                ELSE /\ cursor' = [cursor EXCEPT
                                      !.original = AfterPointer,
                                      !.jumps = @ + 1,
                                      !.visited = @ \cup {pointer},
                                      !.current = pointer,
                                      !.jumped = TRUE]
                     /\ UNCHANGED <<packet, parse>>

ReservedLabel == Here("reserved") /\ Refuse

-----------------------------------------------------------------------------
(* parse, after the name.                                                  *)

ReadQuestion ==
    /\ parse = "question"
    /\ IF /\ Available(cursor.original, 4)
          /\ Word(cursor.original + 2) = IN_CLASS
       THEN parse' = "accepted" /\ UNCHANGED <<packet, cursor>>
       ELSE Refuse

QueryType == Word(cursor.original)

LowerCase(octet) == IF octet \in 65 .. 90 THEN octet + 32 ELSE octet

\* The labels joined by dots, in lower case; the root is a dot.  This is so for
\* labels in ASCII: of other letters, lower() knows more.
Domain ==
    LET dotted == FlattenSeq([i \in DOMAIN cursor.labels |->
                                 <<46>> \o cursor.labels[i]])
    IN  IF dotted = <<>> THEN <<46>>
        ELSE [i \in 1 .. Len(dotted) - 1 |-> LowerCase(dotted[i + 1])]

ParserNext ==
    \/ ReadHeader
    \/ PastTheEnd \/ NameEnds \/ ReadLabel \/ FollowPointer \/ ReservedLabel
    \/ ReadQuestion

ParserSpec == ParserInit /\ [][ParserNext]_parserVars
=============================================================================
