---------------------------- MODULE MCDNSParser ----------------------------
(* The parser on all packets of a few octets, and what a name is, read     *)
(* without a loop.                                                         *)
EXTENDS DNSParser

CONSTANTS
    Octets,       \* octets of the question
    MaxQuestion   \* their number, before the type and the class

MCHeader(flags, questions) ==
    <<0, 7>> \o flags \o <<0, questions>> \o <<0, 0, 0, 0, 0, 0>>

Query == MCHeader(<<1, 0>>, 1)

\* A response, another opcode, a reserved bit, two questions.
OtherHeaders ==
    {MCHeader(<<128, 0>>, 1), MCHeader(<<8, 0>>, 1), MCHeader(<<0, 16>>, 1),
     MCHeader(<<1, 0>>, 2)}

InternetAddress == <<0, 1, 0, 1>>

MCPackets ==
    LET questions == UNION {[1 .. n -> Octets] : n \in 0 .. MaxQuestion}
    IN  {Query \o q : q \in questions}
        \cup {Query \o q \o InternetAddress : q \in questions}
        \cup {h \o <<0>> \o InternetAddress : h \in OtherHeaders}
        \cup {SubSeq(Query, 1, 11)}

\* Text of characters that have one octet or two.
MCDecodable(label) ==
    LET Begins(i) == i \in DOMAIN label /\ label[i] \in 194 .. 223
        Follows(i) == i \in DOMAIN label /\ label[i] \in 128 .. 191
    IN  \A i \in DOMAIN label :
            \/ label[i] < 128
            \/ Begins(i) /\ Follows(i + 1)
            \/ Follows(i) /\ Begins(i - 1)

Ascii(label) == \A i \in DOMAIN label : label[i] < 128

NoName == [labels |-> <<>>, encoded |-> 0, jumps |-> 0, next |-> -1]

\* The name at an offset, if the names with one step less are known: a label
\* and the name behind it, a pointer and the name it leads to, or the end.
OneStepMore(shorter, at) ==
    LET octet == Octet(at)
        behind == shorter[at + 1 + octet]
        ahead == shorter[Word(at) % 16384]
    IN  CASE Available(at, 1) /\ octet = 0 ->
               [labels |-> <<>>, encoded |-> 0, jumps |-> 0, next |-> at + 1]
          [] Available(at, 1) /\ octet \in 1 .. 63 /\ Available(at + 1, octet)
                 /\ behind.next >= 0 ->
               [labels |-> <<SubSeq(packet, at + 2, at + 1 + octet)>>
                               \o behind.labels,
                encoded |-> behind.encoded + 1 + octet,
                jumps |-> behind.jumps, next |-> behind.next]
          [] Available(at, 1) /\ octet >= 192 /\ Available(at, 2)
                 /\ ahead.next >= 0 ->
               [labels |-> ahead.labels, encoded |-> ahead.encoded,
                jumps |-> ahead.jumps + 1, next |-> at + 2]
          [] OTHER -> NoName

\* The names at all offsets, of so many steps at most.
Names[steps \in Nat] ==
    [at \in Nat |-> IF steps = 0 THEN NoName
                    ELSE OneStepMore(Names[steps - 1], at)]

\* The name of the question.  With more steps it is beyond one of the limits.
NameAt == Names[MAX_DOMAIN_LENGTH + MAX_POINTER_JUMPS + 1][DNS_HEADER_SIZE]

\* A question that is to be accepted, and its name.
Acceptable(name) ==
    /\ name.next >= 0
    /\ \A i \in DOMAIN name.labels : Decodable(name.labels[i])
    /\ name.encoded + 1 <= MAX_DOMAIN_LENGTH
    /\ name.jumps <= MAX_POINTER_JUMPS
    /\ name.next + 4 <= Len(packet)
    /\ Word(name.next + 2) = IN_CLASS

\* parser.py, _read_domain, "Supports normal DNS labels and DNS compression
\* pointers": the parser accepts the questions whose name, followed through
\* its pointers, comes to an end within the limits, and no others; it reads the
\* labels of that name, and the type behind its encoding at the place of the
\* question, not behind the labels a pointer led to.  In ASCII the domain has a
\* character for each octet of the encoding but the first and the last.
ParsesTheQuestion ==
    parse \in {"accepted", "refused"} =>
        LET name == NameAt
            accepts == HeaderValid /\ Acceptable(name)
        IN  /\ (parse = "accepted") = accepts
            /\ accepts => /\ cursor.labels = name.labels
                          /\ QueryType = Word(name.next)
                          /\ (\A i \in DOMAIN name.labels :
                                 Ascii(name.labels[i])) =>
                                Len(Domain) = IF name.labels = <<>> THEN 1
                                              ELSE name.encoded - 1
=============================================================================
