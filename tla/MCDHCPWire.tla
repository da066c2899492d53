----------------------------- MODULE MCDHCPWire -----------------------------
(* Options fields put together from whole options, from options that are   *)
(* not whole, and from nothing in particular; and what such a field says.  *)
EXTENDS DHCPWire, Subsequences

CONSTANTS
    Octets,    \* octets of the fields that are put together of anything
    MaxField   \* their length

MCServerIp == <<192, 168, 1, 1>>

MCPieces ==
    {<<PAD>>, <<END>>,
     <<MESSAGE_TYPE, 1, DISCOVER>>, <<MESSAGE_TYPE, 1, REQUEST>>,
     <<MESSAGE_TYPE, 1, INFORM>>, <<MESSAGE_TYPE, 1, NAK>>,
     <<MESSAGE_TYPE, 2, DISCOVER, DISCOVER>>,
     <<REQUESTED_IP, 4, 192, 168, 1, 9>>, <<REQUESTED_IP, 1, 9>>,
     <<SERVER_IDENTIFIER, 4>> \o MCServerIp,
     <<SERVER_IDENTIFIER, 4, 10, 0, 0, 1>>, <<SERVER_IDENTIFIER, 0>>,
     <<SERVER_IDENTIFIER>>, <<SUBNET_MASK, 9>>}

Sequences(S, n) == UNION {[1 .. k -> S] : k \in 0 .. n}

MCFields == Sequences(Octets, MaxField)
            \cup {FlattenSeq(pieces) : pieces \in Sequences(MCPieces, 3)}

Heads == [complete : BOOLEAN, cookie : BOOLEAN, broadcast : BOOLEAN]

WholeHead == [complete |-> TRUE, cookie |-> TRUE, broadcast |-> FALSE]

MCArrivals ==
    [head : {WholeHead}, field : MCFields]
    \cup [head : Heads, field : MCPieces]

\* Where the option at an offset ends, if one begins there and is whole.
WholeAt(at) ==
    /\ at + 1 < Len(field)
    /\ field[at + 1] \notin {PAD, END}
    /\ at + 2 + field[at + 2] <= Len(field)

GoesOn(at) == at < Len(field) /\ (field[at + 1] = PAD \/ WholeAt(at))

After(at) == IF field[at + 1] = PAD THEN at + 1 ELSE at + 2 + field[at + 2]

\* The offsets at which an option begins: each is where the one before ends.
Begins ==
    LET upTo[at \in 0 .. Len(field)] ==
            IF at = 0 THEN {0}
            ELSE LET before == upTo[at - 1]
                 IN  IF \E b \in before : GoesOn(b) /\ After(b) = at
                     THEN before \cup {at} ELSE before
    IN  upTo[Len(field)]

Whole == \E at \in Begins : at < Len(field) => field[at + 1] = END

Written == {at \in Begins : WholeAt(at)}

OptionAt(at) == Option(field[at + 1], SubSeq(field, at + 3, After(at)))

\* options.py, parse_options, "PAD options are ignored.  END terminates option
\* parsing": the options read are those that the field is made of up to its end
\* or to END; a field that ends within an option is refused, as a whole.
OptionsAsWritten ==
    /\ stage = "typed" =>
          /\ Whole
          /\ Len(options) = Cardinality(Written)
          /\ \A at \in Written : options[Rank(Written, at)] = OptionAt(at)
    /\ stage = "refused" => ~Whole \/ ~head.complete \/ ~head.cookie
=============================================================================
