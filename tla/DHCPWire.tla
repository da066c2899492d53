------------------------------ MODULE DHCPWire ------------------------------
(* What the DHCP server reads and writes: the options of a packet          *)
(* (dhcp/options.py), what the packet is taken for, and the reply with its *)
(* timers (handle_packet, _build_response and _send_response of            *)
(* dhcp/server.py, dhcp/packet.py).  Which address a client gets is the    *)
(* business of DHCPServer; here it gets one or none.  One step of a reader *)
(* is one turn of the loop of parse_options.  The client reads the reply   *)
(* by the same rules.                                                      *)
EXTENDS SequencesExt

CONSTANTS
    Arrivals,    \* packets that arrive: what their head says, and their options
    LeaseTimes,  \* lease_time of the configuration
    ServerIp     \* server_ip, in octets

Octet == 0 .. 255

ASSUME WireAssumption ==
    /\ \A arrival \in Arrivals : arrival.field \in Seq(Octet)
    /\ LeaseTimes \subseteq Nat \ {0}
    /\ ServerIp \in [1 .. 4 -> Octet]

\* DHCPOptionCode, DHCPMessageType
SUBNET_MASK == 1
ROUTER == 3
DNS_SERVER == 6
REQUESTED_IP == 50
LEASE_TIME == 51
MESSAGE_TYPE == 53
SERVER_IDENTIFIER == 54
RENEWAL_TIME == 58
REBINDING_TIME == 59
PAD == 0
END == 255

DISCOVER == 1
OFFER == 2
REQUEST == 3
ACK == 5
NAK == 6
INFORM == 8

VARIABLES
    head,      \* of the packet: its size and cookie, the broadcast flag
    field,     \* the options field that is being read
    offset,
    options,   \* the options read so far
    stage,     \* "packet", "options", "typed", "refused", "silent", "reply"
               \* or "received"
    reply      \* what the server sends: options, and where to

wireVars == <<head, field, offset, options, stage, reply>>

\* The configuration: lease_time, and whether gateway and dns_server are set.
Settings == [leaseTime : LeaseTimes, gateway : BOOLEAN, dns : BOOLEAN]

Option(code, value) == [code |-> code, value |-> value]

NoReply == [options |-> <<>>, to |-> "nobody"]

WireInit ==
    /\ \E arrival \in Arrivals :
          head = arrival.head /\ field = arrival.field
    /\ offset = 0 /\ options = <<>>
    /\ stage = "packet"
    /\ reply = NoReply

-----------------------------------------------------------------------------
(* DHCPPacket.from_bytes and parse_options.                                *)

Becomes(s) == stage' = s /\ UNCHANGED <<head, field, offset, options, reply>>

ReadPacket ==
    /\ stage = "packet"
    /\ Becomes(IF head.complete /\ head.cookie THEN "options" ELSE "refused")

Reading == stage \in {"options", "reply"} /\ offset < Len(field)

Goto(next) ==
    /\ offset' = next
    /\ UNCHANGED <<head, field, stage, reply>>

ReadPad ==
    /\ Reading /\ field[offset + 1] = PAD
    /\ Goto(offset + 1)
    /\ UNCHANGED options

\* The end of the field, or an END option, ends the options.
ReadEnd ==
    /\ stage \in {"options", "reply"}
    /\ offset < Len(field) => field[offset + 1] = END
    /\ Becomes(IF stage = "options" THEN "typed" ELSE "received")

\* Faulty variant: a value may not reach to the end.
FitsInside(end) == end < Len(field)

\* A value may reach to the end of the field.
Fits(end) == end <= Len(field)

ReadOption ==
    /\ Reading /\ field[offset + 1] \notin {PAD, END}
    /\ IF offset + 1 >= Len(field)
       THEN Becomes("refused")
       ELSE LET end == offset + 2 + field[offset + 2]
            IN  IF ~Fits(end)
                THEN Becomes("refused")
                ELSE /\ options' = Append(options,
                                          Option(field[offset + 1],
                                                 SubSeq(field, offset + 3, end)))
                     /\ Goto(end)

-----------------------------------------------------------------------------
(* What the packet is taken for.  get_option takes the first of a code.    *)

With(code) == {i \in DOMAIN options : options[i].code = code}

Has(code) == With(code) # {}

Value(code) ==
    options[CHOOSE i \in With(code) : \A j \in With(code) : i <= j].value

\* An address option that is there has four octets, or the handler raises.
AddressRight(code) == Has(code) => Len(Value(code)) = 4

MessageIs(types) ==
    /\ Has(MESSAGE_TYPE)
    /\ Len(Value(MESSAGE_TYPE)) = 1
    /\ Value(MESSAGE_TYPE)[1] \in types

-----------------------------------------------------------------------------
(* The reply.                                                              *)

Larger(m, n) == IF m > n THEN m ELSE n

\* Faulty variant: half of one second is no time.
HalfTheTime(leaseTime) == leaseTime \div 2

RenewalTime(leaseTime) == Larger(1, leaseTime \div 2)

RebindingTime(leaseTime) == Larger(1, (7 * leaseTime) \div 8)

\* struct.pack("!I", ...)
FourOctets(n) ==
    <<n \div 16777216, (n \div 65536) % 256, (n \div 256) % 256, n % 256>>

\* For more than four octets it raises.
Packable(n) == n \div 16777216 \in Octet

SomeAddress == <<192, 168, 1, 0>>

If(condition, list) == IF condition THEN list ELSE <<>>

ReplyOptions(settings, type, withLease) ==
    LET timer(code, n) == Option(code, FourOctets(n))
    IN  <<Option(MESSAGE_TYPE, <<type>>),
          Option(SERVER_IDENTIFIER, ServerIp),
          Option(SUBNET_MASK, SomeAddress)>>
        \o If(settings.gateway, <<Option(ROUTER, SomeAddress)>>)
        \o If(settings.dns, <<Option(DNS_SERVER, SomeAddress)>>)
        \o If(withLease,
              <<timer(LEASE_TIME, settings.leaseTime),
                timer(RENEWAL_TIME, RenewalTime(settings.leaseTime)),
                timer(REBINDING_TIME, RebindingTime(settings.leaseTime))>>)

ToBytes(option) == <<option.code, Len(option.value)>> \o option.value

\* encode_options
Encoded(list) ==
    FlattenSeq([i \in DOMAIN list |-> ToBytes(list[i])]) \o <<END>>

\* yiaddr is the leased address, or 0.0.0.0 without a lease.
Destination(withLease) ==
    IF head.broadcast THEN "everybody"
    ELSE IF withLease THEN "the leased address" ELSE "the sender"

\* Also when a handler raises: the loop of the server reports it and goes on.
Silent == Becomes("silent")

SendReply(list, to) ==
    /\ reply' = [options |-> list, to |-> to]
    /\ field' = Encoded(list)
    /\ offset' = 0 /\ options' = <<>>
    /\ stage' = "reply"
    /\ UNCHANGED head

Reply(type, withLease) ==
    \E settings \in Settings :
        IF withLease => Packable(settings.leaseTime)
        THEN SendReply(ReplyOptions(settings, type, withLease),
                       Destination(withLease))
        ELSE Silent

HandleDiscover ==
    /\ stage = "typed" /\ MessageIs({DISCOVER})
    /\ IF AddressRight(REQUESTED_IP)
       THEN Reply(OFFER, TRUE) \/ Silent
       ELSE Silent

\* A request that names a server is for that server.
HandleRequest ==
    /\ stage = "typed" /\ MessageIs({REQUEST})
    /\ IF /\ AddressRight(REQUESTED_IP) /\ AddressRight(SERVER_IDENTIFIER)
          /\ Has(SERVER_IDENTIFIER) => Value(SERVER_IDENTIFIER) = ServerIp
       THEN Reply(ACK, TRUE) \/ Reply(NAK, FALSE)
       ELSE Silent

HandleInform ==
    /\ stage = "typed" /\ MessageIs({INFORM})
    /\ Reply(ACK, FALSE)

\* DECLINE and RELEASE are not answered; other packets are ignored.
HandleOther ==
    /\ stage = "typed" /\ ~MessageIs({DISCOVER, REQUEST, INFORM})
    /\ Silent

WireNext ==
    \/ ReadPacket
    \/ ReadPad \/ ReadEnd \/ ReadOption
    \/ HandleDiscover \/ HandleRequest \/ HandleInform \/ HandleOther

WireSpec == WireInit /\ [][WireNext]_wireVars

-----------------------------------------------------------------------------
Number(octets) ==
    16777216 * octets[1] + 65536 * octets[2] + 256 * octets[3] + octets[4]

\* server.py, _build_response, and options.py: a reply is never malformed; the
\* client reads the options that the server wrote, all of them, and renews
\* before it rebinds and before its lease ends, for leases of one second too.
ReplyReadsBack ==
    /\ stage = "refused" => reply = NoReply
    /\ stage = "received" =>
          /\ options = reply.options
          /\ Has(LEASE_TIME) =>
                LET time(code) == Number(Value(code))
                IN  /\ 1 <= time(RENEWAL_TIME)
                    /\ time(RENEWAL_TIME) <= time(REBINDING_TIME)
                    /\ time(REBINDING_TIME) <= time(LEASE_TIME)
=============================================================================
