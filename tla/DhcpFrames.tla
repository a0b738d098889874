----------------------------- MODULE DhcpFrames -----------------------------
(***************************************************************************)
(* The bytes of the client of samples/dhcp: the frames it builds, and what *)
(* it finds in the options of those it receives.  The exchange itself, its *)
(* buffers and its interrupts are of module Dhcp.                          *)
(*                                                                         *)
(* A word of 32 bits is its four bytes, the highest first.                 *)
(***************************************************************************)
EXTENDS Replies, FiniteSetsExt

CONSTANTS
  Incoming,   \* the frames that may come in: their bytes, and the options put in them
  Beyond      \* what may lie behind the options in memory, six bytes

VARIABLES
  frameIn,    \* history: what came in, with what lay behind its options, << >> at first
  frameOut,   \* what was sent for it, or the discover before it
  printed     \* what an acknowledgement has printed: its address and its server

dhcpFrameVars == <<frameIn, frameOut, printed>>

DHCPDISCOVER == 1
DHCPOFFER    == 2
DHCPREQUEST  == 3
DHCPACK      == 5
DHCP_SERVER_PORT == 67
DHCP_CLIENT_PORT == 68
OPTION_DHCP_REQUESTED_IP == 50
OPTION_DHCP_MESSAGE_TYPE == 53
OPTION_DHCP_SERVER_IDENTIFIER == 54
OPTION_END == 255

Zeros(k) == [i \in 1 .. k |-> 0]
Broadcast6 == [i \in 1 .. 6 |-> 255]
Broadcast4 == [i \in 1 .. 4 |-> 255]

UdpHead  == <<<<"src_port", 2>>, <<"dst_port", 2>>, <<"len", 2>>, <<"checksum", 2>>>>
DhcpHead == <<<<"op", 1>>, <<"htype", 1>>, <<"hlen", 1>>, <<"hops", 1>>, <<"xid", 4>>, <<"secs", 2>>, <<"flags", 2>>,
              <<"ciaddr", 4>>, <<"yiaddr", 4>>, <<"siaddr", 4>>, <<"giaddr", 4>>, <<"chaddr", 16>>,
              <<"sname", 64>>, <<"file", 128>>, <<"options", 64>>>>

DHCP_HLEN == 300
IP_OFFSET == PROTO_MAC_HLEN
UDP_OFFSET == IP_OFFSET + 20
DHCP_OFFSET == UDP_OFFSET + 8

\* The processor is little-endian: the first byte of a word in memory is its lowest.
InMemory(word) == Reverse(word)
ntohl(word) == Reverse(word)

-----------------------------------------------------------------------------
\* The walk over the options: a code, a length, and as many bytes.
NextOption(options, k) == k + options[k + 2] + 2

\* Where the walk finds an option that starts at one of the wanted places, or -1.  It
\* stops at an END, or when it is past the 60 bytes and one more.
FindOption(options, wanted) ==
  LET walk[k \in 0 .. 320] ==
        CASE k > 60 \/ options[k + 1] = OPTION_END -> -1
          [] k \in wanted -> k
          [] OTHER -> walk[NextOption(options, k)]
  IN walk[0]

\* The bytes of the option, four at most, are copied over a word that is 0; memcpy() of
\* one to three from an aligned address (options lies at 0 modulo 4, the bytes of the
\* option two further) copies eight words, MemOps says: the first is the word, what the
\* others overwrite on the stack is left out.
dhcp_get_option_simple(options, code) ==
  LET k == FindOption(options, {i \in 0 .. 60 : options[i + 1] = code})
      len == IF options[k + 2] > 4 \/ (options[k + 2] \in 1 .. 3 /\ k % 4 = 2) THEN 4 ELSE options[k + 2]
  IN IF k = -1 THEN <<0, 0, 0, OPTION_END>>
     ELSE Reverse(SubSeq(options, k + 3, k + 2 + len) \o Zeros(4 - len))

dhcp_create_option_simple(code, len, val) == <<code, len>> \o SubSeq(InMemory(val), 1, len)

-----------------------------------------------------------------------------
\* simple_net_emit_buffer() writes the source address; the control word has the size,
\* not the size less one: a byte more is sent, left out here.
dhcp_send(dhcp, src_ip) ==
  LET ip == [version_length |-> 69, dscp_ecn |-> 0, total_length |-> 20 + 8 + DHCP_HLEN, identification |-> 0,
             flags_frag_offset |-> 16384, ttl |-> 64, protocol |-> PROTO_UDP, header_checksum |-> 0,
             src_addr |-> src_ip, dst_addr |-> Broadcast4]
      udp == [src_port |-> DHCP_CLIENT_PORT, dst_port |-> DHCP_SERVER_PORT, len |-> DHCP_HLEN + 8, checksum |-> 0]
      tx == Mangle(EthHead, [dst |-> Broadcast6, src |-> MyMac, type |-> PROTO_IP])
              \o Zeros(20) \o Mangle(UdpHead, udp) \o Mangle(DhcpHead, dhcp)
  IN proto_ip_mangle(tx, IP_OFFSET, ip)

\* memset(), then what both messages set.
Message(xid, ciaddr, siaddr, options) ==
  LET all == <<99, 130, 83, 99>> \o options \o <<OPTION_END>>
  IN [op |-> 1, htype |-> 1, hlen |-> 6, hops |-> 0, xid |-> xid, secs |-> 0, flags |-> 0,
      ciaddr |-> ciaddr, yiaddr |-> Zeros(4), siaddr |-> siaddr, giaddr |-> Zeros(4),
      chaddr |-> MyMac \o Zeros(10), sname |-> Zeros(64), file |-> Zeros(128),
      options |-> all \o Zeros(64 - Len(all))]

dhcp_discover(xid) ==
  dhcp_send(Message(xid, Zeros(4), Zeros(4),
              dhcp_create_option_simple(OPTION_DHCP_MESSAGE_TYPE, 1, <<0, 0, 0, DHCPDISCOVER>>)),
            Zeros(4))

dhcp_send_request(xid, requested_ip, server_ip) ==
  dhcp_send(Message(xid, requested_ip, server_ip,
              dhcp_create_option_simple(OPTION_DHCP_MESSAGE_TYPE, 1, <<0, 0, 0, DHCPREQUEST>>)
                \o dhcp_create_option_simple(OPTION_DHCP_REQUESTED_IP, 4, ntohl(requested_ip))
                \o dhcp_create_option_simple(OPTION_DHCP_SERVER_IDENTIFIER, 4, ntohl(server_ip))),
            requested_ip)

ServerOf(options) == ntohl(dhcp_get_option_simple(options, OPTION_DHCP_SERVER_IDENTIFIER))

\* The first message type of the two that are known.
dhcp_process_packet(dhcp, options) ==
  LET k == FindOption(options, {i \in 0 .. 60 : /\ options[i + 1] = OPTION_DHCP_MESSAGE_TYPE
                                                 /\ options[i + 3] \in {DHCPOFFER, DHCPACK}})
      type == IF k = -1 THEN 0 ELSE options[k + 3]
  IN /\ frameOut' = IF type = DHCPOFFER THEN dhcp_send_request(dhcp.xid, dhcp.yiaddr, ServerOf(options)) ELSE << >>
     /\ printed' = IF type = DHCPACK THEN <<dhcp.yiaddr, ServerOf(options)>> ELSE << >>

ForClient(data) ==
  LET eth == Demangle(EthHead, data, 0)
      ip  == Demangle(IpHead, data, IP_OFFSET)
      udp == Demangle(UdpHead, data, UDP_OFFSET)
  IN /\ eth.dst \in {Broadcast6, MyMac} /\ eth.type = PROTO_IP /\ ip.protocol = PROTO_UDP
     /\ udp.dst_port = DHCP_CLIENT_PORT /\ udp.src_port = DHCP_SERVER_PORT

\* The headers are copied to a structure; what lies behind it is not set.
packet_in(data, behind) ==
  IF ForClient(data)
    THEN LET dhcp == Demangle(DhcpHead, data, DHCP_OFFSET)
         IN dhcp_process_packet(dhcp, SubSeq(dhcp.options, 5, 64) \o behind)
    ELSE frameOut' = << >> /\ printed' = << >>

DhcpFramesInit ==
  /\ frameIn = << >> /\ printed = << >> /\ frameOut = << >>

\* main(), once the callback is set
Discover ==
  /\ frameIn = << >> /\ frameOut = << >>
  /\ frameOut' = dhcp_discover(<<18, 52, 86, 120>>)
  /\ UNCHANGED <<frameIn, printed>>

Incomes ==
  /\ frameIn = << >> /\ frameOut # << >>
  /\ \E f \in Incoming, behind \in Beyond :
       frameIn' = [came |-> f, behind |-> behind] /\ packet_in(f.bytes, behind)

DhcpFramesNext == Discover \/ Incomes

-----------------------------------------------------------------------------
\* The options before the first END, when there is one in the 60 bytes, none of them is
\* a lone pad, and an address has four bytes; two pads in a row count as an option.
Ends(s) == {i \in DOMAIN s : s[i] = <<OPTION_END>>}
Before(s) == SubSeq(s, 1, Min(Ends(s)) - 1)
Legible(s) ==
  /\ Ends(s) # {}
  /\ Len(FlattenSeq(Before(s))) < 60
  /\ \A i \in DOMAIN Before(s) :
       LET o == Before(s)[i] IN Len(o) > 1 /\ (o[1] = OPTION_DHCP_SERVER_IDENTIFIER => Len(o) >= 6)

With(s, code) == SelectSeq(Before(s), LAMBDA o : o[1] = code)
Known(s) == SelectSeq(With(s, OPTION_DHCP_MESSAGE_TYPE), LAMBDA o : o[3] \in {DHCPOFFER, DHCPACK})
Kind(s) == IF Known(s) = << >> THEN 0 ELSE Known(s)[1][3]

\* An address that is not there is 255.0.0.0.
AddressIn(s, code) ==
  IF With(s, code) = << >> THEN <<255, 0, 0, 0>> ELSE SubSeq(With(s, code)[1], 3, 6)

\* What is read from any bytes: an option starts at the first, and one behind the bytes
\* of each other, up to an END or to the first byte behind the 60.
Starts(b) ==
  LET all == FoldLeft(LAMBDA found, k : IF k \in found /\ b[k + 1] # OPTION_END
                                          THEN found \union {k + 2 + b[k + 2]} ELSE found,
                      {0}, [k \in 1 .. 60 |-> k - 1])
  IN {k \in all \intersect 0 .. 60 : b[k + 1] # OPTION_END}
Holding(b, code) == {k \in Starts(b) : b[k + 1] = code}
KindIn(b) ==
  LET known == {k \in Holding(b, OPTION_DHCP_MESSAGE_TYPE) : b[k + 3] \in {DHCPOFFER, DHCPACK}}
  IN IF known = {} THEN 0 ELSE b[Min(known) + 3]
ServerIn(b) ==
  LET at == Holding(b, OPTION_DHCP_SERVER_IDENTIFIER)
      k == Min(at)
      given(i) == i <= b[k + 2] \/ (b[k + 2] > 0 /\ k % 4 = 2)
  IN IF at = {} THEN <<255, 0, 0, 0>> ELSE [i \in 1 .. 4 |-> IF given(i) THEN b[k + 2 + i] ELSE 0]

GoodMessage(frame, options) ==
  /\ Len(frame) = 342
  /\ Part(frame, 0, 14) = Broadcast6 \o MyMac \o <<8, 0>>
  /\ frame[15] = 69 /\ Two(frame, 16) = 328 /\ Verifies(Part(frame, 14, 34))
  /\ Part(frame, 34, 42) = <<0, 68, 0, 67, 1, 52, 0, 0>>
  /\ Part(frame, 70, 76) = MyMac
  /\ Part(frame, 278, 278 + Len(options)) = options

Cookie == <<99, 130, 83, 99>>

\* An offer is answered by a request to its server for its address, an acknowledgement
\* prints both.
Taken(kind, address, server) ==
  /\ printed = IF kind = DHCPACK THEN <<address, server>> ELSE << >>
  /\ IF kind # DHCPOFFER THEN frameOut = << >>
     ELSE GoodMessage(frameOut, Cookie \o <<53, 1, 3, 50, 4>> \o address
                                  \o <<54, 4>> \o server \o <<255>>)

\* The discover, and the request an offer is answered by, are whole frames whose options
\* a server can read: the request asks the server the offer names, in any place among
\* its options and behind pads that come in pairs, for the address offered.  An
\* acknowledgement prints both as they are in it.  Frames for others are ignored
\* (dhcp/main.c:104-138, 166-274).
\*
\* When no END is in the 60 bytes, or a pad stands alone, the client reads on, and what
\* lies in memory behind the options is taken for one: an option that starts at the
\* first byte behind them (<= for <, dhcp/main.c:120, 218), and the rest of one that
\* the end cuts.  No option that starts further is.  A server given in less than four
\* bytes is made up with zeros, or with the bytes that follow in the frame.
DhcpFramesAreRight ==
  IF frameIn = << >> THEN frameOut = << >> \/ GoodMessage(frameOut, Cookie \o <<53, 1, 1, 255>>)
  ELSE LET f == frameIn.came
           b == Part(f.bytes, 282, 342) \o frameIn.behind
       IN CASE ~f.mine -> frameOut = << >> /\ printed = << >>
            [] f.mine /\ Legible(f.options) -> Taken(Kind(f.options), f.address, AddressIn(f.options, 54))
            [] OTHER -> Taken(KindIn(b), f.address, ServerIn(b))
=============================================================================
