------------------------------- MODULE Headers -------------------------------
(***************************************************************************)
(* The headers of Ethernet, ARP, IPv4, ICMP and UDP as the samples write   *)
(* them to a buffer and read them from it, and the Internet checksum.      *)
(* Numbers of one or two bytes are numbers, addresses are their bytes.     *)
(***************************************************************************)
EXTENDS Integers, Sequences, SequencesExt

PROTO_MAC_HLEN  == 14
PROTO_ARP_HLEN  == 28
PROTO_ICMP_HLEN == 8
PROTO_IP        == 2048
PROTO_ARP       == 2054
PROTO_ICMP      == 1
PROTO_UDP       == 17

\* The fields of each header in the order of the wire, with their lengths.
EthHead  == <<<<"dst", 6>>, <<"src", 6>>, <<"type", 2>>>>
ArpHead  == <<<<"hard_type", 2>>, <<"protocol_type", 2>>, <<"hlen", 1>>, <<"plen", 1>>, <<"opcode", 2>>,
              <<"sender_mac", 6>>, <<"sender_ip", 4>>, <<"target_mac", 6>>, <<"target_ip", 4>>>>
IpHead   == <<<<"version_length", 1>>, <<"dscp_ecn", 1>>, <<"total_length", 2>>, <<"identification", 2>>,
              <<"flags_frag_offset", 2>>, <<"ttl", 1>>, <<"protocol", 1>>, <<"header_checksum", 2>>,
              <<"src_addr", 4>>, <<"dst_addr", 4>>>>
IcmpHead == <<<<"type", 1>>, <<"code", 1>>, <<"checksum", 2>>, <<"identifier", 2>>, <<"sn", 2>>>>

\* GET_TWO, GET_FOUR, GET_MAC
Got(bytes) ==
  CASE Len(bytes) = 1 -> bytes[1] [] Len(bytes) = 2 -> 256 * bytes[1] + bytes[2] [] OTHER -> bytes

\* PUT_TWO, PUT_FOUR, PUT_MAC
Put(width, v) ==
  CASE width = 1 -> <<v>> [] width = 2 -> <<v \div 256, v % 256>> [] OTHER -> v

OffsetIn(layout, i) == FoldLeft(LAMBDA sum, f : sum + f[2], 0, SubSeq(layout, 1, i - 1))
Index(layout, name) == CHOOSE i \in DOMAIN layout : layout[i][1] = name

\* The header that starts after byte at of the buffer.
Demangle(layout, buffer, at) ==
  [name \in {layout[i][1] : i \in DOMAIN layout} |->
     LET i == Index(layout, name)
         o == at + OffsetIn(layout, i)
     IN Got(SubSeq(buffer, o + 1, o + layout[i][2]))]

Mangle(layout, h) ==
  FlattenSeq([i \in DOMAIN layout |-> Put(layout[i][2], h[layout[i][1]])])

\* The buffer, with bytes written after byte at.
Over(buffer, at, bytes) ==
  [i \in DOMAIN buffer |-> IF i - at \in DOMAIN bytes THEN bytes[i - at] ELSE buffer[i]]

\* The carry of a sum of 16-bit words goes back into it, twice at most: the first sum
\* is less than 2^32, the second is less than 2^17.
AddCarry(s) == (s % 65536) + (s \div 65536)

\* checksum(), proto_checksum(): 16-bit words, a last byte alone is the high one
checksum(bytes) ==
  LET word(k) == 256 * bytes[2 * k - 1] + (IF 2 * k \in DOMAIN bytes THEN bytes[2 * k] ELSE 0)
      sum == FoldLeft(LAMBDA s, k : s + word(k), 0, [k \in 1 .. ((Len(bytes) + 1) \div 2) |-> k])
  IN 65535 - AddCarry(AddCarry(sum))

\* (ih->version_length & 0xF) << 2
HeaderLength(ip) == 4 * (ip.version_length % 16)

\* Mutant: the checksum is that of the fixed part of the header.
ipMangleFixed(buffer, at, ip) ==
  LET plain == Over(buffer, at, Mangle(IpHead, ip))
  IN IF ip.header_checksum # 0 THEN plain
     ELSE Over(plain, at + 10, Put(2, checksum(SubSeq(plain, at + 1, at + 20))))

\* proto_ip_mangle(): a checksum of 0 asks for the right one, over the header as it
\* now is in the buffer, its options included.
proto_ip_mangle(buffer, at, ip) ==
  LET plain == Over(buffer, at, Mangle(IpHead, ip))
  IN IF ip.header_checksum # 0 THEN plain
     ELSE Over(plain, at + 10, Put(2, checksum(SubSeq(plain, at + 1, at + HeaderLength(ip)))))

-----------------------------------------------------------------------------
(* The accessors of simple_udp/protocol.c, at their offsets in the frame.   *)

ETH_HEADER_SIZE == 14

Field(buffer, at, width) == Got(SubSeq(buffer, at + 1, at + width))

eth_get_src(b)  == Field(b, 6, 6)
eth_get_type(b) == Field(b, 12, 2)
ip4_get_src(b)  == Field(b, 12 + ETH_HEADER_SIZE, 4)
ip4_get_dst(b)  == Field(b, 16 + ETH_HEADER_SIZE, 4)
ip4_get_protocol(b) == Field(b, 9 + ETH_HEADER_SIZE, 1)
ip4_get_header_length(b) == 4 * (Field(b, ETH_HEADER_SIZE, 1) % 16)
UdpStart(b) == ETH_HEADER_SIZE + ip4_get_header_length(b)
udp_get_src_port(b) == Field(b, UdpStart(b), 2)
udp_get_dst_port(b) == Field(b, UdpStart(b) + 2, 2)
udp_get_payload(b)  == UdpStart(b) + 8

\* eth_set_dst(), eth_set_src(), eth_set_type()
EthSet(b, dst, src, type) == Over(Over(Over(b, 0, dst), 6, src), 12, Put(2, type))

\* Version 4, 20 bytes of header, no fragment, a time to live of 255.  The checksum is
\* of the header with 0 in its place.
ip4_set_header(b, pid, src, dst, payload_length, protocol) ==
  LET total == payload_length + 20
      head == <<69, 0>> \o Put(2, total) \o Put(2, pid) \o <<0, 0, 255, protocol, 0, 0>> \o src \o dst
  IN Over(Over(b, ETH_HEADER_SIZE, head), ETH_HEADER_SIZE + 10, Put(2, checksum(head)))

udp_set_header(b, src_port, dst_port, payload_length) ==
  Over(b, UdpStart(b), Put(2, src_port) \o Put(2, dst_port) \o Put(2, payload_length + 8) \o <<0, 0>>)
=============================================================================
