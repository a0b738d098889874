------------------------------- MODULE Replies -------------------------------
(***************************************************************************)
(* process_packet() of samples/ethernet and of samples/simple_udp: frames  *)
(* come in, and the answer to one, if any, is built in the buffer of a     *)
(* transmit descriptor, over what is left there, for the MAC to read later.*)
(* The buffers of simple_udp lie one behind the other; those of ethernet,  *)
(* declared [size][count] for [count][size], 8 bytes apart, so that each   *)
(* lies over the one before it from its ninth byte on.                     *)
(*                                                                         *)
(* The handler deals with a frame in one step: the MAC reads and writes    *)
(* the buffers before and after it.                                        *)
(***************************************************************************)
EXTENDS Headers

CONSTANTS
  MyMac, MyIp,  \* mac_addr and my_ip
  Requests,     \* the frames that may come in
  BufferSize,   \* bytes of a buffer that matter
  MaxRequests   \* bound: frames that come in, as many as there are descriptors or less

VARIABLES
  sample,   \* the program: "ethernet" or "simple_udp"
  rxbuffers, txbuffers,
  pid,      \* ip4_set_header()'s count of packets
  received, \* how many frames came in
  waiting,  \* those to be handled: where they are, and history: what came
  answered, \* how many answers were built
  sending,  \* those the MAC is to read: where they are, and history: as they were
            \* built, and which were built since
  request,  \* history: the last frame handled, whether another had come behind it, and
            \* whether a descriptor was free
  reply,    \* history: the answer built to it, or << >>
  onWire      \* history: what the MAC sent last, with what sending said of it

replyVars == <<sample, rxbuffers, txbuffers, pid, received, waiting, answered, sending,
               request, reply, onWire>>

RX_BUFFER_COUNT == 8
TX_BUFFER_COUNT == 8
PORT == 60777
ARP_REPLY == 2
ECHO_REQUEST == 8
ECHO_REPLY == 0

ReplyInit ==
  /\ sample \in {"ethernet", "simple_udp"}
  /\ rxbuffers = [i \in 1 .. (MaxRequests * BufferSize) |-> 0]
  /\ \E left \in {0, 255} : txbuffers = [i \in 1 .. (MaxRequests * BufferSize) |-> left]
  /\ pid = 0
  /\ received = 0 /\ waiting = << >>
  /\ answered = 0 /\ sending = << >>
  /\ request = [frame |-> << >>, covered |-> FALSE, free |-> FALSE]
  /\ reply = << >>
  /\ onWire = [frame |-> << >>, later |-> << >>, bytes |-> << >>]

\* rxbuffers[i], txbuffers[i]; rx_buffers + i*BUFFER_SIZE, tx_buffers + i*BUFFER_SIZE
RxAt(i) == i * (IF sample = "ethernet" THEN RX_BUFFER_COUNT ELSE BufferSize)
TxAt(i) == i * (IF sample = "ethernet" THEN TX_BUFFER_COUNT ELSE BufferSize)

\* txd->packet
packet == SubSeq(txbuffers, TxAt(answered) + 1, TxAt(answered) + BufferSize)

\* The descriptor's control word gives the last byte to send, counted from 0.
Send(buffer, last) ==
  LET frame == SubSeq(buffer, 1, last + 1)
      older == [i \in DOMAIN sending |-> [sending[i] EXCEPT !.later = Append(@, frame)]]
  IN /\ txbuffers' = Over(txbuffers, TxAt(answered), buffer)
     /\ reply' = frame
     /\ sending' = Append(older, [at |-> TxAt(answered), frame |-> frame, later |-> << >>])
     /\ answered' = answered + 1

Ignore == reply' = << >> /\ UNCHANGED <<txbuffers, pid, answered, sending>>

EthReply(frame) ==
  LET eth == Demangle(EthHead, frame, 0)
  IN Mangle(EthHead, [dst |-> eth.src, src |-> MyMac, type |-> eth.type])

\* An ARP packet for my_ip, whatever its opcode; the control word has the size, not the
\* size less one.
AnswerArp(frame) ==
  LET arp == Demangle(ArpHead, frame, PROTO_MAC_HLEN)
      answer == [hard_type |-> 1, protocol_type |-> PROTO_IP, hlen |-> 6, plen |-> 4,
                 opcode |-> ARP_REPLY, sender_mac |-> MyMac, sender_ip |-> arp.target_ip,
                 target_mac |-> arp.sender_mac, target_ip |-> arp.sender_ip]
  IN IF arp.target_ip # MyIp THEN Ignore
     ELSE /\ Send(Over(Over(packet, 0, EthReply(frame)), PROTO_MAC_HLEN, Mangle(ArpHead, answer)),
                  PROTO_MAC_HLEN + PROTO_ARP_HLEN)
          /\ UNCHANGED pid

\* An echo request: the same packet goes back, its checksums computed again, the ICMP
\* one once the data has been copied behind the header; at 2 modulo 4, where memcpy()
\* copies no more than it is asked (MemOps).
AnswerPing(frame) ==
  LET ip == Demangle(IpHead, frame, PROTO_MAC_HLEN)
      start == PROTO_MAC_HLEN + HeaderLength(ip)
      icmp == Demangle(IcmpHead, frame, start)
      end == PROTO_MAC_HLEN + ip.total_length
      data == SubSeq(frame, start + PROTO_ICMP_HLEN + 1, end)
      ipBack == [ip EXCEPT !.header_checksum = 0, !.src_addr = ip.dst_addr, !.dst_addr = ip.src_addr]
      icmpBack == [icmp EXCEPT !.type = ECHO_REPLY, !.checksum = 0]
      built == Over(Over(proto_ip_mangle(Over(packet, 0, EthReply(frame)), PROTO_MAC_HLEN, ipBack),
                         start, Mangle(IcmpHead, icmpBack)),
                    start + PROTO_ICMP_HLEN, data)
  IN IF ip.dst_addr # MyIp \/ ip.protocol # PROTO_ICMP \/ icmp.type # ECHO_REQUEST THEN Ignore
     ELSE /\ Send(Over(built, start + 2, Put(2, checksum(SubSeq(built, start + 1, end)))), end)
          /\ UNCHANGED pid

\* A datagram to PORT is answered by "OK".
AnswerUdp(frame) ==
  LET headed == ip4_set_header(EthSet(packet, eth_get_src(frame), MyMac, PROTO_IP), pid,
                               MyIp, ip4_get_src(frame), 8 + 3, PROTO_UDP)
      built == udp_set_header(headed, PORT, udp_get_src_port(frame), 3)
  IN IF ip4_get_dst(frame) # MyIp \/ ip4_get_protocol(frame) # PROTO_UDP
        \/ udp_get_dst_port(frame) # PORT
       THEN Ignore
     ELSE /\ Send(Over(built, udp_get_payload(built), <<79, 75, 0>>), ETH_HEADER_SIZE + 20 + 8 + 3 - 1)
          /\ pid' = (pid + 1) % 65536

process_packet(frame, free) ==
  CASE ~free -> Ignore
    [] sample = "ethernet" /\ eth_get_type(frame) = PROTO_ARP -> AnswerArp(frame)
    [] sample = "ethernet" /\ eth_get_type(frame) = PROTO_IP -> AnswerPing(frame)
    [] sample = "simple_udp" /\ eth_get_type(frame) = PROTO_IP -> AnswerUdp(frame)
    [] OTHER -> Ignore

\* The MAC writes a frame to the buffer of the next receive descriptor.
Receive ==
  /\ received < MaxRequests
  /\ received' = received + 1
  /\ \E frame \in Requests :
       /\ rxbuffers' = Over(rxbuffers, RxAt(received), frame)
       /\ waiting' = Append(waiting, [at |-> RxAt(received), frame |-> frame])
  /\ UNCHANGED <<sample, txbuffers, pid, answered, sending, request, reply, onWire>>

\* The handler takes the oldest frame; a transmit descriptor is free or is not.
Handle ==
  /\ waiting # << >>
  /\ waiting' = Tail(waiting)
  /\ \E free \in BOOLEAN :
       /\ request' = [frame |-> Head(waiting).frame, covered |-> Len(waiting) > 1, free |-> free]
       /\ process_packet(SubSeq(rxbuffers, Head(waiting).at + 1, Len(rxbuffers)), free)
  /\ UNCHANGED <<sample, rxbuffers, received, onWire>>

\* The MAC reads the oldest answer from its buffer.
MacSends ==
  /\ sending # << >>
  /\ sending' = Tail(sending)
  /\ LET s == Head(sending)
     IN onWire' = [frame |-> s.frame, later |-> s.later,
                 bytes |-> SubSeq(txbuffers, s.at + 1, s.at + Len(s.frame))]
  /\ UNCHANGED <<sample, rxbuffers, txbuffers, pid, received, waiting, answered, request, reply>>

ReplyNext == Receive \/ Handle \/ MacSends

-----------------------------------------------------------------------------
\* Bytes from up to to, counted from 0, and the number two bytes are.
Part(bytes, from, to) == SubSeq(bytes, from + 1, to)
Two(bytes, at) == 256 * bytes[at + 1] + bytes[at + 2]

\* RFC 1071: the one's complement sum of a block that holds its own checksum is 0.
Verifies(bytes) ==
  LET padded == IF Len(bytes) % 2 = 1 THEN Append(bytes, 0) ELSE bytes
  IN FoldLeft(LAMBDA s, k : s + Two(padded, 2 * k), 0, [k \in 1 .. (Len(padded) \div 2) |-> k - 1]) % 65535 = 0

IpStart == 14
IpEnd(f) == IpStart + 4 * (f[IpStart + 1] % 16)

\* Which requests call for an answer; the code takes any ARP packet for a request, one
\* that is an answer itself too.
CallsForArp(q) == Two(q, 12) = 2054 /\ Part(q, 38, 42) = MyIp /\ Two(q, 20) = 1
TakenForArp(q) == Two(q, 12) = 2054 /\ Part(q, 38, 42) = MyIp /\ Two(q, 20) # 1
CallsForPing(q) ==
  Two(q, 12) = 2048 /\ Part(q, 30, 34) = MyIp /\ q[24] = 1 /\ q[IpEnd(q) + 1] = 8
CallsForOk(q) ==
  Two(q, 12) = 2048 /\ Part(q, 30, 34) = MyIp /\ q[24] = 17 /\ Two(q, IpEnd(q) + 2) = PORT

GoodEthernet(q, r) == Part(r, 0, 14) = Part(q, 6, 12) \o MyMac \o Part(q, 12, 14)
GoodArp(q, r) ==
  Part(r, 14, 42) = <<0, 1, 8, 0, 6, 4, 0, 2>> \o MyMac \o MyIp \o Part(q, 22, 32)
GoodIp(q, r) ==
  /\ Verifies(Part(r, IpStart, IpEnd(r)))
  /\ Part(r, 26, 34) = MyIp \o Part(q, 26, 30)
  /\ IpStart + Two(r, 16) <= Len(r)
GoodPing(q, r) ==
  LET i == IpEnd(r)  end == IpStart + Two(r, 16)
  IN /\ Two(r, 16) = Two(q, 16)
     /\ r[i + 1] = 0
     /\ Part(r, i + 4, end) = Part(q, i + 4, end)
     /\ Verifies(Part(r, i, end))
GoodOk(q, r) ==
  Part(r, IpEnd(r), Len(r)) = Put(2, PORT) \o Part(q, IpEnd(q), IpEnd(q) + 2) \o <<0, 11, 0, 0, 79, 75, 0>>

\* A frame that calls for it is answered when a descriptor is free; the answer goes back
\* to whom it came from, carries the request's data, and all its checksums verify,
\* whatever an older frame has left in the buffer, with IP options and an odd number of
\* bytes too.  No other frame is answered, but for ARP packets that are no requests:
\* their opcode is not looked at (ethernet/main.c:142-146).  In samples/ethernet a frame
\* is lost when the next has come before the handler looks at it, for the next is
\* written over it (ethernet/main.c:122).
AnswersAreValid ==
  request.frame # << >> =>
    LET q == request.frame  r == reply
        lost == sample = "ethernet" /\ request.covered
        arp == sample = "ethernet" /\ (CallsForArp(q) \/ TakenForArp(q))
        ping == sample = "ethernet" /\ CallsForPing(q)
        ok == sample = "simple_udp" /\ CallsForOk(q)
    IN IF ~request.free \/ lost \/ ~(arp \/ ping \/ ok) THEN r = << >>
       ELSE /\ r # << >> /\ GoodEthernet(q, r)
            /\ arp => GoodArp(q, r)
            /\ ping \/ ok => GoodIp(q, r)
            /\ ping => GoodPing(q, r)
            /\ ok => GoodOk(q, r)

\* A frame with those built since written over it, each 8 bytes further.
Covered(frame, later) ==
  FoldLeft(LAMBDA bytes, k : Over(bytes, 8 * k, later[k]), frame, [k \in DOMAIN later |-> k])

\* The MAC sends the answer that was built; but in samples/ethernet, when others were
\* built before it came to that, it sends them from the ninth byte on
\* (ethernet/main.c:123, 302; simple_udp/main.c:154).
BuiltIsSent ==
  onWire.bytes = IF sample = "ethernet" THEN Covered(onWire.frame, onWire.later) ELSE onWire.frame

RepliesAreValid == AnswersAreValid /\ BuiltIsSent
=============================================================================
