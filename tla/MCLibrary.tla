------------------------------ MODULE MCLibrary ------------------------------
(* Small inputs for Library, and a small instance of EthTx. *)
EXTENDS Parts

\* One address of each alignment, for both ends; more than two turns of Duff's device.
AllCopyTo   == 0 .. 3
AllCopyFrom == 76 .. 79
AllLengths  == 0 .. 41

\* 0, around a power of ten and a power of two, the ends of the signed numbers.
AllArguments == {0, 9, 10, 100, 255, 256, 65536, 8388607, 8388608, 16777215}

\* The ends of the sensor's range, each side of 0 and of a whole degree.
AllTemperatures == {-1024, -9, -8, -1, 0, 7, 8, 200, 1023}

Me     == <<2, 3, 7, 255, 0, 9>>
MyAddress == <<192, 168, 100, 200>>
Peer   == <<0, 16, 255, 254, 1, 5>>
PeerAddress == <<192, 168, 100, 7>>

Ethernet(type) == Me \o Peer \o Put(2, type)
Arp(opcode, target) == Ethernet(2054) \o <<0, 1, 8, 0, 6, 4, 0, opcode>> \o Peer \o PeerAddress
                 \o <<0, 0, 0, 0, 0, 0>> \o target
Ip(options, protocol, target, data) ==
  Ethernet(2048) \o <<69 + Len(options) \div 4, 0, 0, 20 + Len(options) + Len(data), 255, 255, 64, 0, 64, protocol, 171, 205>>
    \o PeerAddress \o target \o options \o data
Echo(type, data) == <<type, 0, 18, 52, 255, 255, 0, 1>> \o data
Datagram(port) == <<4, 210, port \div 256, port % 256, 0, 12, 0, 0, 72, 105, 33, 10>>

\* Payloads of an even, an odd and a null length, of large bytes for the carries; with
\* options and without; for another host, of another kind, to another port.
AllRequests ==
  {Arp(1, MyAddress), Arp(1, PeerAddress), Arp(2, MyAddress), Ethernet(34525)}
    \union {Ip(o, 1, MyAddress, Echo(8, d)) :
              o \in {<< >>, <<1, 1, 1, 0>>},
              d \in {<< >>, <<200>>, <<255, 254>>, <<255, 255, 255, 255, 7>>}}
    \union {Ip(<< >>, 1, PeerAddress, Echo(8, <<1>>)), Ip(<< >>, 1, MyAddress, Echo(0, <<1>>)),
            Ip(<< >>, 17, MyAddress, Datagram(60777)), Ip(<<1, 1, 1, 0>>, 17, MyAddress, Datagram(60777)),
            Ip(<< >>, 17, MyAddress, Datagram(60778)), Ip(<< >>, 17, PeerAddress, Datagram(60777))}

\* Options: the types, one of no use, a server, one cut short by its length, one with
\* another in its bytes, a mask; a long one that leaves room for others or pushes them
\* over the end; pads.
AllOptions ==
  {<<53, 1, 2>>, <<53, 1, 5>>, <<53, 1, 4>>, <<54, 4, 10, 0, 0, 1>>, <<54, 8, 10, 0, 0, 2, 54, 4, 9, 9>>,
   <<54, 2, 10, 1>>,
   <<1, 4, 255, 53, 1, 2>>, <<12, 40>> \o [i \in 1 .. 40 |-> 54], <<0, 0>>, <<0>>, <<255>>}
OptionSeqs == {Append(s, <<255>>) : s \in BoundedSeq(AllOptions, 3)} \union BoundedSeq(AllOptions, 2)

\* What would be a server, or an offer, or an end, behind the options.
AllBeyond == {<<54, 4, 9, 9, 9, 9>>, <<53, 1, 2, 54, 4, 9>>, <<255, 0, 0, 0, 0, 0>>}

Options(s) == LET all == Cookie \o FlattenSeq(s) \o Zeros(64) IN SubSeq(all, 1, 64)
Offered == <<10, 0, 1, 200>>
ServerFrame(dst, type, protocol, from, to, s) ==
  dst \o Peer \o Put(2, type) \o <<69, 0, 1, 72, 0, 0, 64, 0, 64, protocol, 0, 0>> \o PeerAddress \o Offered
    \o Put(2, from) \o Put(2, to) \o <<1, 52, 0, 0>>
    \o <<2, 1, 6, 0, 1, 2, 3, 4>> \o Zeros(8) \o Offered \o Zeros(8 + 16 + 64 + 128) \o Options(s)

Came(bytes, s, mine) == [bytes |-> bytes, options |-> s, address |-> Offered, mine |-> mine]
AnOffer == <<<<53, 1, 2>>, <<54, 4, 10, 0, 0, 1>>, <<255>>>>

AllIncoming ==
  {Came(ServerFrame(Me, 2048, 17, 67, 68, s), s, TRUE) : s \in OptionSeqs}
    \union {Came(ServerFrame(Broadcast6, 2048, 17, 67, 68, AnOffer), AnOffer, TRUE)}
    \union {Came(f, AnOffer, FALSE) :
              f \in {ServerFrame(Peer, 2048, 17, 67, 68, AnOffer), ServerFrame(Me, 2054, 17, 67, 68, AnOffer),
                     ServerFrame(Me, 2048, 6, 67, 68, AnOffer), ServerFrame(Me, 2048, 17, 68, 68, AnOffer),
                     ServerFrame(Me, 2048, 17, 67, 67, AnOffer)}}
=============================================================================
