----------------------------- MODULE DhcpProofs ------------------------------
(***************************************************************************)
(* Proofs about the client of samples/dhcp, for any number of servers and  *)
(* frames for other clients, any size of the rings, and any number of      *)
(* frames lost or repeated.                                                *)
(*                                                                         *)
(* Four invariants, each inductive by itself but for the types: the        *)
(* receiver is off till the ring is there, and no frame is looked at till  *)
(* the callback is; as long as nothing is disturbed                        *)
(* the transmit ring holds one packet at most, the last one built; a frame *)
(* on its way to the client is a server's answer to what it has seen; and  *)
(* the offer in hand is the last one read.                                 *)
(***************************************************************************)
EXTENDS Dhcp, FiniteSetTheorems, TLAPS

\* What may be on its way to the client, and what it sends.
Possible == Foreign \union {Packet(kind, s, "me") : kind \in {"offer", "ack"}, s \in Servers}
Sent     == {Discover} \union {RequestFor(o) : o \in Possible \union {NoFrame}}

Typed ==
  /\ P \in Slots /\ C \in Slots /\ d \in Slots
  /\ buf \in [Slots -> Possible \union {NoFrame}]
  /\ dma \in Possible \union {NoFrame}
  /\ processed \in Seq(Possible \union {NoFrame})
  /\ air \in SUBSET Possible
  /\ offer \in Possible \union {NoFrame}
  /\ tP \in TxSlots /\ tC \in TxSlots /\ txd \in TxSlots
  /\ tbuf \in [TxSlots -> Sent \union {NoFrame}]
  /\ built \in Seq(Sent) /\ wire \in Seq(Sent \union {NoFrame})
  /\ seen \in [Servers -> SUBSET (Sent \union {NoFrame})]

\* Nothing can be received, and no interrupt be pending, before the ring is there; nothing
\* is done with a frame before the callback is.
Quiet ==
  /\ main = "install" => ~rxOn /\ dma = NoFrame /\ ~rxDone /\ isr = "main"
  /\ ~Called => offer = NoFrame /\ lease = NoFrame /\ built = << >>

\* One packet at most is in the ring, and it is the last that was built; main() has the
\* descriptor that is next.
OneInFlight ==
  ~disturbed =>
    /\ \/ tC = tP /\ Len(wire) = Len(built)
       \/ /\ tP = TxInc(tC) /\ Len(wire) + 1 = Len(built)
          /\ tbuf[tC] = built[Len(built)]
    /\ \A k \in 1 .. Len(wire) : wire[k] = built[k]
    /\ main \in {"fill", "emit"} => txd = tP
    /\ main = "write" => txd = TxInc(tP)
    /\ main \in {"emit", "hand", "write"} => tC = tP /\ tbuf[tP] = Discover
    /\ main # "stopped"

\* What is on its way to the client: an acknowledgement is for what its server has seen.
Genuine(f) ==
  \/ f \in Foreign \union {NoFrame}
  \/ \E s \in Servers : f = Packet("offer", s, "me")
  \/ \E s \in Servers : f = Packet("ack", s, "me") /\ Packet("request", s, "me") \in seen[s]

AllGenuine ==
  /\ \A f \in air : Genuine(f)
  /\ Genuine(dma)
  /\ \A i \in Slots : Genuine(buf[i])
  /\ Genuine(lease)
  /\ lease # NoFrame => lease.kind = "ack"

\* The offer in hand is the last one read, and no frame is read before it is answered.
InHand ==
  /\ ~Called => Requests = {} /\ offer = NoFrame
  /\ offer # NoFrame =>
       /\ pc = "done"
       /\ \A o \in Offers : After(Offers, o) = 0 => processed[o] = offer

IndInv == Typed /\ Quiet /\ OneInFlight /\ AllGenuine /\ InHand /\ RequestsAnswerOffers

-----------------------------------------------------------------------------
(***************************************************************************)
(* Places in a sequence that grows                                         *)
(***************************************************************************)

LEMMA PlacesAreFinite ==
  ASSUME NEW m \in Nat, NEW S \in SUBSET (1 .. m), NEW k \in Nat
  PROVE  IsFiniteSet(S) /\ Cardinality(S) \in Nat /\ After(S, k) \in Nat
<1>1. IsFiniteSet(S)
  <2>1. IsFiniteSet(1 .. m)
    BY FS_Interval
  <2>2. QED
    BY <2>1, FS_Subset
<1>2. IsFiniteSet({i \in S : i > k})
  BY <1>1, FS_Subset
<1>3. QED
  BY <1>1, <1>2, FS_CardinalityType DEF After

\* One more place at the end: one more comes after every other place, and none after it.
LEMMA OneMorePlace ==
  ASSUME NEW m \in Nat, NEW S \in SUBSET (1 .. m)
  PROVE  /\ Cardinality(S \union {m + 1}) = Cardinality(S) + 1
         /\ After(S \union {m + 1}, m + 1) = 0
         /\ \A k \in 1 .. m : After(S \union {m + 1}, k) = After(S, k) + 1
<1>1. IsFiniteSet(S) /\ m + 1 \notin S /\ \A i \in S : i \in Int /\ ~(i > m + 1)
  BY PlacesAreFinite
<1>2. Cardinality(S \union {m + 1}) = Cardinality(S) + 1
  BY <1>1, FS_AddElement
<1>3. After(S \union {m + 1}, m + 1) = 0
  <2>1. {i \in S \union {m + 1} : i > m + 1} = {}
    <3>1. \A i \in S \union {m + 1} : ~(i > m + 1)
      BY <1>1
    <3>2. QED
      BY <3>1, Zenon
  <2>2. QED
    BY <2>1, FS_EmptySet DEF After
<1>4. ASSUME NEW k \in 1 .. m
      PROVE  After(S \union {m + 1}, k) = After(S, k) + 1
  <2> DEFINE Behind == {i \in S : i > k}
  <2>1. {i \in S \union {m + 1} : i > k} = Behind \union {m + 1}
    <3>1. m + 1 > k
      OBVIOUS
    <3>2. \A i : i \in {j \in S \union {m + 1} : j > k} <=> i \in Behind \/ i = m + 1
      BY <3>1
    <3>3. QED
      BY <3>2
  <2>2. IsFiniteSet(Behind) /\ m + 1 \notin Behind
    BY <1>1, FS_Subset
  <2>3. QED
    BY <2>1, <2>2, FS_AddElement DEF After
<1>5. QED
  BY <1>2, <1>3, <1>4

-----------------------------------------------------------------------------
(***************************************************************************)
(* The initial states, and the types                                       *)
(***************************************************************************)

LEMMA InitInd == InitDhcp => IndInv
<1> SUFFICES ASSUME InitDhcp PROVE IndInv
  OBVIOUS
<1>1. Typed
  BY SizeAssumption, TxAssumption DEF InitDhcp, InitIrq, Init, Typed, Slots, TxSlots, Possible
<1>2. Quiet
  BY DEF InitDhcp, InitIrq, Init, Quiet, Called, ReceiverOnAfterInit
<1>3. OneInFlight
  BY DEF InitDhcp, OneInFlight
<1>4. AllGenuine
  BY DEF InitDhcp, InitIrq, Init, AllGenuine, Genuine
<1>5. Requests = {} /\ offer = NoFrame /\ ~Called
  BY DEF InitDhcp, Requests, Called
<1>6. InHand /\ RequestsAnswerOffers
  BY <1>5 DEF InHand, RequestsAnswerOffers
<1>7. QED
  BY <1>1, <1>2, <1>3, <1>4, <1>6 DEF IndInv

LEMMA Nexts ==
  /\ \A i \in Slots : (IF i = N - 1 THEN 0 ELSE i + 1) \in Slots
  /\ \A i \in TxSlots : TxInc(i) \in TxSlots /\ TxInc(i) # i
BY SizeAssumption, TxAssumption DEF Slots, TxSlots, TxInc

\* What a server answers is on its way to the client.
LEMMA AnswersArePossible ==
  ASSUME NEW s \in Servers, NEW p
  PROVE  AnswerOf(s, p) \subseteq Possible
BY DEF AnswerOf, Possible

LEMMA NextTyped == Typed /\ [NextDhcp]_dhcpVars => Typed'
<1> SUFFICES ASSUME Typed, [NextDhcp]_dhcpVars PROVE Typed'
  OBVIOUS
<1> USE DEF Typed
<1>1. CASE Install \/ SetCallback
  BY <1>1 DEF Install, SetCallback, irqVars, ringVars, txVars, netVars
<1>2. CASE GetTxBuffer
  BY <1>2 DEF GetTxBuffer, irqVars, ringVars, netVars
<1>3. CASE BuildDiscover
  BY <1>3 DEF BuildDiscover, irqVars, ringVars, netVars, Fill, Sent
<1>4. CASE WriteControlWord \/ WriteThroughNull \/ DoneProcess \/ EmitDiscover
  <2>1. CASE WriteControlWord
    BY <2>1 DEF WriteControlWord, irqVars, ringVars, netVars
  <2>2. CASE WriteThroughNull
    BY <2>2 DEF WriteThroughNull, irqVars, ringVars, txVars, netVars
  <2>3. CASE DoneProcess
    BY <2>3, Nexts DEF DoneProcess, irqVars, ringVars, netVars
  <2>4. CASE EmitDiscover
    <3>1. built' \in Seq(Sent)
      BY <2>4 DEF EmitDiscover, Sent
    <3>2. QED
      BY <2>4, <3>1 DEF EmitDiscover, irqVars, ringVars, netVars
  <2>5. QED
    BY <1>4, <2>1, <2>2, <2>3, <2>4
<1>5. CASE Handle
  BY <1>5, Nexts DEF Handle, Enter, TestStatus, LeaveLoop, ReadStatus, ClearStatus, Get, Done,
                     ringVars, txVars, netVars
<1>6. CASE PacketIn
  BY <1>6 DEF PacketIn, Process, txVars, netVars
<1>7. CASE SendRequest
  <2>1. RequestFor(offer) \in Sent
    BY DEF Sent
  <2>2. built' \in Seq(Sent)
    BY <1>7, <2>1 DEF SendRequest
  <2>3. tbuf' \in [TxSlots -> Sent \union {NoFrame}]
    BY <1>7, <2>1 DEF SendRequest, Fill
  <2>4. QED
    BY <1>7, <2>2, <2>3, Nexts DEF SendRequest, irqVars, ringVars, netVars
<1>8. CASE MacTransmit
  BY <1>8, Nexts DEF MacTransmit, irqVars, ringVars, netVars
<1>9. CASE Arrive
  BY <1>9 DEF Arrive, txVars
<1>10. CASE Publish
  BY <1>10, Nexts DEF Publish, MacPublishIrq, MacPublish, txVars, netVars
<1>11. ASSUME NEW s \in Servers, NEW k \in 1 .. Len(wire), Reaches(s, k)
       PROVE  seen' \in [Servers -> SUBSET (Sent \union {NoFrame})]
  BY <1>11 DEF Reaches
<1>12. CASE Lose
  BY <1>11, <1>12 DEF Lose, irqVars, ringVars, txVars
<1>13. ASSUME NEW s \in Servers, Serve(s)
       PROVE  Typed'
  BY <1>11, <1>13, AnswersArePossible DEF Serve, irqVars, ringVars, txVars
<1>14. CASE UNCHANGED dhcpVars
  BY <1>14 DEF dhcpVars, irqVars, ringVars, txVars, netVars
<1>15. QED
  BY <1>1, <1>2, <1>3, <1>4, <1>5, <1>6, <1>7, <1>8, <1>9, <1>10, <1>12, <1>13, <1>14
     DEF NextDhcp, Main, Handling

-----------------------------------------------------------------------------
(***************************************************************************)
(* The invariants, one by one                                              *)
(***************************************************************************)

LEMMA QuietInd == Quiet /\ [NextDhcp]_dhcpVars => Quiet'
<1> SUFFICES ASSUME Quiet, [NextDhcp]_dhcpVars PROVE Quiet'
  OBVIOUS
<1>1. ASSUME main' = "install"
      PROVE  main = "install" /\ UNCHANGED <<rxOn, dma, rxDone, isr>>
  <2> USE <1>1
  <2>1. CASE Main
    BY <2>1 DEF Main, Install, SetCallback, GetTxBuffer, BuildDiscover, WriteControlWord,
                WriteThroughNull, DoneProcess, EmitDiscover, MainAt
  <2>2. CASE Handling
    BY <2>2 DEF Handling, Handle, Enter, TestStatus, LeaveLoop, ReadStatus, ClearStatus,
                PacketIn, SendRequest, Quiet
  <2>3. CASE MacTransmit \/ Arrive \/ Publish
    BY <2>3 DEF MacTransmit, Arrive, Publish, MacPublishIrq, MacPublish, irqVars, ringVars, Quiet
  <2>4. CASE Lose \/ (\E s \in Servers : Serve(s)) \/ UNCHANGED dhcpVars
    BY <2>4 DEF Lose, Serve, dhcpVars, irqVars, ringVars
  <2>5. QED
    BY <2>1, <2>2, <2>3, <2>4 DEF NextDhcp
<1>2. ASSUME ~Called'
      PROVE  ~Called /\ UNCHANGED <<offer, lease, built>>
  <2> USE <1>2
  <2>1. CASE Main
    BY <2>1 DEF Main, Install, SetCallback, GetTxBuffer, BuildDiscover, WriteControlWord,
                WriteThroughNull, DoneProcess, EmitDiscover, MainAt, Called, txVars
  <2>2. CASE Handling
    BY <2>2 DEF Handling, Handle, PacketIn, SendRequest, Called, Quiet, txVars
  <2>3. CASE MacTransmit \/ Arrive \/ Publish
    BY <2>3 DEF MacTransmit, Arrive, Publish, Called, txVars
  <2>4. CASE Lose \/ (\E s \in Servers : Serve(s)) \/ UNCHANGED dhcpVars
    BY <2>4 DEF Lose, Serve, Called, dhcpVars, txVars
  <2>5. QED
    BY <2>1, <2>2, <2>3, <2>4 DEF NextDhcp
<1>3. QED
  BY <1>1, <1>2 DEF Quiet

\* Nothing but main(), the handler's sending and the MAC touches the transmit ring.
LEMMA OthersLeaveTheRing ==
  ASSUME [NextDhcp]_dhcpVars
  PROVE  \/ UNCHANGED <<txVars, main>>
         \/ Install \/ SetCallback \/ GetTxBuffer \/ BuildDiscover
         \/ WriteControlWord \/ WriteThroughNull \/ DoneProcess \/ EmitDiscover
         \/ SendRequest \/ MacTransmit
BY DEF NextDhcp, Main, Handling, Handle, PacketIn, Arrive, Publish, Lose, Serve, dhcpVars

LEMMA OneInFlightInd == Typed /\ OneInFlight /\ [NextDhcp]_dhcpVars => OneInFlight'
<1> SUFFICES ASSUME Typed, OneInFlight, [NextDhcp]_dhcpVars, ~disturbed' PROVE OneInFlight'
  BY DEF OneInFlight
<1>1. /\ Len(built) \in Nat /\ Len(wire) \in Nat /\ tP \in TxSlots /\ tC \in TxSlots
      /\ built \in Seq(Sent) /\ wire \in Seq(Sent \union {NoFrame})
  BY DEF Typed
<1>2. CASE UNCHANGED <<txVars, main>>
  BY <1>2 DEF OneInFlight, txVars
<1>3. CASE Install \/ SetCallback
  BY <1>3 DEF OneInFlight, Install, SetCallback, MainAt, txVars
<1>4. CASE GetTxBuffer
  BY <1>4 DEF OneInFlight, GetTxBuffer, MainAt
<1>5. CASE BuildDiscover
  <2>1. ~disturbed /\ tC = tP /\ txd = tP /\ tbuf' = Fill(txd, Discover)
    BY <1>5 DEF OneInFlight, BuildDiscover, MainAt
  <2>2. tbuf'[txd] = Discover
    BY <1>1, <2>1 DEF Fill
  <2>3. QED
    BY <1>1, <1>5, <2>1, <2>2, Nexts DEF OneInFlight, BuildDiscover, MainAt
<1>6. CASE WriteControlWord
  <2>1. ~disturbed /\ tC = tP /\ tbuf[tP] = Discover /\ tbuf'[tP] = Discover
    BY <1>1, <1>6 DEF OneInFlight, WriteControlWord, MainAt
  <2>2. QED
    BY <1>1, <1>6, <2>1, Nexts DEF OneInFlight, WriteControlWord, MainAt
<1>7. CASE WriteThroughNull
  <2>1. ~disturbed /\ tC = tP
    BY <1>7 DEF OneInFlight, WriteThroughNull, MainAt, txVars
  <2>2. QED
    BY <1>1, <1>7, <2>1, Nexts DEF WriteThroughNull, TxFull
<1>8. CASE DoneProcess
  BY <1>1, <1>8, Nexts DEF OneInFlight, DoneProcess, MainAt, TxFull
<1>9. CASE EmitDiscover
  <2>1. /\ ~disturbed /\ txd = TxInc(tP) /\ tC = tP /\ tbuf[tC] = Discover /\ Len(wire) = Len(built)
    BY <1>1, <1>9, Nexts DEF OneInFlight, EmitDiscover, MainAt
  <2>2. /\ Len(built') = Len(built) + 1 /\ built'[Len(built) + 1] = Discover
        /\ \A k \in 1 .. Len(built) : built'[k] = built[k]
    BY <1>1, <1>9 DEF EmitDiscover, Sent
  <2>3. QED
    BY <1>1, <1>9, <2>1, <2>2 DEF OneInFlight, EmitDiscover, MainAt
<1>10. CASE SendRequest
  <2>1. ~disturbed /\ tC = tP /\ main \notin Emitting /\ Len(wire) = Len(built)
    BY <1>1, <1>10, Nexts DEF OneInFlight, SendRequest
  <2>2. /\ Len(built') = Len(built) + 1 /\ built'[Len(built) + 1] = RequestFor(offer)
        /\ \A k \in 1 .. Len(built) : built'[k] = built[k]
    <3>1. RequestFor(offer) \in Sent
      BY DEF Typed, Sent
    <3>2. QED
      BY <1>1, <1>10, <3>1 DEF SendRequest
  <2>3. tbuf'[tC] = RequestFor(offer)
    BY <1>1, <1>10, <2>1 DEF SendRequest, Fill
  <2>4. QED
    BY <1>1, <1>10, <2>1, <2>2, <2>3 DEF OneInFlight, SendRequest, Emitting
<1>11. CASE MacTransmit
  <2>1. /\ ~disturbed /\ tC # tP /\ tP = TxInc(tC) /\ Len(wire) + 1 = Len(built)
        /\ tbuf[tC] = built[Len(built)] /\ tC' = tP
    BY <1>1, <1>11 DEF OneInFlight, MacTransmit
  <2>2. /\ Len(wire') = Len(wire) + 1 /\ wire'[Len(wire) + 1] = tbuf[tC]
        /\ \A k \in 1 .. Len(wire) : wire'[k] = wire[k]
    BY <1>1, <1>11 DEF MacTransmit, Typed
  <2>3. \A k \in 1 .. Len(wire') : wire'[k] = built[k]
    BY <1>1, <2>1, <2>2 DEF OneInFlight
  <2>4. QED
    BY <1>1, <1>11, <2>1, <2>2, <2>3 DEF OneInFlight, MacTransmit
<1>12. QED
  BY <1>2, <1>3, <1>4, <1>5, <1>6, <1>7, <1>8, <1>9, <1>10, <1>11, OthersLeaveTheRing

\* What was genuine stays so: a server forgets nothing.
LEMMA GenuineStays ==
  ASSUME Typed, NEW f, Genuine(f), \A s \in Servers : seen[s] \subseteq seen'[s]
  PROVE  Genuine(f)'
BY DEF Genuine

LEMMA SeenGrows ==
  ASSUME Typed, [NextDhcp]_dhcpVars
  PROVE  \A s \in Servers : seen[s] \subseteq seen'[s]
<1>1. CASE seen' = seen
  BY <1>1
<1>2. ASSUME NEW s \in Servers, NEW k \in 1 .. Len(wire), Reaches(s, k)
      PROVE  \A t \in Servers : seen[t] \subseteq seen'[t]
  BY <1>2 DEF Reaches, Typed
<1>3. CASE Lose
  BY <1>1, <1>2, <1>3 DEF Lose
<1>4. ASSUME NEW s \in Servers, Serve(s)
      PROVE  \A t \in Servers : seen[t] \subseteq seen'[t]
  BY <1>2, <1>4 DEF Serve
<1>5. QED
  BY <1>1, <1>3, <1>4
     DEF NextDhcp, Main, Install, SetCallback, GetTxBuffer, BuildDiscover, WriteControlWord,
         WriteThroughNull, DoneProcess, EmitDiscover, Handling, Handle, PacketIn, SendRequest,
         MacTransmit, Arrive, Publish, netVars, dhcpVars

LEMMA AllGenuineInd == Typed /\ AllGenuine /\ [NextDhcp]_dhcpVars => AllGenuine'
<1> SUFFICES ASSUME Typed, AllGenuine, [NextDhcp]_dhcpVars PROVE AllGenuine'
  OBVIOUS
<1>1. ASSUME NEW f, Genuine(f) PROVE Genuine(f)'
  BY <1>1, GenuineStays, SeenGrows
<1>2. /\ \A f \in air : Genuine(f)'
      /\ \A i \in Slots : Genuine(buf[i])
      /\ Genuine(dma) /\ Genuine(lease)
      /\ Genuine(NoFrame)
  BY <1>1 DEF AllGenuine, Genuine
<1>3. CASE UNCHANGED <<air, dma, buf, lease>>
  BY <1>1, <1>2, <1>3 DEF AllGenuine
<1>4. CASE PacketIn
  <2>1. /\ UNCHANGED <<air, dma, buf>> /\ buf[d] \in {buf[i] : i \in Slots}
        /\ \/ lease' = lease
           \/ lease' = buf[d] /\ buf[d].kind = "ack"
    BY <1>4 DEF PacketIn, Process, netVars, IsDhcp, Typed
  <2>2. PICK g : g = lease' /\ g \in {lease, buf[d]}
    BY <2>1
  <2>3. Genuine(g)' /\ (g # NoFrame => g.kind = "ack")
    BY <1>1, <1>2, <2>1, <2>2 DEF AllGenuine
  <2>4. Genuine(lease)' /\ (lease' # NoFrame => lease'.kind = "ack")
    BY <2>2, <2>3 DEF Genuine
  <2>5. QED
    BY <1>1, <1>2, <2>1, <2>4 DEF AllGenuine
<1>5. CASE Arrive
  <2>1. /\ dma' \in air /\ air' \subseteq air /\ UNCHANGED lease
        /\ \A i \in Slots : buf'[i] = NoFrame
    BY <1>5 DEF Arrive
  <2>2. QED
    BY <1>1, <1>2, <2>1 DEF AllGenuine
<1>6. CASE Publish
  <2>1. /\ dma' = NoFrame /\ UNCHANGED <<air, lease>>
        /\ \A i \in Slots : buf'[i] = dma \/ buf'[i] = buf[i]
    BY <1>6 DEF Publish, MacPublishIrq, MacPublish, netVars, Typed
  <2>2. QED
    BY <1>1, <1>2, <2>1 DEF AllGenuine
<1>7. CASE Lose
  <2>1. air' \subseteq air /\ UNCHANGED <<dma, buf, lease>>
    BY <1>7 DEF Lose, irqVars, ringVars
  <2>2. QED
    BY <1>1, <1>2, <2>1 DEF AllGenuine
<1>8. ASSUME NEW s \in Servers, Serve(s)
      PROVE  AllGenuine'
  <2>1. PICK k \in 1 .. Len(wire) : Reaches(s, k) /\ air' = air \union AnswerOf(s, wire[k])
    BY <1>8 DEF Serve
  <2>2. UNCHANGED <<dma, buf, lease>>
    BY <1>8 DEF Serve, irqVars, ringVars
  <2>3. wire[k] \in seen'[s]
    BY <2>1 DEF Reaches, Typed
  <2>4. ASSUME NEW f \in AnswerOf(s, wire[k])
        PROVE  Genuine(f)'
    <3>1. CASE wire[k] = Discover
      BY <2>4, <3>1 DEF AnswerOf, Genuine, Discover, Packet
    <3>2. CASE wire[k] # Discover
      <4>1. wire[k] = Packet("request", s, "me") /\ f = Packet("ack", s, "me")
        BY <2>4, <3>2 DEF AnswerOf
      <4>2. QED
        BY <2>3, <4>1 DEF Genuine
    <3>3. QED
      BY <3>1, <3>2
  <2>5. QED
    BY <1>1, <1>2, <2>1, <2>2, <2>4 DEF AllGenuine
<1>9. QED
  BY <1>3, <1>4, <1>5, <1>6, <1>7, <1>8
     DEF NextDhcp, Main, Install, SetCallback, GetTxBuffer, BuildDiscover, WriteControlWord,
         WriteThroughNull, DoneProcess, EmitDiscover, Handling, Handle, Enter, TestStatus,
         LeaveLoop, ReadStatus, ClearStatus, Get, Done, SendRequest,
         MacTransmit, netVars, irqVars, ringVars, dhcpVars

\* The last offer read is the one in hand, and requests are as many as the offers answered.
LEMMA InHandInd ==
  ASSUME Typed, InHand, RequestsAnswerOffers, [NextDhcp]_dhcpVars
  PROVE  InHand' /\ RequestsAnswerOffers'
<1>1. /\ Len(processed) \in Nat /\ Len(built) \in Nat
      /\ processed \in Seq(Possible \union {NoFrame}) /\ built \in Seq(Sent)
      /\ Offers \in SUBSET (1 .. Len(processed)) /\ Requests \in SUBSET (1 .. Len(built))
  BY DEF Typed, Offers, Requests
<1>2. /\ Cardinality(Offers) \in Nat /\ Cardinality(Requests) \in Nat
      /\ \A k \in Nat : After(Offers, k) \in Nat /\ After(Requests, k) \in Nat
      /\ Cardinality({}) = 0
  BY <1>1, PlacesAreFinite, FS_EmptySet
<1>3. CASE UNCHANGED <<processed, built, offer>> /\ (Called' <=> Called) /\ (offer # NoFrame => pc' = pc)
  <2>1. Offers' = Offers /\ Requests' = Requests
    BY <1>3 DEF Offers, Requests
  <2>2. InHand'
    BY <1>3, <2>1 DEF InHand, After
  <2>3. RequestsAnswerOffers'
    BY <1>3, <2>1 DEF RequestsAnswerOffers, After
  <2>4. QED
    BY <2>2, <2>3
<1>4. CASE SetCallback
  <2>1. Requests' = {} /\ offer' = NoFrame /\ Offers' = Offers
    BY <1>4 DEF SetCallback, MainAt, InHand, Called, Requests, Offers, irqVars, ringVars, txVars
  <2>2. InHand'
    BY <1>4, <2>1 DEF InHand, SetCallback, MainAt, Called
  <2>3. RequestsAnswerOffers'
    BY <1>2, <2>1 DEF RequestsAnswerOffers
  <2>4. QED
    BY <2>2, <2>3
<1>5. CASE EmitDiscover
  <2>1. /\ Len(built') = Len(built) + 1 /\ built'[Len(built) + 1] = Discover
        /\ \A k \in 1 .. Len(built) : built'[k] = built[k]
    BY <1>1, <1>5 DEF EmitDiscover, Sent
  <2>2. Requests' = Requests
    BY <1>1, <2>1 DEF Requests, Discover, Packet
  <2>3. Offers' = Offers /\ offer' = offer /\ pc' = pc /\ processed' = processed /\ Called' = Called
    BY <1>5 DEF EmitDiscover, MainAt, Offers, Called, irqVars, ringVars
  <2>4. InHand'
    BY <2>2, <2>3 DEF InHand, After
  <2>5. RequestsAnswerOffers'
    BY <1>1, <2>1, <2>2, <2>3 DEF RequestsAnswerOffers, After
  <2>6. QED
    BY <2>4, <2>5
<1>6. CASE SendRequest
  <2> DEFINE m == Len(built)
  <2>1. Called /\ offer # NoFrame /\ offer' = NoFrame /\ Called' /\ UNCHANGED <<processed, pc>>
    BY <1>6 DEF SendRequest, InHand, Called, irqVars, ringVars
  <2>2. /\ Len(built') = m + 1 /\ built'[m + 1] = RequestFor(offer)
        /\ \A k \in 1 .. m : built'[k] = built[k]
    <3>1. RequestFor(offer) \in Sent
      BY DEF Typed, Sent
    <3>2. QED
      BY <1>1, <1>6, <3>1 DEF SendRequest
  <2>3. Requests' = Requests \union {m + 1}
    BY <1>1, <2>2 DEF Requests, RequestFor, Packet
  <2>4. Offers' = Offers
    BY <2>1 DEF Offers
  <2>5. /\ Cardinality(Requests \union {m + 1}) = Cardinality(Requests) + 1
        /\ After(Requests \union {m + 1}, m + 1) = 0
        /\ \A k \in 1 .. m : After(Requests \union {m + 1}, k) = After(Requests, k) + 1
    BY <1>1, OneMorePlace
  <2>6. ASSUME NEW r \in Requests \union {m + 1}, NEW o \in Offers,
               After(Requests \union {m + 1}, r) + 0 = After(Offers, o)
        PROVE  built'[r].server = processed[o].server /\ built'[r].to = processed[o].to
    <3>1. CASE r = m + 1
      BY <2>1, <2>2, <2>5, <2>6, <3>1 DEF InHand, RequestFor, Packet
    <3>2. CASE r \in Requests
      <4>1. r \in 1 .. m /\ After(Requests, r) + 1 = After(Offers, o)
        <5>1. r \in 1 .. m /\ After(Requests, r) \in Nat
          BY <1>1, <1>2, <3>2
        <5>2. After(Requests \union {m + 1}, r) = After(Requests, r) + 1
          BY <2>5, <5>1
        <5>3. QED
          BY <2>6, <5>1, <5>2
      <4>2. built[r].server = processed[o].server /\ built[r].to = processed[o].to
        BY <2>1, <3>2, <4>1 DEF RequestsAnswerOffers
      <4>3. QED
        BY <2>2, <4>1, <4>2
    <3>3. QED
      BY <3>1, <3>2
  <2>7. Cardinality(Requests) + 1 <= Cardinality(Offers)
    BY <2>1 DEF RequestsAnswerOffers
  <2>8. RequestsAnswerOffers'
    <3>1. Cardinality(Requests') + 0 <= Cardinality(Offers')
      BY <1>2, <2>3, <2>4, <2>5, <2>7
    <3>2. \A r \in Requests', o \in Offers' :
            After(Requests', r) + 0 = After(Offers', o) =>
              built'[r].server = processed'[o].server /\ built'[r].to = processed'[o].to
      BY <2>1, <2>3, <2>4, <2>6
    <3>3. QED
      BY <2>1, <3>1, <3>2 DEF RequestsAnswerOffers
  <2>9. QED
    BY <2>1, <2>8 DEF InHand
<1>7. CASE PacketIn
  <2> DEFINE m == Len(processed)
  <2>1. /\ offer = NoFrame /\ pc' = "done" /\ built' = built /\ Called' = Called
        /\ processed' = Append(processed, buf[d])
        /\ offer' = IF Called /\ IsDhcp(buf[d], "offer") THEN buf[d] ELSE NoFrame
    BY <1>7 DEF PacketIn, Process, InHand, Called, txVars
  <2>2. /\ Len(processed') = m + 1 /\ processed'[m + 1] = buf[d]
        /\ \A k \in 1 .. m : processed'[k] = processed[k]
    BY <1>1, <2>1 DEF Typed
  <2>3. Requests' = Requests
    BY <2>1 DEF Requests
  <2>4. CASE ~IsDhcp(buf[d], "offer")
    <3>1. Offers' = Offers
      BY <1>1, <2>2, <2>4 DEF Offers, IsDhcp
    <3>2. offer' = NoFrame
      BY <2>1, <2>4
    <3>3. \A o \in Offers : processed'[o] = processed[o]
      BY <1>1, <2>2
    <3>4. InHand'
      BY <2>1, <2>3, <3>2 DEF InHand
    <3>5. RequestsAnswerOffers'
      <4>1. Called' => Cardinality(Requests') + 0 <= Cardinality(Offers')
        BY <2>1, <2>3, <3>1 DEF RequestsAnswerOffers
      <4>2. Called' => \A r \in Requests', o \in Offers' :
                         After(Requests', r) + 0 = After(Offers', o) =>
                           /\ built'[r].server = processed'[o].server
                           /\ built'[r].to = processed'[o].to
        <5>1. Called => \A r \in Requests, o \in Offers :
                          After(Requests, r) + 0 = After(Offers, o) =>
                            built[r].server = processed[o].server /\ built[r].to = processed[o].to
          BY <2>1 DEF RequestsAnswerOffers
        <5>2. SUFFICES ASSUME Called', NEW r \in Requests', NEW o \in Offers',
                              After(Requests', r) + 0 = After(Offers', o)
                       PROVE  built'[r].server = processed'[o].server /\ built'[r].to = processed'[o].to
          OBVIOUS
        <5>3. /\ Called /\ r \in Requests /\ o \in Offers /\ processed'[o] = processed[o]
              /\ After(Requests, r) + 0 = After(Offers, o)
          BY <2>1, <2>3, <3>1, <3>3, <5>2
        <5>4. QED
          BY <2>1, <5>1, <5>3
      <4>3. QED
        BY <3>2, <4>1, <4>2 DEF RequestsAnswerOffers
    <3>6. QED
      BY <3>4, <3>5
  <2>5. CASE IsDhcp(buf[d], "offer") /\ ~Called
    BY <2>1, <2>3, <2>5 DEF InHand, RequestsAnswerOffers
  <2>6. CASE IsDhcp(buf[d], "offer") /\ Called
    <3>1. Offers' = Offers \union {m + 1}
      BY <1>1, <2>2, <2>6 DEF Offers, IsDhcp
    <3>2. /\ Cardinality(Offers \union {m + 1}) = Cardinality(Offers) + 1
          /\ After(Offers \union {m + 1}, m + 1) = 0
          /\ \A k \in 1 .. m : After(Offers \union {m + 1}, k) = After(Offers, k) + 1
      BY <1>1, OneMorePlace
    <3>3. offer' = buf[d] /\ offer' # NoFrame
      BY <2>1, <2>6 DEF IsDhcp
    <3>4. InHand'
      <4>1. \A o \in Offers \union {m + 1} : After(Offers \union {m + 1}, o) = 0 => o = m + 1
        <5>1. SUFFICES ASSUME NEW o \in Offers, o # m + 1
                       PROVE  After(Offers \union {m + 1}, o) # 0
          OBVIOUS
        <5>2. o \in 1 .. m
          BY <1>1, <1>2, <5>1
        <5>3. After(Offers, o) \in Nat
          <6>1. Offers \in SUBSET (1 .. m) /\ m \in Nat /\ o \in Nat
            BY <1>1, <5>2
          <6>2. QED
            BY <6>1, PlacesAreFinite
        <5>4. After(Offers \union {m + 1}, o) = After(Offers, o) + 1
          BY <3>2, <5>2
        <5>5. QED
          BY <5>3, <5>4
      <4>2. QED
        BY <2>1, <2>2, <2>6, <3>1, <3>3, <4>1 DEF InHand, After
    <3>5. ASSUME NEW r \in Requests, NEW o \in Offers \union {m + 1},
                 After(Requests, r) + 1 = After(Offers \union {m + 1}, o)
          PROVE  built[r].server = processed'[o].server /\ built[r].to = processed'[o].to
      <4>1. o # m + 1 /\ o \in Offers /\ After(Requests, r) = After(Offers, o)
        <5>1. After(Requests, r) \in Nat
          BY <1>1, <1>2
        <5>2. o # m + 1
          BY <3>2, <3>5, <5>1
        <5>3. o \in Offers /\ o \in 1 .. m /\ After(Offers, o) \in Nat
          BY <1>1, <1>2, <5>2
        <5>4. QED
          BY <3>2, <3>5, <5>1, <5>2, <5>3
      <4>2. processed'[o] = processed[o]
        BY <1>1, <2>2, <4>1
      <4>3. built[r].server = processed[o].server /\ built[r].to = processed[o].to
        <5>1. After(Requests, r) + 0 = After(Offers, o)
          BY <1>1, <1>2, <4>1
        <5>2. QED
          BY <2>1, <2>6, <4>1, <5>1 DEF RequestsAnswerOffers
      <4>4. QED
        BY <4>2, <4>3
    <3>6. Cardinality(Requests) + 1 <= Cardinality(Offers) + 1
      BY <1>2, <2>1, <2>6 DEF RequestsAnswerOffers
    <3>7. RequestsAnswerOffers'
      BY <2>1, <2>3, <3>1, <3>2, <3>3, <3>5, <3>6 DEF RequestsAnswerOffers, After
    <3>8. QED
      BY <3>4, <3>7
  <2>7. QED
    BY <2>4, <2>5, <2>6
<1>8. QED
  <2>1. CASE \/ Install \/ GetTxBuffer \/ BuildDiscover
             \/ WriteControlWord \/ WriteThroughNull \/ DoneProcess
    BY <1>3, <2>1 DEF Install, GetTxBuffer, BuildDiscover, WriteControlWord, WriteThroughNull,
                      DoneProcess, MainAt, Called, irqVars, ringVars, txVars
  <2>2. CASE Handle
    BY <1>3, <2>2 DEF Handle, Enter, TestStatus, LeaveLoop, ReadStatus, ClearStatus, Get, Done, InHand,
                      Called, ringVars, txVars
  <2>3. CASE MacTransmit \/ Arrive \/ Publish
    BY <1>3, <2>3 DEF MacTransmit, Arrive, Publish, MacPublishIrq, MacPublish, Called, irqVars, ringVars,
                      txVars
  <2>4. CASE Lose \/ (\E s \in Servers : Serve(s)) \/ UNCHANGED dhcpVars
    BY <1>3, <2>4 DEF Lose, Serve, Called, irqVars, ringVars, txVars, dhcpVars
  <2>5. QED
    BY <1>4, <1>5, <1>6, <1>7, <2>1, <2>2, <2>3, <2>4 DEF NextDhcp, Main, Handling

-----------------------------------------------------------------------------
(***************************************************************************)
(* The theorems                                                            *)
(***************************************************************************)

LEMMA Invariance == SpecDhcp => []IndInv
<1>1. IndInv /\ [NextDhcp]_dhcpVars => IndInv'
  BY NextTyped, QuietInd, OneInFlightInd, AllGenuineInd, InHandInd DEF IndInv
<1>2. QED
  BY <1>1, InitInd, PTL DEF SpecDhcp

\* No interrupt is taken before the receive ring is installed, though it is enabled; one
\* may be before the callback is set, and then no frame is looked at or answered
\* (simple_net.c:51, 90-99).
THEOREM NoInterruptTooSoon == SpecDhcp => []HandlerFindsARing
<1>1. IndInv => HandlerFindsARing
  BY DEF IndInv, Quiet, HandlerFindsARing
<1>2. QED
  BY <1>1, Invariance, PTL

\* While no packet was built over one that waits, or between the two calls of main(),
\* what is sent is what was built, in order (simple_net.c:109-129).
THEOREM BuiltIsSent == SpecDhcp => []SentAsBuilt
<1>1. IndInv => SentAsBuilt
  <2>1. Typed => Len(wire) \in Nat /\ Len(built) \in Nat
    BY DEF Typed
  <2>2. QED
    BY <2>1 DEF IndInv, OneInFlight, SentAsBuilt
<1>2. QED
  BY <1>1, Invariance, PTL

\* Each request answers an offer read, in order and once, and an address that is
\* printed was committed to this client by its server (dhcp/main.c:166-238).
THEOREM OrderOfExchange == SpecDhcp => []ExchangeInOrder
<1>1. IndInv => ExchangeInOrder
  <2> SUFFICES ASSUME IndInv, lease # NoFrame, lease \notin Foreign
               PROVE  Packet("request", lease.server, "me") \in seen[lease.server]
    BY DEF IndInv, ExchangeInOrder, LeaseIsCommitted
  <2>1. Genuine(lease) /\ lease.kind = "ack"
    BY DEF IndInv, AllGenuine
  <2>2. \A s : Packet("offer", s, "me").kind # "ack" /\ Packet("ack", s, "me").server = s
    BY DEF Packet
  <2>3. QED
    BY <2>1, <2>2 DEF Genuine
<1>2. QED
  BY <1>1, Invariance, PTL
=============================================================================
