-------------------------------- MODULE Dhcp --------------------------------
(***************************************************************************)
(* The client of samples/dhcp: main.c over simple_net.c, between servers   *)
(* and a network that loses, repeats and reorders.                         *)
(*                                                                         *)
(* Frames are received by the handler of EthRxIrq, which calls packet_in().*)
(* They are sent by main(), which sends the discover, and by the handler,  *)
(* which sends a request for each offer: simple_net_get_tx_buffer(), the   *)
(* writing of the packet, and in simple_net_emit_buffer() the control      *)
(* word, the test of the ring and the writing of TxProduceIndex are five   *)
(* steps of main(), between which the handler may run.  The test for a     *)
(* free descriptor is one step here; EthTx takes it apart.                 *)
(*                                                                         *)
(* rxbuffers[RX_BUFFER_SIZE][RX_BUFFER_COUNT] is indexed by descriptor:    *)
(* buffers lie 8 bytes apart, so a frame written in one spoils the frames  *)
(* in all the others, and so for txbuffers.  A spoilt frame is NoFrame;    *)
(* none of its headers being at its place, packet_in() drops it.           *)
(***************************************************************************)
EXTENDS EthRxIrq, FiniteSets

CONSTANTS
  TxN,        \* TX_BUFFER_COUNT
  Servers,
  Foreign,    \* frames for other clients that may be on the network
  MaxFaults   \* bound: how many frames are lost, repeated or meant for other clients

\* The driver needs a free descriptor beside the one it fills.
ASSUME TxAssumption == TxN \in Nat /\ TxN > 1

\* A packet for the client, the only one of to = "me".  An address is known by the
\* server that leases it and the client it is for; neither is looked at.
Packet(kind, server, to) == [kind |-> kind, server |-> server, to |-> to]

Discover == Packet("discover", "any", "me")

VARIABLES
  main,       \* where main() is
  rxOn,       \* RX_ENABLE of Command and RECEIVE_ENABLE of MAC1
  txd,        \* the buffer main() was given; then what it will write to TxProduceIndex
  tP, tC,     \* TxProduceIndex, TxConsumeIndex
  tbuf,       \* what is in buffer i
  offer,      \* the offer the handler is answering, or NoFrame
  lease,      \* the acknowledgement last printed, or NoFrame
  built,      \* history: every packet built, in the order of emission
  wire,       \* history: every frame sent
  disturbed,  \* history: a packet was built over one not yet sent
  air,        \* frames on their way to the client
  seen,       \* the packets each server has answered, or will never get
  faults,     \* see MaxFaults
  lost        \* history: a frame was lost

txVars   == <<txd, tP, tC, tbuf, built, wire, disturbed>>
netVars  == <<air, seen, faults, lost>>
dhcpVars == <<irqVars, txVars, netVars, main, rxOn, offer, lease>>

TxSlots == 0 .. (TxN - 1)

TxInc(i) == IF i = TxN - 1 THEN 0 ELSE i + 1

-----------------------------------------------------------------------------
(* simple_net.c *)

\* Mutant: rflpc_eth_init() turns the receiver on.
ReceiverOnFromInit == TRUE

\* Neither the reset of the MAC nor what rflpc_eth_init() writes to Command and
\* MAC1 turns the receiver on.
ReceiverOnAfterInit == FALSE

InitDhcp ==
  /\ InitIrq
  /\ P = 0
  /\ main = "install"
  /\ rxOn = ReceiverOnAfterInit
  /\ txd = 0 /\ tP = 0 /\ tC = 0
  /\ tbuf = [i \in TxSlots |-> NoFrame]
  /\ offer = NoFrame
  /\ lease = NoFrame
  /\ built = << >> /\ wire = << >> /\ disturbed = FALSE
  /\ air \in {F \in SUBSET Foreign : Cardinality(F) <= MaxFaults}
  /\ seen = [s \in Servers |-> {}]
  /\ faults = Cardinality(air) /\ lost = FALSE

\* main() runs when no handler does.
MainAt(here, next) == isr = "main" /\ main = here /\ main' = next

\* simple_net_ethernet_init() has enabled the interrupt; it now installs the
\* descriptors, which turns the receiver on.
Install ==
  /\ MainAt("install", "callback")
  /\ rxOn' = TRUE
  /\ UNCHANGED <<irqVars, txVars, netVars, offer, lease>>

\* simple_net_set_rx_callback()
SetCallback ==
  /\ MainAt("callback", "get")
  /\ UNCHANGED <<irqVars, txVars, netVars, rxOn, offer, lease>>

TxFull == TxInc(tP) = tC

Fill(i, packet) == [j \in TxSlots |-> IF j = i THEN packet ELSE NoFrame]

\* Mutant: the second free descriptor is asked for.
GetSecondBuffer ==
  /\ MainAt("get", "fill")
  /\ ~TxFull
  /\ txd' = TxInc(tP)
  /\ UNCHANGED <<irqVars, netVars, tP, tC, tbuf, built, wire, disturbed, rxOn, offer, lease>>

\* simple_net_get_tx_buffer(), which waits while the ring is full
GetTxBuffer ==
  /\ MainAt("get", "fill")
  /\ ~TxFull
  /\ txd' = tP
  /\ UNCHANGED <<irqVars, netVars, tP, tC, tbuf, built, wire, disturbed, rxOn, offer, lease>>

\* If the handler has sent from this buffer meanwhile, what is left there is the
\* packet of main() or a mixture of both.
BuildDiscover ==
  /\ MainAt("fill", "emit")
  /\ \E packet \in {Discover} \union (IF tP = txd THEN {} ELSE {NoFrame}) :
       tbuf' = Fill(txd, packet)
  /\ disturbed' = (disturbed \/ tC # tP)
  /\ UNCHANGED <<irqVars, netVars, txd, tP, tC, built, wire, rxOn, offer, lease>>

\* simple_net_emit_buffer() asks for the current descriptor, whichever it is by now, and
\* writes six bytes of its buffer, which are in the middle of the buffers before it, and
\* its control word.
WriteControlWord ==
  /\ MainAt("emit", "hand")
  /\ ~TxFull
  /\ tbuf' = [j \in TxSlots |-> IF j < tP THEN NoFrame ELSE tbuf[j]]
  /\ UNCHANGED <<irqVars, netVars, txd, tP, tC, built, wire, disturbed, rxOn, offer, lease>>

\* It does not look at the answer: when the ring is full the descriptor is NULL, and the
\* stores go where address 0 leads.  Either they have no effect, or they fault and the
\* handler of the fault never returns.
WriteThroughNull ==
  /\ MainAt("emit", "hand") \/ MainAt("emit", "stopped")
  /\ TxFull
  /\ UNCHANGED <<irqVars, netVars, txVars, rxOn, offer, lease>>

\* rflpc_eth_done_process_tx_packet() returns when the ring is full, and the discover is
\* dropped; otherwise it reads TxProduceIndex ...
DoneProcess ==
  /\ IF TxFull THEN MainAt("hand", "loop") /\ UNCHANGED txd
               ELSE MainAt("hand", "write") /\ txd' = TxInc(tP)
  /\ UNCHANGED <<irqVars, netVars, tP, tC, tbuf, built, wire, disturbed, rxOn, offer, lease>>

\* ... and writes it, whatever the handler has made of it meanwhile.
EmitDiscover ==
  /\ MainAt("write", "loop")
  /\ tP' = txd
  /\ built' = Append(built, Discover)
  /\ UNCHANGED <<irqVars, netVars, txd, tC, tbuf, wire, disturbed, rxOn, offer, lease>>

MacTransmit ==
  /\ tC # tP
  /\ wire' = Append(wire, tbuf[tC])
  /\ tC' = TxInc(tC)
  /\ UNCHANGED <<irqVars, netVars, txd, tP, tbuf, built, disturbed, main, rxOn, offer, lease>>

-----------------------------------------------------------------------------
(* packet_in(), called by the handler *)

\* The steps of the handler that are those of EthRxIrq; a frame is given back
\* once it is answered.  No interrupt is taken in the handler of a fault.
Handle ==
  /\ main # "stopped"
  /\ \/ Enter \/ TestStatus \/ LeaveLoop \/ ReadStatus \/ ClearStatus
     \/ isr = "loop" /\ Get /\ UNCHANGED <<rxDone, isr, status, left, back>>
     \/ isr = "loop" /\ offer = NoFrame /\ Done /\ UNCHANGED <<rxDone, isr, status, left, back>>
  /\ UNCHANGED <<txVars, netVars, main, rxOn, offer, lease>>

IsDhcp(f, kind) == f # NoFrame /\ f.kind = kind

\* eth_handler() tests the callback; dhcp_process_packet() knows two types.
Called == main \notin {"install", "callback"}

PacketIn ==
  /\ isr = "loop"
  /\ Process
  /\ offer' = IF Called /\ IsDhcp(buf[d], "offer") THEN buf[d] ELSE NoFrame
  /\ lease' = IF Called /\ IsDhcp(buf[d], "ack") THEN buf[d] ELSE lease
  /\ UNCHANGED <<rxDone, isr, status, left, back, txVars, netVars, main, rxOn>>

\* Mutant: the address asked for is not the one offered.
RequestForMe(o) == Packet("request", o.server, "me")

\* Mutant: the server identifier of the offer is not found among its options.
RequestForAny(o) == Packet("request", "any", o.to)

\* dhcp_request(): server and address are those of the offer
RequestFor(o) == Packet("request", o.server, o.to)

\* main() is between get_tx_buffer() and the end of emit_buffer().
Emitting == {"fill", "emit", "hand", "write"}

SendRequest ==
  /\ isr = "loop"
  /\ offer # NoFrame
  /\ ~TxFull
  /\ tbuf' = Fill(tP, RequestFor(offer))
  /\ tP' = TxInc(tP)
  /\ built' = Append(built, RequestFor(offer))
  /\ disturbed' = (disturbed \/ tC # tP \/ main \in Emitting)
  /\ offer' = NoFrame
  /\ UNCHANGED <<irqVars, netVars, txd, tC, wire, main, rxOn, lease>>

-----------------------------------------------------------------------------
(* The network and the servers *)

\* A frame reaches the receive ring; the network may repeat it.
Arrive ==
  /\ rxOn
  /\ dma = NoFrame
  /\ C # (IF P = N - 1 THEN 0 ELSE P + 1)
  /\ Len(received) < MaxFrames
  /\ dma' \in air
  /\ buf' = [i \in Slots |-> NoFrame]
  /\ \/ air' = air \ {dma'} /\ UNCHANGED faults
     \/ faults < MaxFaults /\ faults' = faults + 1 /\ UNCHANGED air
  /\ UNCHANGED <<P, C, pc, d, received, processed, rxDone, isr, status, left, back,
                 txVars, seen, lost, main, rxOn, offer, lease>>

Publish == MacPublishIrq /\ UNCHANGED <<txVars, netVars, main, rxOn, offer, lease>>

\* A server offers an address to who discovers, and commits the address it is
\* asked for; what is for another server, or for another client, it ignores.
AnswerOf(s, p) ==
  CASE p = Discover -> {Packet("offer", s, "me")}
    [] p = Packet("request", s, "me") -> {Packet("ack", s, "me")}
    [] OTHER -> {}

Reaches(s, k) ==
  /\ wire[k] # NoFrame
  /\ wire[k] \notin seen[s]
  /\ AnswerOf(s, wire[k]) # {}
  /\ seen' = [seen EXCEPT ![s] = @ \union {wire[k]}]

Serve(s) ==
  /\ \E k \in 1 .. Len(wire) : Reaches(s, k) /\ air' = air \union AnswerOf(s, wire[k])
  /\ UNCHANGED <<irqVars, txVars, faults, lost, main, rxOn, offer, lease>>

\* A frame is lost on its way to the client, or to a server.
Lose ==
  /\ faults < MaxFaults
  /\ faults' = faults + 1
  /\ lost' = TRUE
  /\ \/ \E f \in air : air' = air \ {f} /\ UNCHANGED seen
     \/ \E s \in Servers, k \in 1 .. Len(wire) : Reaches(s, k) /\ UNCHANGED air
  /\ UNCHANGED <<irqVars, txVars, main, rxOn, offer, lease>>

-----------------------------------------------------------------------------
Main ==
  \/ Install \/ SetCallback \/ GetTxBuffer \/ BuildDiscover
  \/ WriteControlWord \/ WriteThroughNull \/ DoneProcess \/ EmitDiscover

Handling == Handle \/ PacketIn \/ SendRequest

NextDhcp == Main \/ Handling \/ MacTransmit \/ Arrive \/ Publish \/ Lose \/ \E s \in Servers : Serve(s)

SpecDhcp == InitDhcp /\ [][NextDhcp]_dhcpVars

\* The processor runs, the MAC sends and receives, servers answer what reaches
\* them.  Nothing is lost or repeated of necessity.
FairSpecDhcp ==
  /\ SpecDhcp
  /\ WF_dhcpVars(Main) /\ WF_dhcpVars(Handling)
  /\ WF_dhcpVars(MacTransmit) /\ WF_dhcpVars(Arrive) /\ WF_dhcpVars(Publish)
  /\ \A s \in Servers : WF_dhcpVars(Serve(s))

-----------------------------------------------------------------------------
(***************************************************************************)
(* Properties                                                              *)
(***************************************************************************)

\* The handler is enabled before the descriptors are installed and before the callback
\* is set.  It never runs on a ring that is not set up, the receiver being off till
\* then; it may run without a callback, and then nothing is read, answered or believed
\* (simple_net.c:51, 90-99, dhcp/main.c:289-292, ethernet.c:102-144, 306-320).
HandlerFindsARing ==
  /\ isr # "main" => main # "install"
  /\ ~Called => offer = NoFrame /\ lease = NoFrame /\ built = << >>

\* Every frame sent is the packet that was built, unless a packet was built while
\* another was not yet sent, or the handler sent between get_tx_buffer() and
\* emit_buffer() of main(): only then may a frame be spoilt or dropped, or another one
\* take its place (simple_net.c:109-129).
SentAsBuilt ==
  ~disturbed => /\ Len(wire) <= Len(built)
                /\ \A k \in 1 .. Len(wire) : wire[k] = built[k]

\* Where the offers are among the frames read, and the requests among the packets built.
Offers   == {k \in 1 .. Len(processed) : IsDhcp(processed[k], "offer")}
Requests == {k \in 1 .. Len(built) : built[k].kind = "request"}

\* How many of the places in S come after place k.
After(S, k) == Cardinality({i \in S : i > k})

\* The requests built answer the offers read, each once, in order, with the server
\* and the address of that same offer, repeated offers and those of other clients
\* included: counted from the last, a request and its offer have the same rank
\* (dhcp/main.c:166-201).
RequestsAnswerOffers ==
  LET unanswered == IF offer = NoFrame THEN 0 ELSE 1
  IN Called =>
       /\ Cardinality(Requests) + unanswered <= Cardinality(Offers)
       /\ \A r \in Requests, o \in Offers :
            After(Requests, r) + unanswered = After(Offers, o) =>
              built[r].server = processed[o].server /\ built[r].to = processed[o].to

\* The address printed as "My ip" is one that the server of that address has
\* committed to this client, unless an acknowledgement meant for another client was
\* received: the transaction is not looked at (dhcp/main.c:203-238).
LeaseIsCommitted ==
  (lease # NoFrame /\ lease \notin Foreign) =>
    Packet("request", lease.server, "me") \in seen[lease.server]

\* The exchange keeps its order whatever is repeated, delayed or meant for others:
\* offer before request before lease, each from the one before (dhcp/main.c:166-238).
ExchangeInOrder == RequestsAnswerOffers /\ LeaseIsCommitted

\* The client gets a lease, unless a frame was lost on the network or spoilt in a
\* buffer, or one is left in the ring without an interrupt: it never asks twice,
\* so nothing less can stop it, and either of these may (dhcp/main.c:282-300).
Stranded == isr = "main" /\ ~rxDone /\ RxAvailable

Spoilt == disturbed \/ \E k \in 1 .. Len(processed) : processed[k] = NoFrame

LeaseUnlessLoss == <>(lease # NoFrame \/ lost \/ Spoilt \/ Stranded)
=============================================================================
