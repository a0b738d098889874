------------------------------ MODULE UdpEcho -------------------------------
(***************************************************************************)
(* The program of samples/simple_udp: the polling loop of EthRx, whose     *)
(* process_packet() answers a request through the ring of EthTx.  The      *)
(* request stays in its receive buffer until the reply is handed over, and *)
(* is read there twice: by the filters, and to address the reply.          *)
(*                                                                         *)
(* The two halves of the MAC and the program take turns at any step.  The  *)
(* serial handler of the program only prints registers and is left out.    *)
(***************************************************************************)
EXTENDS EthRx

CONSTANTS
  TxN,      \* the size of the transmit ring
  Clients,  \* who sends requests: a MAC address, an IP address and a port
  Word,     \* 2^32
  NoFrag    \* see EthTx

VARIABLES tP, tC, tslot, tdma, tpc, tbatch, thanded, twire  \* as in EthTx

txVars == <<tP, tC, tslot, tdma, tpc, tbatch, thanded, twire>>

echoVars == <<ringVars, txVars>>

\* A reply stands for the client it is sent to: "OK" is all it says.
Tx == INSTANCE EthTx WITH
  N <- TxN, Frames <- Clients, MaxBatch <- 1, MaxFrags <- MaxFrames,
  P <- tP, C <- tC, slot <- tslot, dma <- tdma, pc <- tpc, batch <- tbatch,
  handed <- thanded, wire <- twire

Frame == [type : {"IP", "ARP"}, dst : {"me", "other"}, protocol : {"UDP", "ICMP"},
          port : {"echo", "other"}, src : Clients]

\* Both assumptions of EthTx hold of the transmit ring, and what arrives are frames.
ASSUME TxAssumption == Tx!SizeAssumption /\ Tx!NoFragAssumption

ASSUME FramesAssumption == Frames \subseteq Frame

\* The filters of process_packet()
Asks(f) == f.type = "IP" /\ f.dst = "me" /\ f.protocol = "UDP" /\ f.port = "echo"

ReplyTo(f) == [frame |-> f.src, last |-> TRUE]

InitEcho == Init /\ Tx!Init

\* The loop asks for a received frame, or is done with one.
Poll == (Get \/ Done) /\ UNCHANGED txVars

Filtered ==
  /\ pc = "use"
  /\ ~Asks(buf[d])
  /\ Process
  /\ UNCHANGED txVars

AskDescriptor ==
  /\ pc = "use"
  /\ Asks(buf[d])
  /\ Tx!BeginFrame
  /\ UNCHANGED ringVars

TestFull == (Tx!GetTest1 \/ Tx!GetTest2) /\ UNCHANGED ringVars

\* "Send queue full": the request is left unanswered.
QueueFull == Tx!GiveUp /\ Process

BuildReply ==
  /\ Tx!Fill
  /\ tslot'[tP] = ReplyTo(buf[d])
  /\ UNCHANGED ringVars

\* done_process_tx_packet(1) ends process_packet()
HandOver ==
  /\ Tx!DoneTest1 \/ Tx!DoneTest2 \/ Tx!DonePublish
  /\ IF tpc' = "idle" THEN Process ELSE UNCHANGED ringVars

Main == Poll \/ Filtered \/ AskDescriptor \/ TestFull \/ QueueFull \/ BuildReply \/ HandOver

MacReceive == (MacWrite \/ MacPublish) /\ UNCHANGED txVars
MacSend    == Tx!Mac /\ UNCHANGED ringVars

NextEcho == Main \/ MacReceive \/ MacSend

SpecEcho == InitEcho /\ [][NextEcho]_echoVars

\* main() runs on, and the MAC ends the frames it has begun and sends those it
\* has.  Frames need not arrive.
FairSpecEcho ==
  /\ SpecEcho
  /\ WF_echoVars(Main)
  /\ WF_echoVars(MacPublish /\ UNCHANGED txVars)
  /\ WF_echoVars(MacSend)

-----------------------------------------------------------------------------
(***************************************************************************)
(* Properties                                                              *)
(***************************************************************************)

\* A datagram for the echo port of this host.
IsRequest(f) ==
  f \in [type : {"IP"}, dst : {"me"}, protocol : {"UDP"}, port : {"echo"}, src : Clients]

\* The two rings together give the service: requests are answered in order, each at
\* most once, to the client that sent it, and one is given up only when the
\* transmit ring is full at that moment.  A request is served when its frame is
\* processed, or as soon as it is refused (samples/simple_udp/main.c:54-88).
Service == INSTANCE EchoService WITH
  Frame    <- Frames,
  Backlog  <- N - 1,
  Capacity <- TxN - 1,
  Asks     <- IsRequest,
  Answer   <- ReplyTo,
  served   <- IF tpc = "refused" THEN Len(processed) + 1 ELSE Len(processed),
  replies  <- thanded,
  sent     <- Len(twire)

ImplementsEchoService == Service!Spec

\* Every frame received is served, and every reply queued is sent, whatever the
\* two halves of the MAC do meanwhile (samples/simple_udp/main.c:173-182).
AllIsServed ==
  \A n \in 1 .. MaxFrames :
    /\ Len(received) >= n ~> Len(processed) >= n
    /\ Len(thanded) >= n ~> Len(twire) >= n
=============================================================================
