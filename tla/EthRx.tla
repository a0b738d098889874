------------------------------- MODULE EthRx --------------------------------
(***************************************************************************)
(* The receive descriptor ring of rflpc17xx/drivers/ethernet.[ch], with    *)
(* the loop every sample reads it with:                                    *)
(*                                                                         *)
(*   while (rflpc_eth_get_current_rx_packet_descriptor(&d, &s)) {          *)
(*     ... d->packet ...;  rflpc_eth_done_process_rx_packet();             *)
(*   }                                                                     *)
(*                                                                         *)
(* The MAC owns RxProduceIndex and writes the buffer of descriptor P while *)
(* software, which owns RxConsumeIndex, reads the buffer of descriptor d.  *)
(* Here the loop is entered again and again, as in the main loop of        *)
(* samples/simple_udp; EthRxIrq runs it from the interrupt handler.        *)
(***************************************************************************)
EXTENDS Integers, Sequences

CONSTANTS
  N,          \* RxDescriptorNumber + 1, the size of the ring
  Frames,     \* contents of a received frame
  MaxFrames,  \* bound: how many frames arrive
  NoFrame     \* a buffer that holds no whole frame; a MAC that writes none

ASSUME SizeAssumption == N \in Nat /\ N > 1 /\ MaxFrames \in Nat

ASSUME NoFrameAssumption == NoFrame \notin Frames

VARIABLES
  P,         \* register RxProduceIndex
  C,         \* register RxConsumeIndex
  buf,       \* the buffer descriptor i points to
  dma,       \* the frame the MAC is writing into buf[P], or NoFrame
  pc,        \* where software is in the loop
  d,         \* the descriptor software was given
  received,  \* history: every frame the MAC published
  processed  \* history: every frame software read

ringVars == <<P, C, buf, dma, pc, d, received, processed>>

Slots == 0 .. (N - 1)

-----------------------------------------------------------------------------
\* Mutants: the empty test is dropped, or ignores that the indices wrap.
RxAvailableAlways   == TRUE
RxAvailableUnwrapped == P > C

\* rflpc_eth_rx_available(): false when the queue is empty
RxAvailable == C # P

\* rflpc_eth_set_rx_base_addresses(): the queue is forced empty wherever the
\* hardware left its producer index.
Init ==
  /\ P \in Slots
  /\ C = P
  /\ buf = [i \in Slots |-> NoFrame]
  /\ dma = NoFrame
  /\ pc = "check"
  /\ d = 0
  /\ received = << >>
  /\ processed = << >>

\* Mutant: the descriptor is given back as soon as it is read.
GetAndRelease ==
  /\ pc = "check"
  /\ RxAvailable
  /\ d' = C
  /\ C' = IF C = N - 1 THEN 0 ELSE C + 1
  /\ pc' = "use"
  /\ UNCHANGED <<P, buf, dma, received, processed>>

\* get_current_rx_packet_descriptor() returns 1; when it returns 0 the loop is
\* left and nothing has changed.
Get ==
  /\ pc = "check"
  /\ RxAvailable
  /\ d' = C
  /\ pc' = "use"
  /\ UNCHANGED <<P, C, buf, dma, received, processed>>

\* The caller reads the frame out of the descriptor it was given.
Process ==
  /\ pc = "use"
  /\ processed' = Append(processed, buf[d])
  /\ pc' = "done"
  /\ UNCHANGED <<P, C, buf, dma, d, received>>

\* done_process_rx_packet(): nothing on an empty queue, else the next index
Done ==
  /\ pc = "done"
  /\ C' = IF ~RxAvailable THEN C ELSE IF C = N - 1 THEN 0 ELSE C + 1
  /\ pc' = "check"
  /\ UNCHANGED <<P, buf, dma, d, received, processed>>

\* The MAC writes an incoming frame over the buffer at P, unless that would
\* leave no free descriptor (the frame is then lost: a receive overrun) ...
MacWrite ==
  /\ dma = NoFrame
  /\ C # (IF P = N - 1 THEN 0 ELSE P + 1)
  /\ Len(received) < MaxFrames
  /\ dma' \in Frames
  /\ buf' = [buf EXCEPT ![P] = NoFrame]
  /\ UNCHANGED <<P, C, pc, d, received, processed>>

\* ... and publishes it by moving the producer index.
MacPublish ==
  /\ dma # NoFrame
  /\ buf' = [buf EXCEPT ![P] = dma]
  /\ P' = IF P = N - 1 THEN 0 ELSE P + 1
  /\ received' = Append(received, dma)
  /\ dma' = NoFrame
  /\ UNCHANGED <<C, pc, d, processed>>

Software == Get \/ Process \/ Done

Next == Software \/ MacWrite \/ MacPublish

Spec == Init /\ [][Next]_ringVars

\* The polling loop never ends and the MAC completes a frame it has begun;
\* frames need not arrive.
FairSpec == Spec /\ WF_ringVars(Software) /\ WF_ringVars(MacPublish)

-----------------------------------------------------------------------------
(***************************************************************************)
(* Properties                                                              *)
(***************************************************************************)

\* The slot k places after slot i.
Ahead(i, k) == IF i + k < N THEN i + k ELSE i + k - N

\* How many frames wait between the two registers.
Waiting == IF P >= C THEN P - C ELSE P - C + N

\* How many frames software is done with: the one it holds counts until
\* done_process_rx_packet().
Released == IF pc = "done" THEN Len(processed) - 1 ELSE Len(processed)

\* Every variable has its type.
TypeOK ==
  /\ P \in Slots
  /\ C \in Slots
  /\ buf \in [Slots -> Frames \union {NoFrame}]
  /\ dma \in Frames \union {NoFrame}
  /\ pc \in {"check", "use", "done"}
  /\ d \in Slots
  /\ received \in Seq(Frames)
  /\ processed \in Seq(Frames \union {NoFrame})

\* The registers and the buffers between them are exactly the queue of frames
\* published and not yet released: no frame is skipped, read twice or overwritten
\* while it waits (ethernet.h:217-253).
RingMirrorsQueue ==
  /\ Len(received) - Released = Waiting
  /\ \A k \in 1 .. Waiting : buf[Ahead(C, k - 1)] = received[Released + k]

\* The buffer software was given stays whole and unchanged until
\* rflpc_eth_done_process_rx_packet(): the MAC never writes it meanwhile.
HeldFrameIsStable ==
  pc \in {"use", "done"} =>
    /\ Len(received) > Released
    /\ buf[d] = received[Released + 1]
    /\ dma # NoFrame => d # P

\* The ring is a bounded FIFO: every frame the MAC publishes is processed once,
\* in order, and at most N - 1 wait.
Queue == INSTANCE FrameQueue WITH
  Item <- Frames, Capacity <- N - 1, accepted <- received, delivered <- processed

ImplementsQueue == Queue!Spec

=============================================================================
