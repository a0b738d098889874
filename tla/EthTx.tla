------------------------------- MODULE EthTx --------------------------------
(***************************************************************************)
(* The transmit descriptor ring of rflpc17xx/drivers/ethernet.[ch].        *)
(*                                                                         *)
(* Two actors share the ring without a lock: software, which owns the      *)
(* register TxProduceIndex, and the DMA engine of the MAC, which owns      *)
(* TxConsumeIndex and may move it between any two register accesses of the *)
(* driver.  The driver functions are therefore cut at every read of        *)
(* TxConsumeIndex: rflpc_eth_get_current_tx_packet_descriptor() is         *)
(* GetTest1; GetTest2 and rflpc_eth_done_process_tx_packet() is DoneTest1; *)
(* DoneTest2; DonePublish.                                                 *)
(*                                                                         *)
(* The caller is a disciplined one: it asks for descriptor 0, 1, ... in    *)
(* order, fills each descriptor it was given, asks again or gives up when  *)
(* it is refused, and hands a frame over only once its last fragment is    *)
(* filled.  Every caller in samples/ is of this kind (with one fragment).  *)
(***************************************************************************)
EXTENDS Integers, Sequences

CONSTANTS
  N,          \* TxDescriptorNumber + 1, the size of the ring
  Frames,     \* payloads
  MaxBatch,   \* the largest number of fragments of one frame
  MaxFrags,   \* bound: how many fragments the caller submits in total
  Word,       \* 2^32, the modulus of uint32_t
  NoFrag      \* no fragment: a descriptor never written, an idle MAC

\* What a descriptor holds: the buffer it points to, and bit 30 of its control
\* word, set on the last fragment of a frame.
Fragment == [frame : Frames, last : BOOLEAN]

ASSUME SizeAssumption ==
  /\ N \in Nat /\ N > 1
  /\ MaxBatch \in 1 .. (N - 1)
  /\ MaxFrags \in Nat
  /\ Word \in Nat /\ Word > N

ASSUME NoFragAssumption == NoFrag \notin Fragment

VARIABLES
  P,        \* register TxProduceIndex
  C,        \* register TxConsumeIndex
  slot,     \* descriptor i with the buffer it points to
  dma,      \* the fragment the MAC has fetched and is sending, or NoFrag
  pc,       \* where software is in the driver
  batch,    \* history: fragments of the frame being built
  handed,   \* history: every fragment handed to the hardware
  wire      \* history: every fragment sent

vars == <<P, C, slot, dma, pc, batch, handed, wire>>

Slots == 0 .. (N - 1)

PCs == {"idle", "get1", "get2", "refused", "fill", "done1", "done2", "publish"}

-----------------------------------------------------------------------------
\* TX_PRODUCE_INDEX_INC(inc)
TxIndexInc(inc) == (P + inc) % N

\* TxConsumeIndex - 1 computed on uint32_t: below zero it wraps
ConsumeMinus1 == IF C = 0 THEN Word - 1 ELSE C - 1

\* Mutant: no slot is kept free, so that the empty ring looks full.
FullBelowConsumeNoGap(idx) == TxIndexInc(idx) = C

\* The two halves of the "queue full" test, each reading TxConsumeIndex once.
FullBelowConsume(idx) == TxIndexInc(idx) = ConsumeMinus1
\* Mutants: the wrapped case of the test is forgotten, or looks one slot too far.
FullAtRingEndForgotten(idx) == FALSE
FullAtRingEndPastEnd(idx)   == TxIndexInc(idx) = N /\ C = 0

FullAtRingEnd(idx)    == TxIndexInc(idx) = N - 1 /\ C = 0

\* Mutant: the index before slot 0 is clamped instead of wrapped.
LastSentIdxClamped == IF C - 1 < 0 THEN 0 ELSE C - 1

\* rflpc_eth_get_last_sent_packet_idx()
LastSentIdx == IF C - 1 < 0 THEN N - 1 ELSE C - 1

-----------------------------------------------------------------------------
\* rflpc_eth_set_tx_base_addresses(): wherever the consumer index was left,
\* the producer index is set to it and the ring is empty.
Init ==
  /\ C \in Slots
  /\ P = C
  /\ slot = [i \in Slots |-> NoFrag]
  /\ dma = NoFrag
  /\ pc = "idle"
  /\ batch = << >>
  /\ handed = << >>
  /\ wire = << >>

\* The caller starts a new frame: it asks for descriptor 0.
BeginFrame ==
  /\ pc = "idle"
  /\ Len(handed) + MaxBatch <= MaxFrags
  /\ pc' = "get1"
  /\ UNCHANGED <<P, C, slot, dma, batch, handed, wire>>

\* get_current_tx_packet_descriptor(idx), idx = the fragments already filled
GetTest1 ==
  /\ pc = "get1"
  /\ pc' = IF FullBelowConsume(Len(batch)) THEN "refused" ELSE "get2"
  /\ UNCHANGED <<P, C, slot, dma, batch, handed, wire>>

GetTest2 ==
  /\ pc = "get2"
  /\ pc' = IF FullAtRingEnd(Len(batch)) THEN "refused" ELSE "fill"
  /\ UNCHANGED <<P, C, slot, dma, batch, handed, wire>>

\* A refused caller asks again (simple_net.c:114) ...
Retry ==
  /\ pc = "refused"
  /\ pc' = "get1"
  /\ UNCHANGED <<P, C, slot, dma, batch, handed, wire>>

\* ... or drops a frame it has not begun to fill (simple_udp/main.c:68).
GiveUp ==
  /\ pc = "refused"
  /\ batch = << >>
  /\ pc' = "idle"
  /\ UNCHANGED <<P, C, slot, dma, batch, handed, wire>>

\* The caller writes the packet and its control word in the descriptor it got,
\* then asks for the next one or, after the last fragment, hands the frame over.
Fill ==
  /\ pc = "fill"
  /\ \E f \in Frames, last \in BOOLEAN :
       /\ Len(batch) + 1 = MaxBatch => last
       /\ slot' = [slot EXCEPT ![TxIndexInc(Len(batch))] = [frame |-> f, last |-> last]]
       /\ batch' = Append(batch, [frame |-> f, last |-> last])
       /\ pc' = IF last THEN "done1" ELSE "get1"
  /\ UNCHANGED <<P, C, dma, handed, wire>>

\* Mutant: the descriptor behind the frame is tested, not its last one.
DoneTest1Behind ==
  /\ pc = "done1"
  /\ IF FullBelowConsume(Len(batch))
       THEN pc' = "idle" /\ batch' = << >>
       ELSE pc' = "done2" /\ UNCHANGED batch
  /\ UNCHANGED <<P, C, slot, dma, handed, wire>>

\* done_process_tx_packet(count), count = Len(batch): the function returns
\* without a word when it finds the ring full.
DoneTest1 ==
  /\ pc = "done1"
  /\ IF FullBelowConsume(Len(batch) - 1)
       THEN pc' = "idle" /\ batch' = << >>
       ELSE pc' = "done2" /\ UNCHANGED batch
  /\ UNCHANGED <<P, C, slot, dma, handed, wire>>

DoneTest2 ==
  /\ pc = "done2"
  /\ IF FullAtRingEnd(Len(batch) - 1)
       THEN pc' = "idle" /\ batch' = << >>
       ELSE pc' = "publish" /\ UNCHANGED batch
  /\ UNCHANGED <<P, C, slot, dma, handed, wire>>

\* Mutant: one descriptor is published whatever count is.
DonePublishOne ==
  /\ pc = "publish"
  /\ P' = TxIndexInc(1)
  /\ handed' = handed \o batch
  /\ batch' = << >>
  /\ pc' = "idle"
  /\ UNCHANGED <<C, slot, dma, wire>>

DonePublish ==
  /\ pc = "publish"
  /\ P' = TxIndexInc(Len(batch))
  /\ handed' = handed \o batch
  /\ batch' = << >>
  /\ pc' = "idle"
  /\ UNCHANGED <<C, slot, dma, wire>>

-----------------------------------------------------------------------------
\* The MAC: fetch the descriptor at TxConsumeIndex, send it, then free it.
MacFetch ==
  /\ dma = NoFrag
  /\ C # P
  /\ dma' = slot[C]
  /\ UNCHANGED <<P, C, slot, pc, batch, handed, wire>>

MacSent ==
  /\ dma # NoFrag
  /\ wire' = Append(wire, dma)
  /\ dma' = NoFrag
  /\ C' = IF C = N - 1 THEN 0 ELSE C + 1
  /\ UNCHANGED <<P, slot, pc, batch, handed>>

Software ==
  \/ BeginFrame
  \/ GetTest1
  \/ GetTest2
  \/ Retry
  \/ GiveUp
  \/ Fill
  \/ DoneTest1
  \/ DoneTest2
  \/ DonePublish

Mac == MacFetch \/ MacSent

Next == Software \/ Mac

Spec == Init /\ [][Next]_vars

\* Code that has entered the driver runs on; the MAC keeps sending.  Nothing
\* obliges the program to start a frame.
Fairness ==
  /\ WF_vars(GetTest1 \/ GetTest2 \/ Retry \/ Fill \/ DoneTest1 \/ DoneTest2 \/ DonePublish)
  /\ WF_vars(Mac)

FairSpec == Spec /\ Fairness

-----------------------------------------------------------------------------
(***************************************************************************)
(* Properties                                                              *)
(***************************************************************************)

\* How many descriptors the hardware owns: from C up to, not including, P.
Pending == IF P >= C THEN P - C ELSE P - C + N

\* Every variable has its type: both registers index the ring, and software
\* never builds a frame of more than MaxBatch fragments.
TypeOK ==
  /\ P \in Slots
  /\ C \in Slots
  /\ slot \in [Slots -> Fragment \union {NoFrag}]
  /\ dma \in Fragment \union {NoFrag}
  /\ pc \in PCs
  /\ batch \in Seq(Fragment) /\ Len(batch) <= MaxBatch
  /\ handed \in Seq(Fragment)
  /\ wire \in Seq(Fragment)

\* The two registers and the descriptors between them are exactly the queue of
\* fragments handed over and not yet sent: the producer index never laps the
\* consumer (which would make a full ring look empty and lose N fragments), and
\* no descriptor the hardware owns is ever written again (ethernet.h:279-318).
RingMirrorsQueue ==
  /\ Len(handed) - Len(wire) = Pending
  /\ \A k \in 1 .. Pending : slot[(C + (k - 1)) % N] = handed[Len(wire) + k]

\* When rflpc_eth_get_current_tx_packet_descriptor() has returned 1, the
\* descriptor is not owned by the hardware, and one more stays free behind it:
\* true although the two halves of the test read TxConsumeIndex at different
\* times (ethernet.h:282-283).
GrantedSlotIsFree == pc = "fill" => Pending + Len(batch) < N - 1

\* rflpc_eth_get_last_sent_packet_idx() names a descriptor that still holds the
\* last fragment sent, whatever software has filled since (ethernet.h:297-303).
LastSentStillReadable ==
  wire # << >> => slot[LastSentIdx] = wire[Len(wire)]

\* The MAC never runs out of descriptors in the middle of a frame: after a
\* fragment without the last-fragment bit, the rest of the frame is in the ring
\* (done_process_tx_packet(count) hands a whole frame over in one store).
NoUnderrun ==
  (wire # << >> /\ ~wire[Len(wire)].last) => C # P

\* The silent "queue full" return of rflpc_eth_done_process_tx_packet()
\* (ethernet.h:312-316) is never taken by a caller that was granted every
\* descriptor it hands over: a filled frame is never dropped.
DoneNeverDrops == [][(pc \in {"done1", "done2"}) => (batch' = batch)]_vars

\* The ring is a bounded FIFO of N - 1 fragments: everything handed over is sent
\* once, in order.
Queue == INSTANCE FrameQueue WITH
  Item <- Fragment, Capacity <- N - 1, accepted <- handed, delivered <- wire

ImplementsQueue == Queue!Spec

\* Every fragment handed over is eventually sent, and counts as such from the call of
\* rflpc_eth_done_process_tx_packet() on: one that its silent return drops is handed
\* over and never sent (ethernet.h:309-317).
HandedIsSent ==
  LET given == Len(handed) + (IF pc \in {"done1", "done2", "publish"} THEN Len(batch) ELSE 0)
  IN \A n \in 1 .. MaxFrags : given >= n ~> Len(wire) >= n

\* A caller that asks for a descriptor is not refused for ever: the busy wait
\* of simple_net_get_tx_buffer() ends (samples/dhcp/simple_net.c:114).
GetTerminates == pc = "get1" ~> pc \in {"fill", "idle"}
=============================================================================
