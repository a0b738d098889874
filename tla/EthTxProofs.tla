---------------------------- MODULE EthTxProofs -----------------------------
(***************************************************************************)
(* Proofs about the transmit ring, for every ring size N, every bound and  *)
(* every set of payloads.                                                  *)
(*                                                                         *)
(* RingMirrorsQueue is not inductive.  What keeps it true is a reservation *)
(* argument: at every point of the driver the descriptors owned by the     *)
(* hardware and those already filled leave at least one free, and a grant  *)
(* (pc = "fill") leaves two.  Between the two halves of the full test the  *)
(* reservation rests on the value of C: if the first half ran with C # 0   *)
(* it was decisive, and if C has moved since, a descriptor was freed.      *)
(***************************************************************************)
EXTENDS EthTx, TLAPS

\* The slots software has reserved, at each point of the driver.
Reservation ==
  /\ Pending + Len(batch) <= N - 1
  /\ pc = "get2" => (Pending + Len(batch) < N - 1 \/ C = 0)
  /\ pc = "fill" => Pending + Len(batch) < N - 1

\* How far the frame being built has got, at each point of the driver.
Progress ==
  /\ pc = "idle" => batch = << >>
  /\ pc \in {"get1", "get2", "refused", "fill"} => Len(batch) < MaxBatch
  /\ pc \in {"done1", "done2", "publish"} => Len(batch) > 0

\* The descriptors from P on hold the frame being built.
BatchInRing ==
  \A k \in 1 .. Len(batch) : slot[(P + (k - 1)) % N] = batch[k]

\* The MAC sends the descriptor it owns at C.
DmaInRing == dma # NoFrag => (C # P /\ dma = slot[C])

\* What was sent is what was handed over, in order.
SentInOrder == \A k \in 1 .. Len(wire) : wire[k] = handed[k]

\* Only the last fragment of a frame can be the last thing handed over.
WholeFrames ==
  /\ handed # << >> => handed[Len(handed)].last
  /\ pc \in {"done1", "done2", "publish"} => batch[Len(batch)].last

IndInv ==
  /\ TypeOK
  /\ Reservation
  /\ Progress
  /\ RingMirrorsQueue
  /\ BatchInRing
  /\ DmaInRing
  /\ SentInOrder
  /\ LastSentStillReadable
  /\ WholeFrames

-----------------------------------------------------------------------------
(***************************************************************************)
(* Arithmetic of ring indices                                              *)
(***************************************************************************)

\* An index plus at most one lap, reduced modulo the size of the ring.
LEMMA ModWrap ==
  ASSUME NEW n \in Nat \ {0}, NEW x \in 0 .. (2 * n - 1)
  PROVE  x % n = IF x < n THEN x ELSE x - n
BY SMT

\* The same for an index of this ring.
LEMMA RingIndex ==
  \A i \in Slots, k \in 0 .. N :
    (i + k) % N = IF i + k < N THEN i + k ELSE i + k - N
<1> SUFFICES ASSUME NEW i \in Slots, NEW k \in 0 .. N
             PROVE  (i + k) % N = IF i + k < N THEN i + k ELSE i + k - N
  OBVIOUS
<1>1. N \in Nat \ {0} /\ i + k \in 0 .. (2 * N - 1)
  BY SizeAssumption DEF Slots
<1>2. \A x \in 0 .. (2 * N - 1) : x % N = IF x < N THEN x ELSE x - N
  BY <1>1, ModWrap
<1>3. QED
  BY <1>1, <1>2 DEF Slots

\* TX_PRODUCE_INDEX_INC stays in the ring.
LEMMA IncInRing ==
  ASSUME P \in Slots
  PROVE  \A k \in 0 .. N :
           /\ TxIndexInc(k) \in Slots
           /\ TxIndexInc(k) = IF P + k < N THEN P + k ELSE P + k - N
<1>1. \A k \in 0 .. N : TxIndexInc(k) = IF P + k < N THEN P + k ELSE P + k - N
  BY RingIndex DEF TxIndexInc
<1>2. QED
  BY <1>1, SizeAssumption DEF Slots

\* The producer index is Pending slots after the consumer index.
LEMMA ProducerIndex ==
  ASSUME P \in Slots, C \in Slots
  PROVE  /\ Pending \in 0 .. (N - 1)
         /\ P = IF C + Pending < N THEN C + Pending ELSE C + Pending - N
BY SizeAssumption DEF Slots, Pending

-----------------------------------------------------------------------------
(***************************************************************************)
(* Type correctness                                                        *)
(***************************************************************************)

\* The initial state, just after rflpc_eth_set_tx_base_addresses().
LEMMA InitTyped == Init => TypeOK /\ Progress
BY SizeAssumption DEF Init, TypeOK, Progress, Slots, PCs

\* Every step of the driver and of the MAC keeps the types and the progress of
\* the frame being built; each needs the other.
LEMMA NextTyped == TypeOK /\ Progress /\ [Next]_vars => TypeOK' /\ Progress'
<1> SUFFICES ASSUME TypeOK, Progress, [Next]_vars
             PROVE  TypeOK' /\ Progress'
  OBVIOUS
<1> USE SizeAssumption, NoFragAssumption DEF TypeOK, Progress, Slots, PCs
<1>1. CASE BeginFrame
  BY <1>1 DEF BeginFrame
<1>2. CASE GetTest1
  BY <1>2 DEF GetTest1
<1>3. CASE GetTest2
  BY <1>3 DEF GetTest2
<1>4. CASE Retry
  BY <1>4 DEF Retry
<1>5. CASE GiveUp
  BY <1>5 DEF GiveUp
<1>6. CASE Fill
  <2>1. PICK f \in Frames, last \in BOOLEAN :
          /\ Len(batch) + 1 = MaxBatch => last
          /\ slot' = [slot EXCEPT ![TxIndexInc(Len(batch))] = [frame |-> f, last |-> last]]
          /\ batch' = Append(batch, [frame |-> f, last |-> last])
          /\ pc' = IF last THEN "done1" ELSE "get1"
    BY <1>6 DEF Fill
  <2>2. [frame |-> f, last |-> last] \in Fragment
    BY DEF Fragment
  <2>3. batch' \in Seq(Fragment) /\ Len(batch') = Len(batch) + 1
    BY <2>1, <2>2
  <2>4. slot' \in [Slots -> Fragment \union {NoFrag}]
    BY <2>1, <2>2
  <2>5. TypeOK'
    BY <1>6, <2>1, <2>3, <2>4 DEF Fill
  <2>6. Progress'
    <3>1. CASE last
      BY <2>1, <2>3, <3>1
    <3>2. CASE ~last
      BY <1>6, <2>1, <2>3, <3>2 DEF Fill
    <3>3. QED
      BY <3>1, <3>2
  <2>7. QED
    BY <2>5, <2>6
<1>7. CASE DoneTest1
  <2>1. CASE FullBelowConsume(Len(batch) - 1)
    BY <1>7, <2>1 DEF DoneTest1
  <2>2. CASE ~FullBelowConsume(Len(batch) - 1)
    BY <1>7, <2>2 DEF DoneTest1
  <2>3. QED
    BY <2>1, <2>2
<1>8. CASE DoneTest2
  <2>1. CASE FullAtRingEnd(Len(batch) - 1)
    BY <1>8, <2>1 DEF DoneTest2
  <2>2. CASE ~FullAtRingEnd(Len(batch) - 1)
    BY <1>8, <2>2 DEF DoneTest2
  <2>3. QED
    BY <2>1, <2>2
<1>9. CASE DonePublish
  <2>1. TxIndexInc(Len(batch)) \in Slots
    <3>1. Len(batch) \in 0 .. N
      OBVIOUS
    <3>2. QED
      BY <3>1, IncInRing
  <2>2. QED
    BY <1>9, <2>1 DEF DonePublish
<1>10. CASE MacFetch
  BY <1>10 DEF MacFetch
<1>11. CASE MacSent
  BY <1>11 DEF MacSent
<1>12. CASE UNCHANGED vars
  BY <1>12 DEF vars
<1>13. QED
  BY <1>1, <1>2, <1>3, <1>4, <1>5, <1>6, <1>7, <1>8, <1>9, <1>10, <1>11, <1>12
     DEF Next, Software, Mac

\* Every variable keeps its type: neither index register leaves the ring and no
\* frame grows past MaxBatch fragments (ethernet.h:279-318).
THEOREM TypeCorrect == Spec => []TypeOK
<1>1. Spec => [](TypeOK /\ Progress)
  BY InitTyped, NextTyped, PTL DEF Spec
<1>2. QED
  BY <1>1, PTL

-----------------------------------------------------------------------------
(***************************************************************************)
(* The inductive invariant                                                 *)
(***************************************************************************)

LEMMA InitInd == Init => IndInv
<1> SUFFICES ASSUME Init PROVE IndInv
  OBVIOUS
<1>1. TypeOK /\ Progress
  BY InitTyped
<1>2. Pending = 0 /\ Len(batch) = 0 /\ Len(handed) = 0 /\ Len(wire) = 0
  BY <1>1 DEF Init, Pending, TypeOK, Slots
<1>3. Reservation
  BY <1>2, SizeAssumption DEF Reservation, Init
<1>4. RingMirrorsQueue /\ BatchInRing /\ SentInOrder
  BY <1>2 DEF RingMirrorsQueue, BatchInRing, SentInOrder
<1>5. DmaInRing /\ LastSentStillReadable /\ WholeFrames
  BY DEF Init, DmaInRing, LastSentStillReadable, WholeFrames
<1>6. QED
  BY <1>1, <1>3, <1>4, <1>5 DEF IndInv

\* The full test of get_current_tx_packet_descriptor(), first half: if it does
\* not answer "full" although no slot is left, then TxConsumeIndex was 0.
LEMMA FirstHalf ==
  ASSUME TypeOK, Reservation, ~FullBelowConsume(Len(batch))
  PROVE  Pending + Len(batch) < N - 1 \/ C = 0
<1>1. Len(batch) \in 0 .. N /\ P \in Slots /\ C \in Slots
  BY SizeAssumption DEF TypeOK
<1>2. TxIndexInc(Len(batch)) =
        IF P + Len(batch) < N THEN P + Len(batch) ELSE P + Len(batch) - N
  BY <1>1, IncInRing
<1>3. C # 0 => TxIndexInc(Len(batch)) # C - 1
  BY DEF FullBelowConsume, ConsumeMinus1
<1>4. QED
  BY <1>1, <1>2, <1>3, ProducerIndex, SizeAssumption DEF Reservation, Slots

\* The second half decides the case TxConsumeIndex = 0.
LEMMA SecondHalf ==
  ASSUME TypeOK, Reservation, pc = "get2", ~FullAtRingEnd(Len(batch))
  PROVE  Pending + Len(batch) < N - 1
<1>1. Len(batch) \in 0 .. N /\ P \in Slots /\ C \in Slots
  BY SizeAssumption DEF TypeOK
<1>2. TxIndexInc(Len(batch)) =
        IF P + Len(batch) < N THEN P + Len(batch) ELSE P + Len(batch) - N
  BY <1>1, IncInRing
<1>3. C = 0 => TxIndexInc(Len(batch)) # N - 1
  BY DEF FullAtRingEnd
<1>4. QED
  BY <1>1, <1>2, <1>3, ProducerIndex, SizeAssumption DEF Reservation, Slots

\* done_process_tx_packet(count) asks about the slot of the last fragment, which
\* the reservation keeps away from the slot before TxConsumeIndex.
LEMMA NotFullAtDone ==
  ASSUME TypeOK, Reservation, Progress, pc \in {"done1", "done2", "publish"}
  PROVE  ~FullBelowConsume(Len(batch) - 1) /\ ~FullAtRingEnd(Len(batch) - 1)
<1>1. Len(batch) - 1 \in 0 .. N /\ P \in Slots /\ C \in Slots
  BY SizeAssumption DEF TypeOK, Progress
<1>2. TxIndexInc(Len(batch) - 1) =
        IF P + (Len(batch) - 1) < N THEN P + (Len(batch) - 1) ELSE P + (Len(batch) - 1) - N
  BY <1>1, IncInRing
<1>3. Pending + (Len(batch) - 1) < N - 1
  <2>1. Pending \in 0 .. (N - 1) /\ Len(batch) \in Nat
    BY <1>1, ProducerIndex DEF TypeOK
  <2>2. QED
    BY <2>1, SizeAssumption DEF Reservation
<1>4. TxIndexInc(Len(batch) - 1) # ConsumeMinus1
  BY <1>1, <1>2, <1>3, ProducerIndex, SizeAssumption DEF ConsumeMinus1, Slots
<1>5. C = 0 => TxIndexInc(Len(batch) - 1) # N - 1
  BY <1>1, <1>2, <1>3, ProducerIndex, SizeAssumption DEF Slots
<1>6. QED
  BY <1>4, <1>5 DEF FullBelowConsume, FullAtRingEnd

\* Steps that move neither index and write no descriptor keep the ring facts.
LEMMA RingUntouched ==
  ASSUME IndInv, UNCHANGED <<P, C, slot, handed, wire>>
  PROVE  /\ Pending' = Pending
         /\ RingMirrorsQueue'
         /\ SentInOrder'
         /\ LastSentStillReadable'
<1>1. Pending' = Pending
  BY DEF Pending
<1>2. RingMirrorsQueue'
  BY <1>1 DEF IndInv, RingMirrorsQueue
<1>3. SentInOrder'
  BY DEF IndInv, SentInOrder
<1>4. LastSentStillReadable'
  BY DEF IndInv, LastSentStillReadable, LastSentIdx
<1>5. QED
  BY <1>1, <1>2, <1>3, <1>4

\* ... and when the frame being built does not change either, only the position
\* in the driver matters.
LEMMA OnlyPcMoves ==
  ASSUME IndInv, UNCHANGED <<P, C, slot, dma, batch, handed, wire>>,
         TypeOK', Progress',
         pc' = "get2" => (Pending + Len(batch) < N - 1 \/ C = 0),
         pc' = "fill" => Pending + Len(batch) < N - 1,
         pc' \in {"done1", "done2", "publish"} => pc \in {"done1", "done2", "publish"}
  PROVE  IndInv'
<1>1. /\ Pending' = Pending
      /\ RingMirrorsQueue'
      /\ SentInOrder'
      /\ LastSentStillReadable'
  BY RingUntouched
<1>2. Reservation'
  BY <1>1 DEF IndInv, Reservation
<1>3. BatchInRing' /\ DmaInRing'
  BY DEF IndInv, BatchInRing, DmaInRing
<1>4. WholeFrames'
  BY DEF IndInv, WholeFrames
<1>5. QED
  BY <1>1, <1>2, <1>3, <1>4 DEF IndInv

-----------------------------------------------------------------------------
(***************************************************************************)
(* The steps that write a descriptor, the producer index or the consumer   *)
(* index                                                                   *)
(***************************************************************************)

\* Slots at different distances from an index are different slots.
LEMMA DistinctSlots ==
  \A i \in Slots, j, k \in 0 .. (N - 1) : j # k => (i + j) % N # (i + k) % N
<1> SUFFICES ASSUME NEW i \in Slots, NEW j \in 0 .. (N - 1), NEW k \in 0 .. (N - 1), j # k
             PROVE  (i + j) % N # (i + k) % N
  OBVIOUS
<1>1. j \in 0 .. N /\ k \in 0 .. N
  BY SizeAssumption
<1>2. /\ (i + j) % N = IF i + j < N THEN i + j ELSE i + j - N
      /\ (i + k) % N = IF i + k < N THEN i + k ELSE i + k - N
  BY <1>1, RingIndex
<1>3. QED
  BY <1>2, SizeAssumption DEF Slots

\* A slot counted from the producer index is one counted from the consumer index.
LEMMA FromConsumer ==
  ASSUME P \in Slots, C \in Slots
  PROVE  \A j \in 0 .. N : Pending + j <= N => (P + j) % N = (C + (Pending + j)) % N
<1> SUFFICES ASSUME NEW j \in 0 .. N, Pending + j <= N
             PROVE  (P + j) % N = (C + (Pending + j)) % N
  OBVIOUS
<1>1. Pending \in 0 .. (N - 1) /\ Pending + j \in 0 .. N
  BY ProducerIndex, SizeAssumption
<1>2. /\ (P + j) % N = IF P + j < N THEN P + j ELSE P + j - N
      /\ (C + (Pending + j)) % N = IF C + (Pending + j) < N THEN C + (Pending + j)
                                                         ELSE C + (Pending + j) - N
  BY <1>1, RingIndex
<1>3. QED
  BY <1>1, <1>2, ProducerIndex, SizeAssumption DEF Slots

\* The last descriptor sent is a whole lap, less one, ahead of the consumer.
LEMMA LastSentSlot ==
  ASSUME C \in Slots
  PROVE  LastSentIdx = (C + (N - 1)) % N /\ LastSentIdx \in Slots
<1>1. (C + (N - 1)) % N = IF C + (N - 1) < N THEN C + (N - 1) ELSE C + (N - 1) - N
  BY RingIndex, SizeAssumption
<1>2. QED
  BY <1>1, SizeAssumption DEF LastSentIdx, Slots

LEMMA FillInd ==
  ASSUME IndInv, Fill, TypeOK', Progress'
  PROVE  IndInv'
<1> DEFINE n == Len(batch)
           j == TxIndexInc(n)
<1>1. PICK f \in Frames, last \in BOOLEAN :
        /\ slot' = [slot EXCEPT ![j] = [frame |-> f, last |-> last]]
        /\ batch' = Append(batch, [frame |-> f, last |-> last])
        /\ pc' = IF last THEN "done1" ELSE "get1"
  BY DEF Fill
<1> DEFINE new == [frame |-> f, last |-> last]
<1>2. new \in Fragment
  BY DEF Fragment
<1>3. /\ N \in Nat /\ N > 1
      /\ P \in Slots /\ C \in Slots /\ n \in 0 .. N
      /\ Pending \in 0 .. (N - 1) /\ Pending + n < N - 1
      /\ slot \in [Slots -> Fragment \union {NoFrag}]
      /\ batch \in Seq(Fragment)
  BY SizeAssumption, ProducerIndex DEF IndInv, TypeOK, Fill, Reservation
<1>4. /\ Len(batch') = n + 1
      /\ batch'[n + 1] = new
      /\ \A k \in 1 .. n : batch'[k] = batch[k]
  BY <1>1, <1>2, <1>3
<1>5. Pending' = Pending
  BY DEF Fill, Pending
<1>6. j = (P + n) % N /\ j = (C + (Pending + n)) % N /\ j \in Slots
  <2>1. j = (P + n) % N
    BY DEF TxIndexInc
  <2>2. (P + n) % N = (C + (Pending + n)) % N
    BY <1>3, FromConsumer
  <2>3. j \in Slots
    BY <1>3, IncInRing
  <2>4. QED
    BY <2>1, <2>2, <2>3
<1>7. \A k \in Slots : slot'[k] = IF k = j THEN new ELSE slot[k]
  BY <1>1, <1>3
<1>8. \A k \in 0 .. (N - 1) : (C + k) % N \in Slots /\ (k # Pending + n => (C + k) % N # j)
  <2>1. ASSUME NEW k \in 0 .. (N - 1)
        PROVE  (C + k) % N \in Slots
    BY <1>3, RingIndex DEF Slots
  <2>2. ASSUME NEW k \in 0 .. (N - 1), k # Pending + n
        PROVE  (C + k) % N # j
    <3>1. Pending + n \in 0 .. (N - 1)
      BY <1>3
    <3>2. QED
      BY <1>3, <1>6, <2>2, <3>1, DistinctSlots
  <2>3. QED
    BY <2>1, <2>2
<1>9. Reservation'
  BY <1>1, <1>3, <1>4, <1>5 DEF Reservation
<1>10. RingMirrorsQueue'
  <2>1. \A k \in 1 .. Pending : slot'[(C + (k - 1)) % N] = slot[(C + (k - 1)) % N]
    BY <1>3, <1>7, <1>8
  <2>2. QED
    BY <1>5, <2>1 DEF IndInv, RingMirrorsQueue, Fill
<1>11. BatchInRing'
  <2>1. ASSUME NEW k \in 1 .. n
        PROVE  slot'[(P + (k - 1)) % N] = batch[k]
    <3>1. (P + (k - 1)) % N = (C + (Pending + (k - 1))) % N
      BY <1>3, FromConsumer
    <3>2. Pending + (k - 1) \in 0 .. (N - 1) /\ Pending + (k - 1) # Pending + n
      BY <1>3
    <3>3. slot'[(P + (k - 1)) % N] = slot[(P + (k - 1)) % N]
      BY <1>7, <1>8, <3>1, <3>2
    <3>4. QED
      BY <3>3 DEF IndInv, BatchInRing
  <2>2. slot'[(P + n) % N] = new
    BY <1>6, <1>7
  <2>3. ASSUME NEW k \in 1 .. Len(batch')
        PROVE  slot'[(P' + (k - 1)) % N] = batch'[k]
    <3>1. CASE k = n + 1
      BY <1>3, <1>4, <2>2, <3>1 DEF Fill
    <3>2. CASE k \in 1 .. n
      BY <1>4, <2>1, <3>2 DEF Fill
    <3>3. QED
      BY <1>3, <1>4, <3>1, <3>2
  <2>4. QED
    BY <2>3 DEF BatchInRing
<1>12. DmaInRing'
  <2>1. SUFFICES ASSUME dma # NoFrag PROVE C # P /\ dma = slot'[C]
    BY DEF DmaInRing, Fill
  <2>2. C # P /\ dma = slot[C]
    BY <2>1 DEF IndInv, DmaInRing
  <2>3. Pending > 0
    BY <1>3, <2>2, SizeAssumption DEF Pending, Slots
  <2>4. j = IF C + (Pending + n) < N THEN C + (Pending + n) ELSE C + (Pending + n) - N
    BY <1>3, <1>6, RingIndex
  <2>5. C # j
    BY <1>3, <2>3, <2>4 DEF Slots
  <2>6. QED
    BY <1>3, <1>7, <2>2, <2>5
<1>13. SentInOrder'
  BY DEF IndInv, SentInOrder, Fill
<1>14. LastSentStillReadable'
  <2>1. LastSentIdx' = LastSentIdx
    BY DEF LastSentIdx, Fill
  <2>2. LastSentIdx # j /\ LastSentIdx \in Slots
    BY <1>3, <1>8, LastSentSlot, SizeAssumption
  <2>3. slot'[LastSentIdx] = slot[LastSentIdx]
    BY <1>7, <2>2
  <2>4. QED
    BY <2>1, <2>3 DEF IndInv, LastSentStillReadable, Fill
<1>15. WholeFrames'
  BY <1>1, <1>4 DEF IndInv, WholeFrames, Fill
<1>16. QED
  BY <1>9, <1>10, <1>11, <1>12, <1>13, <1>14, <1>15 DEF IndInv

LEMMA PublishInd ==
  ASSUME IndInv, DonePublish, TypeOK', Progress'
  PROVE  IndInv'
<1> DEFINE n == Len(batch)
<1>1. /\ N \in Nat /\ N > 1
      /\ P \in Slots /\ C \in Slots /\ n \in 1 .. N
      /\ Pending \in 0 .. (N - 1) /\ Pending + n <= N - 1
      /\ batch \in Seq(Fragment) /\ handed \in Seq(Fragment) /\ wire \in Seq(Fragment)
      /\ Len(handed) - Len(wire) = Pending
  BY SizeAssumption, ProducerIndex
     DEF IndInv, TypeOK, DonePublish, Reservation, Progress, RingMirrorsQueue
<1>2. P' = IF P + n < N THEN P + n ELSE P + n - N
  BY <1>1, IncInRing DEF DonePublish
<1>3. Pending' = Pending + n
  BY <1>1, <1>2, ProducerIndex DEF Pending, DonePublish, Slots
<1>4. /\ handed' \in Seq(Fragment)
      /\ Len(handed') = Len(handed) + n
      /\ \A k \in 1 .. Len(handed) : handed'[k] = handed[k]
      /\ \A k \in 1 .. n : handed'[Len(handed) + k] = batch[k]
  BY <1>1 DEF DonePublish
<1>5. batch' = << >> /\ Len(batch') = 0 /\ pc' = "idle"
  BY DEF DonePublish
<1>6. Reservation'
  BY <1>1, <1>3, <1>5 DEF Reservation
<1>7. RingMirrorsQueue'
  <2>1. Len(handed') - Len(wire') = Pending'
    <3>1. Len(wire') = Len(wire)
      BY DEF DonePublish
    <3>2. Len(handed) \in Nat /\ Len(wire) \in Nat /\ n \in Nat /\ Pending \in Nat
      BY <1>1
    <3>3. Len(handed') = Len(handed) + n /\ Len(handed) - Len(wire) = Pending
      BY <1>1, <1>4
    <3>4. QED
      BY <1>3, <3>1, <3>2, <3>3
  <2>2. ASSUME NEW k \in 1 .. (Pending + n)
        PROVE  slot[(C + (k - 1)) % N] = handed'[Len(wire) + k]
    <3>1. CASE k <= Pending
      <4>1. slot[(C + (k - 1)) % N] = handed[Len(wire) + k]
        BY <1>1, <3>1 DEF IndInv, RingMirrorsQueue
      <4>2. Len(wire) + k \in 1 .. Len(handed)
        BY <1>1, <3>1
      <4>3. QED
        BY <1>4, <4>1, <4>2
    <3>2. CASE k > Pending
      <4> DEFINE m == k - Pending
      <4>1. m \in 1 .. n /\ m - 1 \in 0 .. N /\ Pending + (m - 1) <= N
            /\ Pending + (m - 1) = k - 1
        BY <1>1, <3>2
      <4>2. (P + (m - 1)) % N = (C + (Pending + (m - 1))) % N
        BY <1>1, <4>1, FromConsumer
      <4>3. slot[(P + (m - 1)) % N] = batch[m]
        BY <4>1 DEF IndInv, BatchInRing
      <4>4. Len(wire) + k = Len(handed) + m
        BY <1>1
      <4>5. QED
        BY <1>4, <4>1, <4>2, <4>3, <4>4
    <3>3. QED
      BY <1>1, <3>1, <3>2
  <2>3. QED
    BY <1>3, <2>1, <2>2 DEF RingMirrorsQueue, DonePublish
<1>8. BatchInRing'
  BY <1>5 DEF BatchInRing
<1>9. DmaInRing'
  <2>1. C # P => C' # P'
    BY <1>1, <1>2, ProducerIndex DEF DonePublish, Slots, Pending
  <2>2. QED
    BY <2>1 DEF IndInv, DmaInRing, DonePublish
<1>10. SentInOrder'
  <2>1. ASSUME NEW k \in 1 .. Len(wire)
        PROVE  wire[k] = handed'[k]
    <3>1. k \in 1 .. Len(handed)
      BY <1>1
    <3>2. QED
      BY <1>4, <3>1 DEF IndInv, SentInOrder
  <2>2. QED
    BY <2>1 DEF SentInOrder, DonePublish
<1>11. LastSentStillReadable'
  BY DEF IndInv, LastSentStillReadable, LastSentIdx, DonePublish
<1>12. WholeFrames'
  <2>1. handed'[Len(handed')] = batch[n]
    BY <1>1, <1>4
  <2>2. batch[n].last
    BY DEF IndInv, WholeFrames, DonePublish
  <2>3. QED
    BY <1>5, <2>1, <2>2 DEF WholeFrames
<1>13. QED
  BY <1>6, <1>7, <1>8, <1>9, <1>10, <1>11, <1>12 DEF IndInv

LEMMA FetchInd ==
  ASSUME IndInv, MacFetch, TypeOK', Progress'
  PROVE  IndInv'
<1>1. /\ Pending' = Pending
      /\ RingMirrorsQueue'
      /\ SentInOrder'
      /\ LastSentStillReadable'
  BY RingUntouched DEF MacFetch
<1>2. Reservation' /\ BatchInRing' /\ DmaInRing' /\ WholeFrames'
  BY <1>1 DEF IndInv, MacFetch, Reservation, BatchInRing, DmaInRing, WholeFrames
<1>3. QED
  BY <1>1, <1>2 DEF IndInv

LEMMA SentInd ==
  ASSUME IndInv, MacSent, TypeOK', Progress'
  PROVE  IndInv'
<1>1. /\ N \in Nat /\ N > 1
      /\ P \in Slots /\ C \in Slots /\ C # P /\ dma = slot[C]
      /\ Pending \in 1 .. (N - 1)
      /\ batch \in Seq(Fragment) /\ handed \in Seq(Fragment) /\ wire \in Seq(Fragment)
      /\ dma \in Fragment
      /\ Len(handed) - Len(wire) = Pending
  BY SizeAssumption DEF IndInv, TypeOK, DmaInRing, MacSent, RingMirrorsQueue, Pending, Slots
<1>2. C' \in Slots /\ C' = IF C = N - 1 THEN 0 ELSE C + 1
  BY <1>1 DEF MacSent, Slots
<1>3. Pending' = Pending - 1
  BY <1>1, <1>2 DEF Pending, MacSent, Slots
<1>4. /\ Len(wire') = Len(wire) + 1
      /\ wire'[Len(wire) + 1] = dma
      /\ \A k \in 1 .. Len(wire) : wire'[k] = wire[k]
  BY <1>1 DEF MacSent
<1>5. dma = handed[Len(wire) + 1]
  <2>1. (C + (1 - 1)) % N = C
    <3>1. N \in Nat \ {0} /\ C \in 0 .. (2 * N - 1) /\ C < N
      BY <1>1 DEF Slots
    <3>2. C % N = C
      BY <3>1, ModWrap
    <3>3. C + (1 - 1) = C
      BY <3>1
    <3>4. QED
      BY <3>2, <3>3
  <2>2. slot[(C + (1 - 1)) % N] = handed[Len(wire) + 1]
    BY <1>1 DEF IndInv, RingMirrorsQueue
  <2>3. QED
    BY <1>1, <2>1, <2>2
<1>6. Reservation'
  BY <1>1, <1>2, <1>3 DEF IndInv, Reservation, MacSent, TypeOK
<1>7. RingMirrorsQueue'
  <2>1. Len(handed') - Len(wire') = Pending'
    <3>1. handed' = handed
      BY DEF MacSent
    <3>2. QED
      BY <1>1, <1>3, <1>4, <3>1
  <2>2. ASSUME NEW k \in 1 .. (Pending - 1)
        PROVE  slot[(C' + (k - 1)) % N] = handed[Len(wire') + k]
    <3>1. k - 1 \in 0 .. N /\ k \in 0 .. N /\ k + 1 \in 1 .. Pending /\ (k + 1) - 1 = k
      BY <1>1
    <3>2. (C' + (k - 1)) % N = IF C' + (k - 1) < N THEN C' + (k - 1) ELSE C' + (k - 1) - N
      BY <1>2, <3>1, RingIndex
    <3>3. (C + k) % N = IF C + k < N THEN C + k ELSE C + k - N
      BY <1>1, <3>1, RingIndex
    <3>4. (C' + (k - 1)) % N = (C + k) % N
      BY <1>1, <1>2, <3>1, <3>2, <3>3 DEF Slots
    <3>5. slot[(C + ((k + 1) - 1)) % N] = handed[Len(wire) + (k + 1)]
      BY <3>1 DEF IndInv, RingMirrorsQueue
    <3>6. Len(wire) + (k + 1) = Len(wire') + k
      BY <1>1, <1>4
    <3>7. QED
      BY <3>1, <3>4, <3>5, <3>6
  <2>3. QED
    BY <1>3, <2>1, <2>2 DEF RingMirrorsQueue, MacSent
<1>8. BatchInRing'
  BY DEF IndInv, BatchInRing, MacSent
<1>9. DmaInRing'
  BY DEF DmaInRing, MacSent
<1>10. SentInOrder'
  <2>1. ASSUME NEW k \in 1 .. Len(wire')
        PROVE  wire'[k] = handed[k]
    <3>1. CASE k = Len(wire) + 1
      BY <1>4, <1>5, <3>1
    <3>2. CASE k \in 1 .. Len(wire)
      BY <1>4, <3>2 DEF IndInv, SentInOrder
    <3>3. QED
      BY <1>1, <1>4, <3>1, <3>2
  <2>2. QED
    BY <2>1 DEF SentInOrder, MacSent
<1>11. LastSentStillReadable'
  <2>1. LastSentIdx' = C
    BY <1>1, <1>2 DEF LastSentIdx, Slots
  <2>2. QED
    BY <1>1, <1>4, <2>1 DEF LastSentStillReadable, MacSent
<1>12. WholeFrames'
  BY DEF IndInv, WholeFrames, MacSent
<1>13. QED
  BY <1>6, <1>7, <1>8, <1>9, <1>10, <1>11, <1>12 DEF IndInv

LEMMA NextInd == IndInv /\ [Next]_vars => IndInv'
<1> SUFFICES ASSUME IndInv, [Next]_vars PROVE IndInv'
  OBVIOUS
<1>1. TypeOK /\ Progress /\ Reservation
  BY DEF IndInv
<1>2. TypeOK' /\ Progress'
  BY <1>1, NextTyped
<1>3. CASE BeginFrame
  BY <1>2, <1>3, OnlyPcMoves DEF BeginFrame
<1>4. CASE GetTest1
  <2>1. CASE FullBelowConsume(Len(batch))
    BY <1>2, <1>4, <2>1, OnlyPcMoves DEF GetTest1
  <2>2. CASE ~FullBelowConsume(Len(batch))
    BY <1>1, <1>2, <1>4, <2>2, FirstHalf, OnlyPcMoves DEF GetTest1
  <2>3. QED
    BY <2>1, <2>2
<1>5. CASE GetTest2
  <2>1. CASE FullAtRingEnd(Len(batch))
    BY <1>2, <1>5, <2>1, OnlyPcMoves DEF GetTest2
  <2>2. CASE ~FullAtRingEnd(Len(batch))
    BY <1>1, <1>2, <1>5, <2>2, SecondHalf, OnlyPcMoves DEF GetTest2
  <2>3. QED
    BY <2>1, <2>2
<1>6. CASE Retry
  BY <1>2, <1>6, OnlyPcMoves DEF Retry
<1>7. CASE GiveUp
  BY <1>2, <1>7, OnlyPcMoves DEF GiveUp
<1>8. CASE Fill
  BY <1>2, <1>8, FillInd
<1>9. CASE DoneTest1
  <2>1. ~FullBelowConsume(Len(batch) - 1)
    BY <1>1, <1>9, NotFullAtDone DEF DoneTest1
  <2>2. QED
    BY <1>2, <1>9, <2>1, OnlyPcMoves DEF DoneTest1
<1>10. CASE DoneTest2
  <2>1. ~FullAtRingEnd(Len(batch) - 1)
    BY <1>1, <1>10, NotFullAtDone DEF DoneTest2
  <2>2. QED
    BY <1>2, <1>10, <2>1, OnlyPcMoves DEF DoneTest2
<1>11. CASE DonePublish
  BY <1>2, <1>11, PublishInd
<1>12. CASE MacFetch
  BY <1>2, <1>12, FetchInd
<1>13. CASE MacSent
  BY <1>2, <1>13, SentInd
<1>14. CASE UNCHANGED vars
  BY <1>1, <1>2, <1>14, OnlyPcMoves DEF vars, Reservation
<1>15. QED
  BY <1>3, <1>4, <1>5, <1>6, <1>7, <1>8, <1>9, <1>10, <1>11, <1>12, <1>13, <1>14
     DEF Next, Software, Mac

LEMMA Invariance == Spec => []IndInv
BY InitInd, NextInd, PTL DEF Spec

-----------------------------------------------------------------------------
(***************************************************************************)
(* Theorems                                                                *)
(***************************************************************************)

\* The registers and descriptors are the queue of fragments waiting to be sent,
\* for every ring size: the ring never laps and the hardware's descriptors are
\* never rewritten (ethernet.h:279-318).
THEOREM RingIsQueue == Spec => []RingMirrorsQueue
BY Invariance, PTL DEF IndInv

\* A descriptor granted by rflpc_eth_get_current_tx_packet_descriptor() belongs
\* to software, whatever the MAC did between the two reads of TxConsumeIndex.
THEOREM GrantIsSafe == Spec => []GrantedSlotIsFree
<1>1. IndInv => GrantedSlotIsFree
  BY DEF IndInv, Reservation, GrantedSlotIsFree
<1>2. QED
  BY <1>1, Invariance, PTL

\* rflpc_eth_get_last_sent_packet_idx() names a descriptor that still holds the
\* last fragment sent.
THEOREM LastSentIsStable == Spec => []LastSentStillReadable
BY Invariance, PTL DEF IndInv

\* The MAC never meets the end of the ring inside a frame.
THEOREM FramesAreWhole == Spec => []NoUnderrun
<1>1. IndInv => NoUnderrun
  <2> SUFFICES ASSUME IndInv, wire # << >>, ~wire[Len(wire)].last, C = P
               PROVE  FALSE
    BY DEF NoUnderrun
  <2>1. wire \in Seq(Fragment) /\ handed \in Seq(Fragment)
    BY DEF IndInv, TypeOK
  <2>2. Len(handed) = Len(wire)
    <3>1. Pending = 0
      BY DEF Pending, IndInv, TypeOK, Slots
    <3>2. Len(handed) - Len(wire) = 0
      BY <3>1 DEF IndInv, RingMirrorsQueue
    <3>3. QED
      BY <2>1, <3>2
  <2>3. Len(wire) \in 1 .. Len(wire)
    BY <2>1
  <2>4. wire[Len(wire)] = handed[Len(handed)]
    BY <2>2, <2>3 DEF IndInv, SentInOrder
  <2>5. handed # << >>
    BY <2>1, <2>2, <2>3
  <2>6. QED
    BY <2>4, <2>5 DEF IndInv, WholeFrames
<1>2. QED
  BY <1>1, Invariance, PTL

\* rflpc_eth_done_process_tx_packet() never drops a frame silently when every
\* descriptor of the frame was granted.
THEOREM NoSilentDrop == Spec => DoneNeverDrops
<1>1. IndInv /\ [Next]_vars => [(pc \in {"done1", "done2"}) => (batch' = batch)]_vars
  <2> SUFFICES ASSUME IndInv, [Next]_vars, pc \in {"done1", "done2"}
               PROVE  batch' = batch
    OBVIOUS
  <2>1. ~FullBelowConsume(Len(batch) - 1) /\ ~FullAtRingEnd(Len(batch) - 1)
    BY NotFullAtDone DEF IndInv
  <2>2. CASE DoneTest1
    BY <2>1, <2>2 DEF DoneTest1
  <2>3. CASE DoneTest2
    BY <2>1, <2>3 DEF DoneTest2
  <2>4. CASE Mac
    BY <2>4 DEF Mac, MacFetch, MacSent
  <2>5. CASE UNCHANGED vars
    BY <2>5 DEF vars
  <2>6. QED
    BY <2>2, <2>3, <2>4, <2>5
       DEF Next, Software, BeginFrame, GetTest1, GetTest2, Retry, GiveUp, Fill, DonePublish
<1>2. QED
  BY <1>1, Invariance, PTL DEF Spec, DoneNeverDrops

\* The ring implements a FIFO of N - 1 fragments: every step of the driver and of
\* the MAC is an Accept, a Deliver or nothing at all of FrameQueue.
THEOREM Refinement == Spec => ImplementsQueue
<1>1. Init => Queue!Init
  BY DEF Init, Queue!Init
<1>2. IndInv /\ IndInv' /\ [Next]_vars => [Queue!Next]_(Queue!queueVars)
  <2> SUFFICES ASSUME IndInv, IndInv', [Next]_vars
               PROVE  [Queue!Next]_(Queue!queueVars)
    OBVIOUS
  <2>1. CASE UNCHANGED <<handed, wire>>
    BY <2>1 DEF Queue!queueVars
  <2>2. CASE DonePublish
    <3>1. /\ handed \in Seq(Fragment) /\ batch \in Seq(Fragment) /\ wire \in Seq(Fragment)
          /\ Len(batch) > 0 /\ N \in Nat
          /\ Pending \in Int /\ Pending + Len(batch) <= N - 1
          /\ Len(handed) - Len(wire) = Pending
      BY <2>2, ProducerIndex, SizeAssumption
         DEF IndInv, TypeOK, Progress, Reservation, RingMirrorsQueue, DonePublish
    <3>2. /\ handed' = handed \o batch
          /\ wire' = wire
      BY <2>2 DEF DonePublish
    <3>3. /\ handed' \in Seq(Fragment)
          /\ Len(handed') = Len(handed) + Len(batch)
          /\ \A k \in 1 .. Len(handed) : handed'[k] = handed[k]
      BY <3>1, <3>2
    <3>4. Len(handed') \in (Len(handed) + 1) .. (Len(wire) + (N - 1))
      BY <3>1, <3>3
    <3>5. QED
      BY <3>2, <3>3, <3>4 DEF Queue!Next, Queue!Accept
  <2>3. CASE MacSent
    <3>1. /\ handed \in Seq(Fragment) /\ wire \in Seq(Fragment) /\ dma \in Fragment
          /\ Len(wire') = Len(wire) + 1 /\ Len(wire') <= Len(handed')
          /\ wire'[Len(wire')] = dma
          /\ handed' = handed
      <4>1. Len(handed') - Len(wire') >= 0
        BY ProducerIndex, SizeAssumption DEF IndInv, TypeOK, RingMirrorsQueue, Pending, Slots
      <4>2. QED
        BY <2>3, <4>1 DEF IndInv, TypeOK, MacSent
    <3>2. wire'[Len(wire')] = handed'[Len(wire')]
      BY <3>1 DEF IndInv, SentInOrder
    <3>3. wire' = Append(wire, handed[Len(wire) + 1]) /\ Len(wire) < Len(handed)
      BY <2>3, <3>1, <3>2 DEF MacSent
    <3>4. QED
      BY <3>1, <3>3 DEF Queue!Next, Queue!Deliver
  <2>4. QED
    BY <2>1, <2>2, <2>3
       DEF Next, Software, Mac, BeginFrame, GetTest1, GetTest2, Retry, GiveUp, Fill,
           DoneTest1, DoneTest2, MacFetch, vars
<1>3. QED
  BY <1>1, <1>2, Invariance, PTL DEF Spec, ImplementsQueue, Queue!Spec
=============================================================================
