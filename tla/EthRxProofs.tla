---------------------------- MODULE EthRxProofs -----------------------------
(***************************************************************************)
(* Proofs about the receive ring, alone, under the interrupt handler that  *)
(* reads it, and in the echo program, for every size of the rings, every   *)
(* bound and every set of frames.                                          *)
(*                                                                         *)
(* RingMirrorsQueue becomes inductive with two facts: the MAC only writes  *)
(* while a descriptor is free behind the one it writes (so publishing      *)
(* never laps the consumer), and software holds the oldest descriptor of   *)
(* the ring from Get to Done (so Done never finds the ring empty).         *)
(*                                                                         *)
(* The handler takes steps of the polling loop or leaves the ring alone,   *)
(* so everything proved of the ring holds under interrupts.  What the      *)
(* handler strands is bounded by three facts: outside its loop everything  *)
(* it found is processed, it is only entered with RX_DONE raised, and a    *)
(* frame published after its return raises RX_DONE again.                  *)
(*                                                                         *)
(* Every step of the echo program and of the MAC is a step of each of its  *)
(* two rings or leaves it alone, so the inductive invariants of the rings  *)
(* hold there too.  What joins them is Answering: while the transmit       *)
(* driver is at work, the receive ring holds the request being answered,   *)
(* and the frame that is filled is the reply to it.                        *)
(***************************************************************************)
EXTENDS EthRxIrq, UdpEcho, TLAPS

\* The MAC writes only when it may publish.
MacHasRoom == dma # NoFrame => Waiting < N - 1

\* Software holds the descriptor at C, and has counted its frame once.
HoldsOldest ==
  /\ pc \in {"use", "done"} => (d = C /\ Waiting > 0)
  /\ pc = "done" => Len(processed) > 0

\* What was processed is what was received, in order.
ProcessedInOrder == \A k \in 1 .. Len(processed) : processed[k] = received[k]

IndInv ==
  /\ TypeOK
  /\ RingMirrorsQueue
  /\ MacHasRoom
  /\ HoldsOldest
  /\ ProcessedInOrder

-----------------------------------------------------------------------------
(***************************************************************************)
(* Type correctness                                                        *)
(***************************************************************************)

LEMMA InitTyped == Init => TypeOK
BY SizeAssumption DEF Init, TypeOK, Slots

LEMMA NextTyped == TypeOK /\ [Next]_ringVars => TypeOK'
<1> SUFFICES ASSUME TypeOK, [Next]_ringVars
             PROVE  TypeOK'
  OBVIOUS
<1> USE SizeAssumption DEF TypeOK, Slots
<1>1. CASE Get
  BY <1>1 DEF Get
<1>2. CASE Process
  BY <1>2 DEF Process
<1>3. CASE Done
  BY <1>3 DEF Done, RxAvailable
<1>4. CASE MacWrite
  BY <1>4 DEF MacWrite
<1>5. CASE MacPublish
  BY <1>5 DEF MacPublish
<1>6. CASE UNCHANGED ringVars
  BY <1>6 DEF ringVars
<1>7. QED
  BY <1>1, <1>2, <1>3, <1>4, <1>5, <1>6 DEF Next, Software

\* Every variable keeps its type: neither index register leaves the ring.
THEOREM TypeCorrect == Spec => []TypeOK
BY InitTyped, NextTyped, PTL DEF Spec

-----------------------------------------------------------------------------
(***************************************************************************)
(* The inductive invariant                                                 *)
(***************************************************************************)

LEMMA InitInd == Init => IndInv
<1> SUFFICES ASSUME Init PROVE IndInv
  OBVIOUS
<1>1. TypeOK
  BY InitTyped
<1>2. Waiting = 0 /\ Released = 0 /\ Len(received) = 0 /\ Len(processed) = 0
  BY <1>1 DEF Init, Waiting, Released, TypeOK, Slots
<1>3. QED
  BY <1>1, <1>2
     DEF Init, IndInv, RingMirrorsQueue, MacHasRoom, HoldsOldest, ProcessedInOrder

\* What the invariant says of numbers and types, in one place.
LEMMA Facts ==
  ASSUME IndInv
  PROVE  /\ N \in Nat /\ N > 1
         /\ P \in 0 .. (N - 1) /\ C \in 0 .. (N - 1)
         /\ Waiting \in 0 .. (N - 1)
         /\ P = Ahead(C, Waiting)
         /\ received \in Seq(Frames) /\ processed \in Seq(Frames \union {NoFrame})
         /\ Released \in Nat /\ Len(received) = Released + Waiting
<1>1. /\ N \in Nat /\ N > 1
      /\ P \in 0 .. (N - 1) /\ C \in 0 .. (N - 1)
      /\ received \in Seq(Frames) /\ processed \in Seq(Frames \union {NoFrame})
  BY SizeAssumption DEF IndInv, TypeOK, Slots
<1>2. Waiting \in 0 .. (N - 1) /\ P = Ahead(C, Waiting)
  BY <1>1 DEF Waiting, Ahead
<1>3. Released \in Nat
  BY <1>1 DEF IndInv, HoldsOldest, Released
<1>4. Len(received) = Released + Waiting
  BY <1>1, <1>2, <1>3 DEF IndInv, RingMirrorsQueue
<1>5. QED
  BY <1>1, <1>2, <1>3, <1>4

\* Places before the w-th after c are in the ring and other than it.
LEMMA DistinctPlaces ==
  ASSUME NEW n \in Nat, NEW c \in 0 .. (n - 1), NEW w \in 0 .. (n - 1), NEW i \in 0 .. (w - 1)
  PROVE  LET at(j) == IF c + j < n THEN c + j ELSE c + j - n
         IN  at(i) \in 0 .. (n - 1) /\ at(i) # at(w)
BY SMT

\* The oldest waiting frame is in the buffer at C.
LEMMA Oldest ==
  ASSUME IndInv, Waiting > 0
  PROVE  buf[C] = received[Released + 1]
<1>1. Ahead(C, 1 - 1) = C /\ 1 \in 1 .. Waiting
  BY Facts DEF Ahead
<1>2. QED
  BY <1>1 DEF IndInv, RingMirrorsQueue

LEMMA GetInd ==
  ASSUME IndInv, Get, TypeOK'
  PROVE  IndInv'
<1>1. Waiting' = Waiting /\ Released' = Released
  BY DEF Get, Waiting, Released
<1>2. Waiting > 0
  BY Facts DEF Get, RxAvailable, Waiting
<1>3. RingMirrorsQueue'
  BY <1>1 DEF IndInv, RingMirrorsQueue, Get, Ahead
<1>4. MacHasRoom' /\ HoldsOldest' /\ ProcessedInOrder'
  BY <1>1, <1>2 DEF IndInv, MacHasRoom, HoldsOldest, ProcessedInOrder, Get
<1>5. QED
  BY <1>3, <1>4 DEF IndInv

LEMMA ProcessInd ==
  ASSUME IndInv, Process, TypeOK'
  PROVE  IndInv'
<1>1. /\ Waiting > 0 /\ d = C
      /\ Released = Len(processed)
  BY DEF IndInv, HoldsOldest, Process, Released
<1>2. buf[d] = received[Len(processed) + 1]
  BY <1>1, Oldest
<1>3. /\ Len(processed') = Len(processed) + 1
      /\ processed'[Len(processed) + 1] = buf[d]
      /\ \A k \in 1 .. Len(processed) : processed'[k] = processed[k]
  <2>1. buf[d] \in Frames \union {NoFrame}
    BY DEF IndInv, TypeOK
  <2>2. QED
    BY <2>1, Facts DEF Process
<1>4. Waiting' = Waiting /\ Released' = Released
  <2>1. Waiting' = Waiting
    BY DEF Process, Waiting
  <2>2. Released' = Len(processed') - 1
    BY DEF Process, Released
  <2>3. QED
    BY <1>1, <1>3, <2>1, <2>2, Facts
<1>5. RingMirrorsQueue'
  BY <1>4 DEF IndInv, RingMirrorsQueue, Process, Ahead
<1>6. ProcessedInOrder'
  <2>1. ASSUME NEW k \in 1 .. Len(processed')
        PROVE  processed'[k] = received[k]
    <3>1. CASE k = Len(processed) + 1
      BY <1>2, <1>3, <3>1
    <3>2. CASE k \in 1 .. Len(processed)
      BY <1>3, <3>2 DEF IndInv, ProcessedInOrder
    <3>3. QED
      BY <1>3, <3>1, <3>2, Facts
  <2>2. QED
    BY <2>1 DEF ProcessedInOrder, Process
<1>7. MacHasRoom' /\ HoldsOldest'
  BY <1>1, <1>3, <1>4, Facts DEF IndInv, MacHasRoom, HoldsOldest, Process
<1>8. QED
  BY <1>5, <1>6, <1>7 DEF IndInv

LEMMA DoneInd ==
  ASSUME IndInv, Done, TypeOK'
  PROVE  IndInv'
<1>1. Waiting > 0 /\ Released = Len(processed) - 1
  BY DEF IndInv, HoldsOldest, Done, Released
<1>2. C # P
  BY <1>1, Facts DEF Waiting
<1>3. C' = (IF C = N - 1 THEN 0 ELSE C + 1) /\ C' \in 0 .. (N - 1)
  BY <1>2, Facts DEF Done, RxAvailable
<1>4. Waiting' = Waiting - 1
  <2>1. P' = P
    BY DEF Done
  <2>2. N \in Nat /\ P \in 0 .. (N - 1) /\ C \in 0 .. (N - 1)
    BY Facts
  <2>3. CASE C = N - 1
    BY <1>2, <1>3, <2>1, <2>2, <2>3 DEF Waiting
  <2>4. CASE C # N - 1
    <3>1. C' = C + 1
      BY <1>3, <2>4
    <3>2. QED
      BY <1>2, <2>1, <2>2, <3>1 DEF Waiting
  <2>5. QED
    BY <2>3, <2>4
<1>5. Released' = Released + 1
  BY <1>1, Facts DEF Done, Released
<1>6. RingMirrorsQueue'
  <2>1. Len(received') - Released' = Waiting'
    <3>1. received' = received
      BY DEF Done
    <3>2. QED
      BY <1>4, <1>5, <3>1, Facts
  <2>2. ASSUME NEW k \in 1 .. (Waiting - 1)
        PROVE  buf[Ahead(C', k - 1)] = received[(Released + 1) + k]
    <3>1. k + 1 \in 1 .. Waiting /\ (k + 1) - 1 = k
      BY Facts
    <3>2. Ahead(C', k - 1) = Ahead(C, (k + 1) - 1)
      <4>1. C \in 0 .. (N - 1) /\ N \in Nat /\ k \in Nat
        BY Facts
      <4>2. CASE C = N - 1
        BY <1>3, <4>2, Facts DEF Ahead
      <4>3. CASE C < N - 1
        <5>1. C' = C + 1
          BY <1>3, <4>3, Facts
        <5>2. QED
          BY <4>1, <5>1 DEF Ahead
      <4>4. QED
        BY <4>1, <4>2, <4>3
    <3>3. buf[Ahead(C, (k + 1) - 1)] = received[Released + (k + 1)]
      BY <3>1 DEF IndInv, RingMirrorsQueue
    <3>4. Released + (k + 1) = (Released + 1) + k
      BY Facts
    <3>5. QED
      BY <3>2, <3>3, <3>4
  <2>3. buf' = buf /\ received' = received
    BY DEF Done
  <2>4. QED
    BY <1>4, <1>5, <2>1, <2>2, <2>3 DEF RingMirrorsQueue, Ahead
<1>7. MacHasRoom'
  BY <1>4, Facts DEF IndInv, MacHasRoom, Done
<1>8. HoldsOldest' /\ ProcessedInOrder'
  BY DEF IndInv, HoldsOldest, ProcessedInOrder, Done
<1>9. QED
  BY <1>6, <1>7, <1>8 DEF IndInv

LEMMA WriteInd ==
  ASSUME IndInv, MacWrite, TypeOK'
  PROVE  IndInv'
<1>1. Waiting' = Waiting /\ Released' = Released
  BY DEF MacWrite, Waiting, Released
<1>2. Waiting < N - 1
  BY Facts DEF MacWrite, Waiting
<1>3. \A k \in 1 .. Waiting : Ahead(C, k - 1) \in Slots /\ Ahead(C, k - 1) # P
  <2>1. /\ N \in Nat /\ N > 1 /\ C \in 0 .. (N - 1)
        /\ Waiting \in 0 .. (N - 1) /\ P = Ahead(C, Waiting)
    BY Facts
  <2>2. SUFFICES ASSUME NEW k \in 1 .. Waiting
                 PROVE  Ahead(C, k - 1) \in Slots /\ Ahead(C, k - 1) # P
    OBVIOUS
  <2>3. k - 1 \in 0 .. (Waiting - 1)
    BY <2>1
  <2>4. Ahead(C, k - 1) \in 0 .. (N - 1) /\ Ahead(C, k - 1) # Ahead(C, Waiting)
    BY <2>1, <2>3, DistinctPlaces DEF Ahead
  <2>5. QED
    BY <2>1, <2>4 DEF Slots
<1>4. \A i \in Slots : i # P => buf'[i] = buf[i]
  BY DEF MacWrite, IndInv, TypeOK
<1>5. RingMirrorsQueue'
  <2>1. Len(received') - Released' = Waiting'
    BY <1>1 DEF IndInv, RingMirrorsQueue, MacWrite
  <2>2. ASSUME NEW k \in 1 .. Waiting
        PROVE  buf'[Ahead(C, k - 1)] = received[Released + k]
    BY <1>3, <1>4 DEF IndInv, RingMirrorsQueue
  <2>3. C' = C /\ received' = received
    BY DEF MacWrite
  <2>4. QED
    BY <1>1, <2>1, <2>2, <2>3 DEF RingMirrorsQueue, Ahead
<1>6. MacHasRoom'
  BY <1>1, <1>2 DEF MacHasRoom
<1>7. HoldsOldest' /\ ProcessedInOrder'
  BY <1>1 DEF IndInv, HoldsOldest, ProcessedInOrder, MacWrite
<1>8. QED
  BY <1>5, <1>6, <1>7 DEF IndInv

LEMMA PublishInd ==
  ASSUME IndInv, MacPublish, TypeOK'
  PROVE  IndInv'
<1>1. Waiting < N - 1
  BY DEF IndInv, MacHasRoom, MacPublish
<1>2. P' = (IF P = N - 1 THEN 0 ELSE P + 1) /\ C' = C
  BY DEF MacPublish
<1>3. Waiting' = Waiting + 1
  <2>1. N \in Nat /\ N > 1 /\ P \in 0 .. (N - 1) /\ C \in 0 .. (N - 1)
    BY Facts
  <2>2. CASE P = N - 1
    BY <1>1, <1>2, <2>1, <2>2 DEF Waiting
  <2>3. CASE P # N - 1
    BY <1>1, <1>2, <2>1, <2>3 DEF Waiting
  <2>4. QED
    BY <2>2, <2>3
<1>4. Released' = Released
  BY DEF MacPublish, Released
<1>5. dma \in Frames /\ dma # NoFrame
  BY DEF MacPublish, IndInv, TypeOK
<1>6. /\ Len(received') = Len(received) + 1
      /\ received'[Len(received) + 1] = dma
      /\ \A k \in 1 .. Len(received) : received'[k] = received[k]
  BY <1>5, Facts DEF MacPublish
<1>7. /\ P \in Slots /\ buf'[P] = dma
      /\ \A i \in Slots : i # P => buf'[i] = buf[i]
  BY DEF MacPublish, IndInv, TypeOK
<1>8. RingMirrorsQueue'
  <2>1. Len(received') - Released' = Waiting'
    BY <1>3, <1>4, <1>6, Facts
  <2>2. ASSUME NEW k \in 1 .. (Waiting + 1)
        PROVE  buf'[Ahead(C, k - 1)] = received'[Released + k]
    <3>1. CASE k = Waiting + 1
      <4>1. Ahead(C, k - 1) = P /\ Released + k = Len(received) + 1
        BY <3>1, Facts
      <4>2. QED
        BY <1>6, <1>7, <4>1
    <3>2. CASE k \in 1 .. Waiting
      <4>1. Ahead(C, k - 1) \in Slots /\ Ahead(C, k - 1) # P
        <5>1. k - 1 \in 0 .. (Waiting - 1)
          BY <3>2, Facts
        <5>2. Ahead(C, k - 1) \in 0 .. (N - 1) /\ Ahead(C, k - 1) # Ahead(C, Waiting)
          BY <5>1, Facts, DistinctPlaces DEF Ahead
        <5>3. QED
          BY <5>2, Facts DEF Slots
      <4>2. Released + k \in 1 .. Len(received)
        BY <3>2, Facts
      <4>3. buf[Ahead(C, k - 1)] = received[Released + k]
        BY <3>2 DEF IndInv, RingMirrorsQueue
      <4>4. QED
        BY <1>6, <1>7, <4>1, <4>2, <4>3
    <3>3. QED
      BY <3>1, <3>2, Facts
  <2>3. QED
    BY <1>2, <1>3, <1>4, <2>1, <2>2 DEF RingMirrorsQueue, Ahead
<1>9. MacHasRoom'
  BY DEF MacPublish, MacHasRoom
<1>10. HoldsOldest'
  BY <1>2, <1>3, Facts DEF IndInv, HoldsOldest, MacPublish
<1>11. ProcessedInOrder'
  <2>1. \A k \in 1 .. Len(processed) : k \in 1 .. Len(received)
    BY Facts DEF IndInv, HoldsOldest, Released
  <2>2. processed' = processed
    BY DEF MacPublish
  <2>3. QED
    BY <1>6, <2>1, <2>2 DEF IndInv, ProcessedInOrder
<1>12. QED
  BY <1>8, <1>9, <1>10, <1>11 DEF IndInv

LEMMA NextInd == IndInv /\ [Next]_ringVars => IndInv'
<1> SUFFICES ASSUME IndInv, [Next]_ringVars PROVE IndInv'
  OBVIOUS
<1>1. TypeOK'
  BY NextTyped DEF IndInv
<1>2. CASE UNCHANGED ringVars
  BY <1>2 DEF ringVars, IndInv, TypeOK, RingMirrorsQueue, MacHasRoom, HoldsOldest,
              ProcessedInOrder, Waiting, Released, Ahead
<1>3. QED
  BY <1>1, <1>2, GetInd, ProcessInd, DoneInd, WriteInd, PublishInd DEF Next, Software

LEMMA Invariance == Spec => []IndInv
BY InitInd, NextInd, PTL DEF Spec

-----------------------------------------------------------------------------
(***************************************************************************)
(* Theorems                                                                *)
(***************************************************************************)

\* The registers and the buffers are the queue of frames waiting to be processed,
\* for every ring size (ethernet.h:217-253).
THEOREM RingIsQueue == Spec => []RingMirrorsQueue
BY Invariance, PTL DEF IndInv

\* The MAC never touches the buffer software reads.
THEOREM HeldIsStable == Spec => []HeldFrameIsStable
<1>1. IndInv => HeldFrameIsStable
  <2> SUFFICES ASSUME IndInv, pc \in {"use", "done"} PROVE HeldFrameIsStable
    BY DEF HeldFrameIsStable
  <2>1. d = C /\ Waiting > 0
    BY DEF IndInv, HoldsOldest
  <2>2. C # P
    BY <2>1, Facts DEF Waiting
  <2>3. QED
    BY <2>1, <2>2, Facts, Oldest DEF HeldFrameIsStable
<1>2. QED
  BY <1>1, Invariance, PTL

\* The ring implements a FIFO of N - 1 frames.
THEOREM Refinement == Spec => ImplementsQueue
<1>1. Init => Queue!Init
  BY DEF Init, Queue!Init
<1>2. IndInv /\ IndInv' /\ [Next]_ringVars => [Queue!Next]_(Queue!queueVars)
  <2> SUFFICES ASSUME IndInv, IndInv', [Next]_ringVars
               PROVE  [Queue!Next]_(Queue!queueVars)
    OBVIOUS
  <2>1. CASE UNCHANGED <<received, processed>>
    BY <2>1 DEF Queue!queueVars
  <2>2. CASE MacPublish
    <3>1. dma \in Frames /\ received' = Append(received, dma) /\ processed' = processed
      BY <2>2 DEF MacPublish, IndInv, TypeOK
    <3>2. /\ received' \in Seq(Frames)
          /\ Len(received') = Len(received) + 1
          /\ \A k \in 1 .. Len(received) : received'[k] = received[k]
      BY <3>1, Facts
    <3>3. Waiting + 1 <= N - 1
      BY <2>2, Facts DEF IndInv, MacHasRoom, MacPublish
    <3>4. Released <= Len(processed)
      BY Facts DEF Released
    <3>5. Len(received') \in (Len(received) + 1) .. (Len(processed) + (N - 1))
      BY <3>2, <3>3, <3>4, Facts
    <3>6. QED
      BY <3>1, <3>2, <3>5 DEF Queue!Next, Queue!Accept
  <2>3. CASE Process
    <3>1. /\ Waiting > 0 /\ d = C /\ Released = Len(processed)
      BY <2>3 DEF IndInv, HoldsOldest, Process, Released
    <3>2. buf[d] = received[Len(processed) + 1]
      BY <3>1, Oldest
    <3>3. Len(processed) < Len(received)
      BY <3>1, Facts
    <3>4. QED
      BY <2>3, <3>2, <3>3 DEF Process, Queue!Next, Queue!Deliver
  <2>4. QED
    BY <2>1, <2>2, <2>3 DEF Next, Software, Get, Done, MacWrite, ringVars
<1>3. QED
  BY <1>1, <1>2, Invariance, PTL DEF Spec, ImplementsQueue, Queue!Spec

-----------------------------------------------------------------------------
(***************************************************************************)
(* The interrupt handler                                                   *)
(***************************************************************************)

\* The variables of the handler have their types.
IrqTyped == rxDone \in BOOLEAN /\ status \in BOOLEAN

\* Outside its loop the handler has processed all it found when it left the loop.
LoopLeftDone == isr # "loop" => Len(processed) = left

\* The handler starts with RX_DONE raised: only its own clear lowers it.
RaisedOnEntry == isr = "status" => rxDone

\* While no interrupt is pending nothing was published since the handler returned.
NothingSinceReturn == (isr = "main" /\ ~rxDone) => Len(received) = back

IrqInv == IrqTyped /\ LoopLeftDone /\ RaisedOnEntry /\ NothingSinceReturn

\* Whatever the handler and the MAC do, the ring takes a step of EthRx or none.
LEMMA IrqStepIsRingStep == [NextIrq]_irqVars => [Next]_ringVars
BY DEF NextIrq, Enter, Handler, TestStatus, Loop, LeaveLoop, ReadStatus, ClearStatus,
       MacWriteIrq, MacPublishIrq, irqVars, Next

\* The ring read from the interrupt handler is the ring of the polling loop
\* (samples/dhcp/simple_net.c:46-57).
THEOREM HandlerKeepsRing == SpecIrq => Spec
<1>1. InitIrq => Init
  BY DEF InitIrq
<1>2. QED
  BY <1>1, IrqStepIsRingStep, PTL DEF SpecIrq, Spec

\* The frame the handler reads is not written by the MAC meanwhile.
THEOREM IrqHeldIsStable == SpecIrq => []HeldFrameIsStable
BY HandlerKeepsRing, HeldIsStable, PTL

\* Under interrupts too the ring is a FIFO of N - 1 frames.
THEOREM IrqRefinement == SpecIrq => ImplementsQueue
BY HandlerKeepsRing, Refinement, PTL

-----------------------------------------------------------------------------
LEMMA InitIrqInv == InitIrq => IrqInv
BY DEF InitIrq, Init, IrqInv, IrqTyped, LoopLeftDone, RaisedOnEntry, NothingSinceReturn

\* An empty ring with nothing held means that all was processed.
LEMMA EmptyMeansProcessed ==
  ASSUME IndInv, pc = "check", ~RxAvailable
  PROVE  Len(processed) = Len(received)
<1>1. Waiting = 0
  BY Facts DEF RxAvailable, Waiting
<1>2. Released = Len(processed)
  BY DEF Released
<1>3. QED
  BY <1>1, <1>2, Facts

LEMMA NextIrqInv == IndInv /\ IrqInv /\ [NextIrq]_irqVars => IrqInv'
<1> SUFFICES ASSUME IndInv, IrqInv, [NextIrq]_irqVars
             PROVE  IrqInv'
  OBVIOUS
<1> USE DEF IrqInv, IrqTyped, LoopLeftDone, RaisedOnEntry, NothingSinceReturn
<1>1. CASE Enter
  BY <1>1 DEF Enter, ringVars
<1>2. CASE TestStatus
  BY <1>2 DEF TestStatus, ringVars
<1>3. CASE Loop
  BY <1>3 DEF Loop
<1>4. CASE LeaveLoop
  BY <1>4, EmptyMeansProcessed DEF LeaveLoop, ringVars
<1>5. CASE ReadStatus
  BY <1>5 DEF ReadStatus, ringVars
<1>6. CASE ClearStatus
  BY <1>6 DEF ClearStatus, ringVars
<1>7. CASE MacWriteIrq
  BY <1>7 DEF MacWriteIrq, MacWrite
<1>8. CASE MacPublishIrq
  BY <1>8 DEF MacPublishIrq, MacPublish
<1>9. CASE UNCHANGED irqVars
  BY <1>9 DEF irqVars, ringVars
<1>10. QED
  BY <1>1, <1>2, <1>3, <1>4, <1>5, <1>6, <1>7, <1>8, <1>9 DEF NextIrq, Handler

\* Frames stay in the ring without a pending interrupt only if the MAC published
\* them between the handler's last look and its clear of IntStatus.
THEOREM StrandedInWindow == SpecIrq => []StrandedOnlyInWindow
<1>1. SpecIrq => []IndInv
  BY HandlerKeepsRing, Invariance, PTL
<1>2. IrqInv => StrandedOnlyInWindow
  BY DEF IrqInv, LoopLeftDone, NothingSinceReturn, StrandedOnlyInWindow
<1>3. QED
  BY <1>1, <1>2, InitIrqInv, NextIrqInv, PTL DEF SpecIrq

-----------------------------------------------------------------------------
(***************************************************************************)
(* The echo program over its two rings implements EchoService              *)
(***************************************************************************)

\* The theorems of the transmit ring, about the ring of this program.
TxRing == INSTANCE EthTxProofs WITH
  N <- TxN, Frames <- Clients, MaxBatch <- 1, MaxFrags <- MaxFrames,
  P <- tP, C <- tC, slot <- tslot, dma <- tdma, pc <- tpc, batch <- tbatch,
  handed <- thanded, wire <- twire

\* The driver is entered to answer the request that software holds, and a frame that
\* is filled is the reply to it.
Answering ==
  /\ tpc # "idle" => pc = "use" /\ Asks(buf[d])
  /\ tpc \in {"done1", "done2", "publish"} => tbatch = <<ReplyTo(buf[d])>>

EchoInv == IndInv /\ TxRing!IndInv /\ Answering

-----------------------------------------------------------------------------
(***************************************************************************)
(* The steps of the program, seen from each ring                           *)
(***************************************************************************)

\* Both instances of EthTx are one: the second only brings its proofs.
LEMMA OneRing ==
  /\ Tx!Init => TxRing!Init
  /\ [Tx!Next]_(Tx!vars) => [TxRing!Next]_(TxRing!vars)
<1>1. Tx!Init => TxRing!Init
  BY DEF Tx!Init, TxRing!Init, Tx!Slots, TxRing!Slots
<1>2. UNCHANGED Tx!vars => UNCHANGED TxRing!vars
  BY DEF Tx!vars, TxRing!vars
<1>3. Tx!BeginFrame => TxRing!BeginFrame
  BY DEF Tx!BeginFrame, TxRing!BeginFrame
<1>4. Tx!GetTest1 => TxRing!GetTest1
  BY DEF Tx!GetTest1, TxRing!GetTest1, Tx!FullBelowConsume, TxRing!FullBelowConsume,
         Tx!TxIndexInc, TxRing!TxIndexInc, Tx!ConsumeMinus1, TxRing!ConsumeMinus1
<1>5. Tx!GetTest2 => TxRing!GetTest2
  BY DEF Tx!GetTest2, TxRing!GetTest2, Tx!FullAtRingEnd, TxRing!FullAtRingEnd,
         Tx!TxIndexInc, TxRing!TxIndexInc
<1>6. Tx!Retry => TxRing!Retry
  BY DEF Tx!Retry, TxRing!Retry
<1>7. Tx!GiveUp => TxRing!GiveUp
  BY DEF Tx!GiveUp, TxRing!GiveUp
<1>8. Tx!Fill => TxRing!Fill
  BY DEF Tx!Fill, TxRing!Fill, Tx!TxIndexInc, TxRing!TxIndexInc
<1>9. Tx!DoneTest1 => TxRing!DoneTest1
  BY DEF Tx!DoneTest1, TxRing!DoneTest1, Tx!FullBelowConsume, TxRing!FullBelowConsume,
         Tx!TxIndexInc, TxRing!TxIndexInc, Tx!ConsumeMinus1, TxRing!ConsumeMinus1
<1>10. Tx!DoneTest2 => TxRing!DoneTest2
  BY DEF Tx!DoneTest2, TxRing!DoneTest2, Tx!FullAtRingEnd, TxRing!FullAtRingEnd,
         Tx!TxIndexInc, TxRing!TxIndexInc
<1>11. Tx!DonePublish => TxRing!DonePublish
  BY DEF Tx!DonePublish, TxRing!DonePublish, Tx!TxIndexInc, TxRing!TxIndexInc
<1>12. Tx!Mac => TxRing!Mac
  BY DEF Tx!Mac, TxRing!Mac, Tx!MacFetch, TxRing!MacFetch, Tx!MacSent, TxRing!MacSent
<1>13. QED
  BY <1>1, <1>2, <1>3, <1>4, <1>5, <1>6, <1>7, <1>8, <1>9, <1>10, <1>11, <1>12
     DEF Tx!Next, TxRing!Next, Tx!Software, TxRing!Software

\* The program takes no step that the rings do not have.
LEMMA BothRingsStep ==
  [NextEcho]_echoVars => [Next]_ringVars /\ [Tx!Next]_(Tx!vars)
<1> SUFFICES ASSUME [NextEcho]_echoVars
             PROVE  [Next]_ringVars /\ [Tx!Next]_(Tx!vars)
  OBVIOUS
<1>1. UNCHANGED txVars => UNCHANGED Tx!vars
  BY DEF txVars, Tx!vars
<1>2. CASE UNCHANGED echoVars
  BY <1>1, <1>2 DEF echoVars
<1>3. CASE Poll
  BY <1>1, <1>3 DEF Poll, Next, Software
<1>4. CASE Filtered
  BY <1>1, <1>4 DEF Filtered, Next, Software
<1>5. CASE AskDescriptor
  BY <1>5 DEF AskDescriptor, Tx!Next, Tx!Software
<1>6. CASE TestFull
  BY <1>6 DEF TestFull, Tx!Next, Tx!Software
<1>7. CASE QueueFull
  BY <1>7 DEF QueueFull, Tx!Next, Tx!Software, Next, Software
<1>8. CASE BuildReply
  BY <1>8 DEF BuildReply, Tx!Next, Tx!Software
<1>9. CASE HandOver
  BY <1>9 DEF HandOver, Tx!Next, Tx!Software, Next, Software
<1>10. CASE MacReceive
  BY <1>1, <1>10 DEF MacReceive, Next
<1>11. CASE MacSend
  BY <1>11 DEF MacSend, Tx!Next
<1>12. QED
  BY <1>2, <1>3, <1>4, <1>5, <1>6, <1>7, <1>8, <1>9, <1>10, <1>11 DEF NextEcho, Main

\* What is proved of the transmit ring needs its two assumptions.
LEMMA TxInit == TxRing!Init => TxRing!IndInv
BY TxRing!InitInd, TxAssumption
   DEF Tx!SizeAssumption, Tx!NoFragAssumption, Tx!Fragment, TxRing!Fragment

LEMMA TxNext == TxRing!IndInv /\ [TxRing!Next]_(TxRing!vars) => TxRing!IndInv'
BY TxRing!NextInd, TxAssumption
   DEF Tx!SizeAssumption, Tx!NoFragAssumption, Tx!Fragment, TxRing!Fragment

LEMMA TxNeverDrops ==
  ASSUME TxRing!IndInv
  PROVE  Tx!DoneTest1 \/ Tx!DoneTest2 => tpc' # "idle"
<1>1. ASSUME tpc \in {"done1", "done2", "publish"}
      PROVE  /\ ~TxRing!FullBelowConsume(Len(tbatch) - 1)
             /\ ~TxRing!FullAtRingEnd(Len(tbatch) - 1)
  BY <1>1, TxRing!NotFullAtDone, TxAssumption
     DEF TxRing!IndInv, Tx!SizeAssumption, Tx!NoFragAssumption, Tx!Fragment, TxRing!Fragment
<1>2. QED
  BY <1>1
     DEF Tx!DoneTest1, Tx!DoneTest2,
         Tx!FullBelowConsume, TxRing!FullBelowConsume, Tx!FullAtRingEnd, TxRing!FullAtRingEnd,
         Tx!TxIndexInc, TxRing!TxIndexInc, Tx!ConsumeMinus1, TxRing!ConsumeMinus1

\* Numbers and types of the transmit ring, in one place.
LEMMA TxFacts ==
  ASSUME TxRing!IndInv
  PROVE  /\ TxN \in Nat /\ TxN > 1
         /\ tP \in 0 .. (TxN - 1) /\ tC \in 0 .. (TxN - 1)
         /\ thanded \in Seq(Tx!Fragment) /\ twire \in Seq(Tx!Fragment)
         /\ tbatch \in Seq(Tx!Fragment)
         /\ tpc \in Tx!PCs
         /\ TxRing!Pending = Len(thanded) - Len(twire)
         /\ TxRing!Pending + Len(tbatch) <= TxN - 1
         /\ tpc \in {"idle", "get1", "get2", "refused", "fill"} => tbatch = << >>
<1>1. /\ TxN \in Nat /\ TxN > 1
      /\ tP \in 0 .. (TxN - 1) /\ tC \in 0 .. (TxN - 1)
      /\ thanded \in Seq(Tx!Fragment) /\ twire \in Seq(Tx!Fragment)
      /\ tbatch \in Seq(Tx!Fragment)
      /\ tpc \in Tx!PCs
  BY TxAssumption
     DEF TxRing!IndInv, TxRing!TypeOK, TxRing!Slots, TxRing!Fragment, Tx!Fragment,
         TxRing!PCs, Tx!PCs, Tx!SizeAssumption
<1>2. /\ TxRing!Pending = Len(thanded) - Len(twire)
      /\ TxRing!Pending + Len(tbatch) <= TxN - 1
  <2>1. TxRing!Pending \in Int
    BY <1>1 DEF TxRing!Pending
  <2>2. QED
    BY <1>1, <2>1 DEF TxRing!IndInv, TxRing!RingMirrorsQueue, TxRing!Reservation
<1>3. tpc \in {"idle", "get1", "get2", "refused", "fill"} => tbatch = << >>
  BY <1>1 DEF TxRing!IndInv, TxRing!Progress
<1>4. QED
  BY <1>1, <1>2, <1>3

-----------------------------------------------------------------------------
(***************************************************************************)
(* The inductive invariant                                                 *)
(***************************************************************************)

LEMMA EchoInit == InitEcho => EchoInv
<1>1. InitEcho => Answering
  BY DEF InitEcho, Answering, Tx!Init
<1>2. QED
  BY <1>1, InitInd, OneRing, TxInit DEF InitEcho, EchoInv

\* What software holds is a frame received, and nothing that the MAC does changes it.
LEMMA HeldRequest ==
  ASSUME IndInv, pc = "use"
  PROVE  /\ d = C /\ d # P /\ d \in Slots
         /\ Len(processed) < Len(received)
         /\ buf[d] = received[Len(processed) + 1]
         /\ buf[d] \in Frames
<1>1. d = C /\ Waiting > 0 /\ Released = Len(processed)
  BY DEF IndInv, HoldsOldest, Released
<1>2. C # P /\ d \in Slots
  BY <1>1, Facts DEF Waiting, Slots
<1>3. Len(processed) < Len(received) /\ buf[d] = received[Len(processed) + 1]
  BY <1>1, Facts, Oldest
<1>4. Len(processed) + 1 \in 1 .. Len(received)
  BY <1>3, Facts
<1>5. buf[d] \in Frames
  BY <1>3, <1>4, Facts
<1>6. QED
  BY <1>1, <1>2, <1>3, <1>5

LEMMA HeldStays ==
  ASSUME IndInv, pc = "use", MacWrite \/ MacPublish
  PROVE  UNCHANGED <<pc, d, buf[d]>>
BY HeldRequest DEF IndInv, TypeOK, MacWrite, MacPublish

LEMMA AnsweringInd ==
  ASSUME EchoInv, [NextEcho]_echoVars
  PROVE  Answering'
<1>1. Answering /\ IndInv /\ TxRing!IndInv
  BY DEF EchoInv
<1>2. CASE UNCHANGED echoVars
  BY <1>1, <1>2 DEF Answering, echoVars, ringVars, txVars
<1>3. CASE Poll
  BY <1>1, <1>3, TxFacts DEF Answering, Poll, Get, Done, txVars, Tx!PCs
<1>4. CASE Filtered
  BY <1>1, <1>4 DEF Answering, Filtered, txVars
<1>5. CASE AskDescriptor
  BY <1>1, <1>5 DEF Answering, AskDescriptor, ringVars, Tx!BeginFrame
<1>6. CASE TestFull
  BY <1>1, <1>6 DEF Answering, TestFull, ringVars, Tx!GetTest1, Tx!GetTest2
<1>7. CASE QueueFull
  BY <1>7 DEF Answering, QueueFull, Tx!GiveUp
<1>8. CASE BuildReply
  <2>1. tbatch = << >> /\ tP \in Tx!Slots /\ Tx!TxIndexInc(Len(tbatch)) = tP
    <3>1. tbatch = << >> /\ Len(tbatch) = 0
      BY <1>1, <1>8, TxFacts DEF BuildReply, Tx!Fill
    <3>2. tP \in 0 .. (TxN - 1) /\ TxN \in Nat
      BY <1>1, TxFacts
    <3>3. (tP + 0) % TxN = tP
      BY <3>2
    <3>4. QED
      BY <3>1, <3>2, <3>3 DEF Tx!TxIndexInc, Tx!Slots
  <2>2. PICK f \in Clients, last \in BOOLEAN :
          /\ Len(tbatch) + 1 = 1 => last
          /\ tslot' = [tslot EXCEPT ![Tx!TxIndexInc(Len(tbatch))] = [frame |-> f, last |-> last]]
          /\ tbatch' = Append(tbatch, [frame |-> f, last |-> last])
          /\ tpc' = IF last THEN "done1" ELSE "get1"
    BY <1>8 DEF BuildReply, Tx!Fill
  <2>3. tslot'[tP] = [frame |-> f, last |-> last]
    BY <1>1, <2>1, <2>2
       DEF TxRing!IndInv, TxRing!TypeOK, TxRing!Slots, Tx!Slots
  <2>4. tbatch' = <<ReplyTo(buf[d])>>
    BY <1>8, <2>1, <2>2, <2>3 DEF BuildReply
  <2>5. tpc = "fill" /\ UNCHANGED ringVars
    BY <1>8 DEF BuildReply, Tx!Fill
  <2>6. QED
    BY <1>1, <2>4, <2>5 DEF Answering, ringVars
<1>9. CASE HandOver
  <2>1. CASE tpc' = "idle"
    BY <2>1 DEF Answering
  <2>2. CASE tpc' # "idle"
    <3>1. UNCHANGED ringVars /\ (Tx!DoneTest1 \/ Tx!DoneTest2)
      BY <1>9, <2>2 DEF HandOver, Tx!DonePublish
    <3>2. UNCHANGED tbatch /\ tpc \in {"done1", "done2"}
      BY <2>2, <3>1 DEF Tx!DoneTest1, Tx!DoneTest2
    <3>3. QED
      BY <1>1, <3>1, <3>2 DEF Answering, ringVars
  <2>3. QED
    BY <2>1, <2>2
<1>10. CASE MacReceive
  BY <1>1, <1>10, HeldStays, TxFacts DEF Answering, MacReceive, txVars, Tx!PCs
<1>11. CASE MacSend
  BY <1>1, <1>11 DEF Answering, MacSend, ringVars, Tx!Mac, Tx!MacFetch, Tx!MacSent
<1>12. QED
  BY <1>2, <1>3, <1>4, <1>5, <1>6, <1>7, <1>8, <1>9, <1>10, <1>11 DEF NextEcho, Main

LEMMA EchoNext == EchoInv /\ [NextEcho]_echoVars => EchoInv'
<1>1. IndInv /\ [NextEcho]_echoVars => IndInv'
  BY NextInd, BothRingsStep
<1>2. TxRing!IndInv /\ [NextEcho]_echoVars => TxRing!IndInv'
  BY TxNext, OneRing, BothRingsStep
<1>3. QED
  BY <1>1, <1>2, AnsweringInd DEF EchoInv

LEMMA EchoInvariance == SpecEcho => []EchoInv
BY EchoInit, EchoNext, PTL DEF SpecEcho

-----------------------------------------------------------------------------
(***************************************************************************)
(* The refinement                                                          *)
(***************************************************************************)

\* The substitution for `served`.
Served == IF tpc = "refused" THEN Len(processed) + 1 ELSE Len(processed)

\* The program recognises the requests of the service, and no other frame.
LEMMA RequestsAreAsked == \A f \in Frames : IsRequest(f) <=> Asks(f)
BY FramesAssumption DEF IsRequest, Asks, Frame

\* The full test refuses only when every descriptor but one is the hardware's.
LEMMA RefusedIsFull ==
  ASSUME TxRing!IndInv, Tx!GetTest1 \/ Tx!GetTest2, tpc' = "refused"
  PROVE  Len(thanded) - Len(twire) = TxN - 1
<1>1. /\ TxN \in Nat /\ TxN > 1 /\ Word \in Nat /\ Word > TxN
      /\ tP \in 0 .. (TxN - 1) /\ tC \in 0 .. (TxN - 1)
      /\ TxRing!Pending = Len(thanded) - Len(twire)
  BY TxFacts, TxAssumption DEF Tx!SizeAssumption
<1>2. tbatch = << >> /\ Len(tbatch) = 0
  BY TxFacts DEF Tx!GetTest1, Tx!GetTest2
<1>3. (tP + 0) % TxN = tP
  BY <1>1
<1>4. tP = Tx!ConsumeMinus1 \/ (tP = TxN - 1 /\ tC = 0)
  BY <1>2, <1>3
     DEF Tx!GetTest1, Tx!GetTest2, Tx!FullBelowConsume, Tx!FullAtRingEnd, Tx!TxIndexInc
<1>5. TxRing!Pending = TxN - 1
  BY <1>1, <1>4 DEF TxRing!Pending, Tx!ConsumeMinus1
<1>6. QED
  BY <1>1, <1>5

\* A frame that no one waits an answer for is served without a reply.
LEMMA FilteredServes ==
  ASSUME EchoInv, Filtered
  PROVE  Service!Serve
<1>1. IndInv /\ Answering /\ pc = "use" /\ ~Asks(buf[d])
  BY DEF EchoInv, Filtered
<1>2. /\ Len(processed) < Len(received)
      /\ received[Len(processed) + 1] = buf[d]
      /\ ~IsRequest(buf[d])
  BY <1>1, HeldRequest, RequestsAreAsked
<1>3. tpc # "refused" /\ tpc' # "refused"
  BY <1>1 DEF Answering, Filtered, txVars
<1>4. Len(processed') = Len(processed) + 1
  BY <1>1, HeldRequest, Facts DEF Filtered, Process
<1>5. UNCHANGED <<received, thanded, twire>>
  BY DEF Filtered, Process, txVars
<1>6. QED
  BY <1>2, <1>3, <1>4, <1>5 DEF Service!Serve

\* A request is refused at a moment when Capacity replies wait.
LEMMA RefusedServes ==
  ASSUME EchoInv, TestFull, tpc' = "refused"
  PROVE  Service!Serve
<1>1. IndInv /\ Answering /\ TxRing!IndInv
  BY DEF EchoInv
<1>2. tpc # "idle" /\ tpc # "refused"
  BY DEF TestFull, Tx!GetTest1, Tx!GetTest2
<1>3. Len(processed) < Len(received)
  BY <1>1, <1>2, HeldRequest DEF Answering
<1>4. ~(Len(thanded) - Len(twire) < TxN - 1)
  BY <1>1, RefusedIsFull, TxFacts DEF TestFull
<1>5. UNCHANGED <<received, processed, thanded, twire>>
  BY DEF TestFull, ringVars, Tx!GetTest1, Tx!GetTest2
<1>6. QED
  BY <1>2, <1>3, <1>4, <1>5 DEF Service!Serve

\* A reply is handed over to the client whose request is served by that step.
LEMMA HandOverServes ==
  ASSUME EchoInv, HandOver, Tx!DonePublish
  PROVE  Service!Serve
<1>1. IndInv /\ Answering /\ TxRing!IndInv
  BY DEF EchoInv
<1>2. tpc = "publish" /\ tpc' = "idle"
  BY DEF Tx!DonePublish
<1>3. pc = "use" /\ Asks(buf[d]) /\ tbatch = <<ReplyTo(buf[d])>>
  BY <1>1, <1>2 DEF Answering
<1>4. /\ Len(processed) < Len(received)
      /\ received[Len(processed) + 1] = buf[d]
      /\ IsRequest(buf[d])
  BY <1>1, <1>3, HeldRequest, RequestsAreAsked
<1>5. Len(thanded) - Len(twire) < TxN - 1
  BY <1>1, <1>3, TxFacts
<1>6. thanded' = Append(thanded, ReplyTo(buf[d]))
  <2>1. ReplyTo(buf[d]) \in Tx!Fragment
    <3>1. tbatch \in Seq(Tx!Fragment) /\ 1 \in 1 .. Len(tbatch) /\ tbatch[1] = ReplyTo(buf[d])
      BY <1>1, <1>3, TxFacts
    <3>2. QED
      BY <3>1
  <2>2. QED
    BY <1>1, <1>3, <2>1, TxFacts DEF Tx!DonePublish
<1>7. Len(processed') = Len(processed) + 1 /\ UNCHANGED <<received, twire>>
  BY <1>1, <1>2, <1>3, HeldRequest, Facts DEF HandOver, Process, Tx!DonePublish
<1>8. QED
  BY <1>2, <1>4, <1>5, <1>6, <1>7 DEF Service!Serve

\* A frame is published only while fewer than Backlog wait.
LEMMA PublishReceives ==
  ASSUME EchoInv, MacPublish, UNCHANGED txVars
  PROVE  Service!Receive
<1>1. IndInv
  BY DEF EchoInv
<1>2. Waiting < N - 1 /\ dma \in Frames
  BY <1>1 DEF IndInv, MacHasRoom, TypeOK, MacPublish
<1>3. Released <= Served /\ Released \in Nat /\ Len(received) = Released + Waiting
  BY <1>1, Facts DEF Released, Served
<1>4. Len(received) - Served < N - 1
  BY <1>1, <1>2, <1>3, Facts DEF Served
<1>5. received' = Append(received, dma) /\ UNCHANGED <<processed, tpc, thanded, twire>>
  BY DEF MacPublish, txVars
<1>6. QED
  BY <1>2, <1>4, <1>5 DEF Served, Service!Receive

LEMMA SentSends ==
  ASSUME EchoInv, Tx!MacSent, UNCHANGED ringVars
  PROVE  Service!Send
<1>1. TxRing!IndInv /\ tdma # NoFrag
  BY DEF EchoInv, Tx!MacSent
<1>2. tC # tP /\ tdma \in Tx!Fragment
  BY <1>1 DEF TxRing!IndInv, TxRing!DmaInRing, TxRing!TypeOK, TxRing!Fragment, Tx!Fragment
<1>3. Len(twire) < Len(thanded)
  BY <1>1, <1>2, TxFacts DEF TxRing!Pending
<1>4. Len(twire') = Len(twire) + 1
  BY <1>1, <1>2, TxFacts DEF Tx!MacSent
<1>5. UNCHANGED <<received, processed, tpc, thanded>>
  BY DEF Tx!MacSent, ringVars
<1>6. QED
  BY <1>3, <1>4, <1>5 DEF Service!Send

\* Every step is one of the service or no step of it at all.
LEMMA EchoStep ==
  EchoInv /\ [NextEcho]_echoVars => [Service!Next]_(Service!serviceVars)
<1> SUFFICES ASSUME EchoInv, [NextEcho]_echoVars
             PROVE  [Service!Next]_(Service!serviceVars)
  OBVIOUS
<1> DEFINE Still == UNCHANGED <<received, Served, thanded, Len(twire)>>
<1>1. Still => [Service!Next]_(Service!serviceVars)
  BY DEF Service!serviceVars, Served
<1>2. CASE UNCHANGED echoVars
  BY <1>1, <1>2 DEF echoVars, ringVars, txVars, Served
<1>3. CASE Poll
  BY <1>1, <1>3 DEF Poll, Get, Done, txVars, Served
<1>4. CASE Filtered
  BY <1>4, FilteredServes DEF Service!Next
<1>5. CASE AskDescriptor
  BY <1>1, <1>5 DEF AskDescriptor, ringVars, Tx!BeginFrame, Served
<1>6. CASE TestFull
  <2>1. CASE tpc' = "refused"
    BY <1>6, <2>1, RefusedServes DEF Service!Next
  <2>2. CASE tpc' # "refused"
    BY <1>1, <1>6, <2>2 DEF TestFull, ringVars, Tx!GetTest1, Tx!GetTest2, Served
  <2>3. QED
    BY <2>1, <2>2
<1>7. CASE QueueFull
  <2>1. pc = "use" /\ processed' = Append(processed, buf[d]) /\ received' = received
    BY <1>7 DEF QueueFull, Process
  <2>2. Len(processed') = Len(processed) + 1
    BY <2>1, HeldRequest, Facts DEF EchoInv
  <2>3. QED
    BY <1>1, <1>7, <2>1, <2>2 DEF QueueFull, Tx!GiveUp, Served
<1>8. CASE BuildReply
  <2>1. tpc = "fill" /\ tpc' \in {"done1", "get1"} /\ UNCHANGED <<thanded, twire, received, processed>>
    BY <1>8 DEF BuildReply, Tx!Fill, ringVars
  <2>2. QED
    BY <1>1, <2>1 DEF Served
<1>9. CASE HandOver
  <2>1. CASE Tx!DonePublish
    BY <1>9, <2>1, HandOverServes DEF Service!Next
  <2>2. CASE Tx!DoneTest1 \/ Tx!DoneTest2
    <3>1. UNCHANGED ringVars
      BY <1>9, <2>2, TxNeverDrops DEF HandOver, EchoInv
    <3>2. QED
      BY <1>1, <2>2, <3>1 DEF ringVars, Tx!DoneTest1, Tx!DoneTest2, Served
  <2>3. QED
    BY <1>9, <2>1, <2>2 DEF HandOver
<1>10. CASE MacReceive
  <2>1. CASE MacWrite
    BY <1>1, <1>10, <2>1 DEF MacReceive, MacWrite, txVars, Served
  <2>2. CASE MacPublish
    BY <1>10, <2>2, PublishReceives DEF MacReceive, Service!Next
  <2>3. QED
    BY <1>10, <2>1, <2>2 DEF MacReceive
<1>11. CASE MacSend
  <2>1. CASE Tx!MacFetch
    BY <1>1, <1>11, <2>1 DEF MacSend, Tx!MacFetch, ringVars, Served
  <2>2. CASE Tx!MacSent
    BY <1>11, <2>2, SentSends DEF MacSend, Service!Next
  <2>3. QED
    BY <1>11, <2>1, <2>2 DEF MacSend, Tx!Mac
<1>12. QED
  BY <1>2, <1>3, <1>4, <1>5, <1>6, <1>7, <1>8, <1>9, <1>10, <1>11 DEF NextEcho, Main

\* The program answers requests in order, each at most once, to whoever sent them,
\* and gives one up only when the transmit ring is full, for every size of the rings.
THEOREM EchoRefinement == SpecEcho => ImplementsEchoService
<1>1. InitEcho => Service!Init
  BY DEF InitEcho, Init, Tx!Init, Service!Init
<1>2. QED
  BY <1>1, EchoStep, EchoInvariance, PTL DEF SpecEcho, ImplementsEchoService, Service!Spec
=============================================================================
