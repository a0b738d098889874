------------------------------ MODULE EthRxIrq ------------------------------
(***************************************************************************)
(* The receive ring read from the Ethernet interrupt handler, as           *)
(* eth_handler() of samples/dhcp/simple_net.c, samples/ethernet/main.c and *)
(* samples/simple_udp/main.c:                                              *)
(*                                                                         *)
(*   if (rflpc_eth_irq_get_status() & RFLPC_ETH_IRQ_EN_RX_DONE)            *)
(*     ... the loop of EthRx ...                                           *)
(*   rflpc_eth_irq_clear(rflpc_eth_irq_get_status());                      *)
(*                                                                         *)
(* The handler is cut at each access to IntStatus and IntClear: a frame    *)
(* published after the loop found the ring empty and before the clear      *)
(* raises a status bit that the clear then erases.                         *)
(***************************************************************************)
EXTENDS EthRx

VARIABLES
  rxDone,  \* bit RX_DONE of IntStatus; the only source enabled in IntEnable
  isr,     \* where the processor is: in the main program or in the handler
  status,  \* the value read from IntStatus for IntClear
  left,    \* history: frames received when the loop was last left
  back     \* history: frames received when the handler last returned

irqVars == <<ringVars, rxDone, isr, status, left, back>>

InitIrq ==
  /\ Init
  /\ rxDone = FALSE
  /\ isr = "main"
  /\ status = FALSE
  /\ left = 0
  /\ back = 0

\* The interrupt line is rxDone: the NVIC runs the handler.
Enter ==
  /\ isr = "main"
  /\ rxDone
  /\ isr' = "status"
  /\ UNCHANGED <<ringVars, rxDone, status, left, back>>

\* Mutant: the test of RX_DONE is inverted.
TestStatusInverted ==
  /\ isr = "status"
  /\ isr' = IF rxDone THEN "read" ELSE "loop"
  /\ UNCHANGED <<ringVars, rxDone, status, left, back>>

TestStatus ==
  /\ isr = "status"
  /\ isr' = IF rxDone THEN "loop" ELSE "read"
  /\ UNCHANGED <<ringVars, rxDone, status, left, back>>

\* Mutant: an if in place of the while, one frame for an interrupt.
LoopOnce ==
  /\ isr = "loop"
  /\ Software
  /\ isr' = IF pc = "done" THEN "read" ELSE "loop"
  /\ UNCHANGED <<rxDone, status, left, back>>

\* One step of the loop of EthRx.
Loop ==
  /\ isr = "loop"
  /\ Software
  /\ UNCHANGED <<rxDone, isr, status, left, back>>

\* get_current_rx_packet_descriptor() returns 0.
LeaveLoop ==
  /\ isr = "loop"
  /\ pc = "check"
  /\ ~RxAvailable
  /\ isr' = "read"
  /\ left' = Len(received)
  /\ UNCHANGED <<ringVars, rxDone, status, back>>

ReadStatus ==
  /\ isr = "read"
  /\ status' = rxDone
  /\ isr' = "clear"
  /\ UNCHANGED <<ringVars, rxDone, left, back>>

\* IntClear = the bits read; then the handler returns.
ClearStatus ==
  /\ isr = "clear"
  /\ rxDone' = (rxDone /\ ~status)
  /\ isr' = "main"
  /\ back' = Len(received)
  /\ UNCHANGED <<ringVars, status, left>>

\* The MAC raises RX_DONE with the frame.
MacWriteIrq   == MacWrite /\ UNCHANGED <<rxDone, isr, status, left, back>>
MacPublishIrq == MacPublish /\ rxDone' = TRUE /\ UNCHANGED <<isr, status, left, back>>

Handler == TestStatus \/ Loop \/ LeaveLoop \/ ReadStatus \/ ClearStatus

NextIrq == Enter \/ Handler \/ MacWriteIrq \/ MacPublishIrq

SpecIrq == InitIrq /\ [][NextIrq]_irqVars

\* A pending interrupt is taken and the handler runs on; the MAC completes a
\* frame it has begun.
FairSpecIrq ==
  /\ SpecIrq
  /\ WF_irqVars(Enter)
  /\ WF_irqVars(Handler)
  /\ WF_irqVars(MacPublishIrq)

-----------------------------------------------------------------------------
(***************************************************************************)
(* Properties                                                              *)
(***************************************************************************)

\* The handler may return with frames in the ring and no interrupt pending, but
\* only frames published between its last look at the ring and its clear of
\* IntStatus: everything older is processed, and anything newer raises the
\* interrupt again (samples/dhcp/simple_net.c:48-56).
StrandedOnlyInWindow ==
  (isr = "main" /\ ~rxDone) => Len(processed) = left /\ Len(received) = back

\* A pending interrupt is never useless for long: every frame in the ring when the
\* processor is in the main program and RX_DONE is pending gets processed, the
\* frames an earlier clear left behind included.
PendingIrqDrains ==
  \A n \in 1 .. MaxFrames :
    (isr = "main" /\ rxDone /\ Len(received) >= n) ~> Len(processed) >= n
=============================================================================
