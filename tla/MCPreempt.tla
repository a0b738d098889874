----------------------------- MODULE MCPreempt -----------------------------
(* The sample programs, four interrupts in a run. *)
EXTENDS TextBits
=============================================================================
