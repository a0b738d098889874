----------------------------- MODULE MCEthRxIrq -----------------------------
(* A small instance of EthRxIrq for TLC. *)
EXTENDS EthRxIrq
=============================================================================
