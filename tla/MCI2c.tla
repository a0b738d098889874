------------------------------- MODULE MCI2c --------------------------------
(* A small instance of I2c for TLC. *)
EXTENDS I2c
=============================================================================
