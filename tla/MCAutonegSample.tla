-------------------------- MODULE MCAutonegSample ---------------------------
(* A small instance of AutonegSample for TLC. *)
EXTENDS AutonegSample
=============================================================================
