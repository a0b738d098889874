-------------------------------- MODULE Parts --------------------------------
(***************************************************************************)
(* The parts of Library, or the transmit ring of EthTx, which shares no    *)
(* state with them and takes no interrupt either: each behaviour is of one.*)
(***************************************************************************)
EXTENDS Library, EthTx

PartsInit ==
  /\ LibInit /\ Init
  /\ subject # "ring" => C = 0

LibraryStep == LibNext /\ UNCHANGED vars
RingStep == subject = "ring" /\ Next /\ UNCHANGED libVars

\* The fairness is that of EthTx: the parts of Library have no liveness to show.
PartsSpec == PartsInit /\ [][LibraryStep \/ RingStep]_<<libVars, vars>> /\ Fairness
=============================================================================
