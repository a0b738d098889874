--------------------------- MODULE AutonegSample ----------------------------
(***************************************************************************)
(* The main loops over EthLink of samples/ethernet/main.c and of           *)
(* test_ethernet() in samples/basic_tests/main.c: the serial interrupt     *)
(* asks for another link mode and the main loop negotiates it.             *)
(*                                                                         *)
(*   if (request_autoneg) {                                                *)
(*     rflpc_eth_link_auto_negociate(autoneg_mode);                        *)
(*     mode = rflpc_eth_get_link_mode(); ...                               *)
(*     request_autoneg = 0; }                                              *)
(*                                                                         *)
(* The first has a timer interrupt poll the link state all the while; the  *)
(* second looks at the link state once a round instead.  The interrupts    *)
(* strike between any two accesses of the loop.  A program without         *)
(* interrupts, which calls any link function in any order over a cable     *)
(* that comes and goes, is the third user of the link functions.           *)
(***************************************************************************)
EXTENDS EthLink

CONSTANT MaxPresses   \* bound: keys pressed

VARIABLES
  polls,     \* the timer interrupt polls the link
  request,   \* request_autoneg
  wanted,    \* autoneg_mode
  used,      \* history: the mode of the last negotiation
  place,     \* where the main loop is; "none" in the program without interrupts
  late,      \* history: a key was pressed since the last negotiation began
  presses

sampleVars == <<polls, request, wanted, used, place, late, presses>>

InitSample ==
  /\ Init
  /\ polls \in BOOLEAN
  /\ request = FALSE
  /\ wanted = {"100", "FD"} /\ used = wanted
  /\ place \in {"loop"} \union {p \in {"none"} : ~polls}
  /\ late = FALSE
  /\ presses = 0

PlainProgram == place = "none" /\ Next /\ UNCHANGED sampleVars

\* Mutant: the mode is toggled and the request forgotten.
PressWithoutRequest ==
  /\ place # "none" /\ presses < MaxPresses
  /\ presses' = presses + 1
  /\ \E key \in {"100", "FD"} :
       wanted' = IF key \in wanted THEN wanted \ {key} ELSE wanted \union {key}
  /\ late' = (place \in {"negociating", "showing"})
  /\ UNCHANGED <<vars, polls, request, used, place>>

\* _serial_handler(): 's' toggles the speed, 'd' the duplex; both ask for a
\* negotiation.
Press ==
  /\ place # "none" /\ presses < MaxPresses
  /\ presses' = presses + 1
  /\ \E key \in {"100", "FD"} :
       wanted' = IF key \in wanted THEN wanted \ {key} ELSE wanted \union {key}
  /\ request' = TRUE
  /\ late' = (place \in {"negociating", "showing"})
  /\ UNCHANGED <<vars, polls, used, place>>

TakeRequest ==
  /\ place = "loop"
  /\ request
  /\ Call("link1", wanted)
  /\ used' = wanted
  /\ late' = FALSE
  /\ place' = "negociating"
  /\ UNCHANGED <<polls, request, wanted, presses>>

\* The mode is read to be printed; test_ethernet() does so after a success only.
ShowMode ==
  /\ place = "negociating"
  /\ polls \/ ret = 0
  /\ Begin("show", {})
  /\ place' = "showing"
  /\ UNCHANGED <<calls, polls, request, wanted, used, late, presses>>

ClearRequest ==
  /\ place = "showing" \/ (place = "negociating" /\ ~polls /\ ret = -1)
  /\ pc = "idle"
  /\ request' = FALSE
  /\ place' = IF polls THEN "loop" ELSE "looking"
  /\ UNCHANGED <<vars, polls, wanted, used, late, presses>>

\* test_ethernet(): every round ends with rflpc_eth_link_state().
PassRequest ==
  /\ place = "loop" /\ ~polls
  /\ ~request
  /\ place' = "looking"
  /\ UNCHANGED <<vars, polls, request, wanted, used, late, presses>>

Look ==
  /\ place = "looking"
  /\ Begin("state", {})
  /\ place' = "looked"
  /\ UNCHANGED <<calls, polls, request, wanted, used, late, presses>>

NextRound ==
  /\ place = "looked" /\ pc = "idle"
  /\ place' = "loop"
  /\ UNCHANGED <<vars, polls, request, wanted, used, late, presses>>

\* The function the main program is in goes on.
InCall == Main /\ UNCHANGED sampleVars

\* The PHY negotiates; in the two loops the cable stays plugged.
PhySample == Negotiated /\ UNCHANGED sampleVars

\* _rit_handler(), enabled with the serial interrupt
RitSample == polls /\ TimerPoll /\ UNCHANGED sampleVars

NextSample ==
  \/ PlainProgram
  \/ Press \/ TakeRequest \/ ShowMode \/ ClearRequest \/ PassRequest \/ Look \/ NextRound
  \/ InCall \/ PhySample \/ RitSample

\* A called function runs on, and the PHY ends a negotiation while the cable is
\* plugged.  Nobody need plug a cable or press a key.
SpecSample ==
  /\ InitSample /\ [][NextSample]_<<vars, sampleVars>>
  /\ WF_<<vars, sampleVars>>(InCall)
  /\ WF_<<vars, sampleVars>>(PhySample)

-----------------------------------------------------------------------------
(***************************************************************************)
(* Properties                                                              *)
(***************************************************************************)

\* The loop rests on another mode than the one asked for only when a key was
\* pressed after the last negotiation had read autoneg_mode.
StaleOnlyIfLate == (place = "loop" /\ ~request /\ used # wanted) => late

\* Without the timer interrupt, an auto-negotiation that returned 0 over a cable
\* nobody touched has left the two ends of the RMII in the same mode, no higher than
\* the desired maximum (ethernet.c:211-227).
MacMatchesPhyAlone == ~polls => (MacMatchesPhy /\ ReadsAskedRegister)

\* Without the timer interrupt, no read-modify-write of BMCR resets, isolates or powers
\* down the PHY, whatever functions are called in whatever order (ethernet.c:185-200,
\* 238-262).
PhyStaysUpAlone == ~polls => PhyStaysUp

\* Without the timer interrupt, a link function returns unless the cable stays
\* unplugged (ethernet.c:206).
CallReturnsAlone == (~polls /\ <>[]plugged) => (pc # "idle" ~> pc = "idle")
=============================================================================
