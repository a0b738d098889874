------------------------------ MODULE EthLink -------------------------------
(***************************************************************************)
(* The link functions of rflpc17xx/drivers/ethernet.c: auto-negotiation,   *)
(* forced mode and link state, down to the accesses they make to the PHY   *)
(* through the management interface (MIIM) of the MAC.                     *)
(*                                                                         *)
(* A PHY register is read in three accesses (address, cycle, value) and    *)
(* written in two (address, value); one set of MIIM registers serves       *)
(* whoever asks.  TimerPoll is the timer interrupt of samples/ethernet: it *)
(* reads the link state between any two accesses of the main program.  A   *)
(* cycle that was started is taken to complete before it uses MIIM.        *)
(*                                                                         *)
(* A register is the set of its bits that are 1; RFLPC_ETH_USE_EXTENDED_MII*)
(* is defined, as config-mbed.h does.                                      *)
(***************************************************************************)
EXTENDS Integers

CONSTANTS
  MaxCalls,   \* bound: calls the main program makes
  MaxPlugs    \* bound: times the cable is unplugged

ASSUME BoundAssumption == MaxCalls \in Nat /\ MaxPlugs \in Nat

\* A link mode: bit 0 of RFLPC_ETH_LINK_MODE_* is the speed, bit 1 the duplex.
Modes == SUBSET {"100", "FD"}

\* PHY registers and the bits the driver uses (eth_const.h:205-304)
BMCR == 0
BMSR == 1
ANAR == 4
PHYSTS == 16

\* Bits of BMCR
AutoNeg     == 12
Restart     == 9
SpeedSelect == 13
Duplex      == 8

\* Bits of BMSR
Complete   == 5
LinkStatus == 2

\* Bits of ANAR
Adv10   == 5
Adv10FD == 6
AdvTX   == 7
AdvTXFD == 8

\* Bits of PHYSTS
Speed10    == 1
FullDuplex == 2

\* The bits of BMSR that are always set: what the PHY is capable of.
Capabilities == {0, 3, 6, 11, 12, 13, 14}
\* Reset, loopback, power down, isolate.
Harmful == {15, 14, 11, 10}

VARIABLES
  madr,      \* MADR, the register a cycle will access
  mrdd,      \* MRDD, the value the last read cycle returned
  source,    \* history: the register mrdd was read from
  bmcr, anar, complete, mode,   \* the PHY: its registers, its operating mode
  plugged, link, partner,       \* the cable, the link and the other end's modes
  mac,       \* the MAC: SUPP, and the duplex bits of MAC2 and Command
  pc,        \* the register access of the main program in progress, or "idle"
  io,        \* which part of it comes next
  acc,       \* the local variable bmcr or anar
  arg,       \* the mode asked for
  ret,       \* what auto_negociate() returned last
  steady,    \* history: the cable was not unplugged since the call
  calls, plugs

phyVars  == <<bmcr, anar, complete, mode, link>>
miimVars == <<madr, mrdd, source>>
cable    == <<plugged, partner, steady, plugs>>
vars == <<miimVars, phyVars, cable, mac, pc, io, acc, arg, ret, calls>>

\* Mutant: the control register is read at the address of the status register.
ReadFromStatus == [link1 |-> BMSR, anar |-> ANAR, bmcr |-> BMSR, poll |-> BMSR,
                   link2 |-> BMSR, mode |-> PHYSTS, state |-> BMSR,
                   show |-> PHYSTS, force1 |-> BMCR, force2 |-> BMCR]

\* Which register each step of the link functions reads or writes.
ReadFrom == [link1 |-> BMSR, anar |-> ANAR, bmcr |-> BMCR, poll |-> BMSR,
             link2 |-> BMSR, mode |-> PHYSTS, state |-> BMSR,
             show |-> PHYSTS, force1 |-> BMCR, force2 |-> BMCR]
WriteTo  == [set_anar |-> ANAR, set_bmcr |-> BMCR,
             set_force1 |-> BMCR, set_force2 |-> BMCR]

\* What a register holds.
Register(r) ==
  CASE r = BMCR   -> bmcr
    [] r = ANAR   -> anar
    [] r = BMSR   -> Capabilities \union {b \in {Complete} : complete}
                                  \union {b \in {LinkStatus} : link}
    [] r = PHYSTS -> {b \in {Speed10} : "100" \notin mode}
                       \union {b \in {FullDuplex} : "FD" \in mode}

-----------------------------------------------------------------------------
\* After rflpc_eth_init(): the MAC at 100 Mbps full duplex, the PHY reset.
Init ==
  /\ madr = BMCR /\ mrdd = {} /\ source = BMCR
  /\ bmcr = {AutoNeg, SpeedSelect} /\ anar = {Adv10, Adv10FD, AdvTX, AdvTXFD}
  /\ complete = FALSE /\ mode = {} /\ link = FALSE
  /\ plugged = TRUE
  /\ partner \in {s \in SUBSET Modes : {} \in s}
  /\ steady = TRUE /\ plugs = 0
  /\ mac = [supp |-> "100", mac2 |-> TRUE, command |-> TRUE]
  /\ pc = "idle" /\ io = "addr" /\ acc = {} /\ arg = {}
  /\ ret = -1 /\ calls = 0

\* The main program calls a function whose first access is step.
Begin(step, m) ==
  /\ pc = "idle"
  /\ pc' = step /\ io' = "addr"
  /\ arg' = m
  /\ steady' = TRUE
  /\ ret' = -1
  /\ UNCHANGED <<miimVars, phyVars, plugged, partner, plugs, mac, acc>>

Call(step, m) == calls < MaxCalls /\ calls' = calls + 1 /\ Begin(step, m)

AutoNegociate == \E m \in Modes : Call("link1", m)
SetLinkMode   == \E m \in Modes : Call("force1", m)
LinkState     == Call("state", {})
GetLinkMode   == Call("show", {})

-----------------------------------------------------------------------------

\* _read_from_phy_register() and _write_to_phy_register(): the accesses to MADR,
\* MCMD, MWTD and MRDD.
Address ==
  /\ io = "addr"
  /\ \/ pc \in DOMAIN ReadFrom /\ madr' = ReadFrom[pc] /\ io' = "cycle"
     \/ pc \in DOMAIN WriteTo /\ madr' = WriteTo[pc] /\ io' = "write"
  /\ UNCHANGED <<mrdd, source, phyVars, cable, mac, pc, acc, arg, ret, calls>>

ReadCycle ==
  /\ io = "cycle"
  /\ mrdd' = Register(madr)
  /\ source' = madr
  /\ io' = "value"
  /\ UNCHANGED <<madr, phyVars, cable, mac, pc, acc, arg, ret, calls>>

\* Writing BMCR with the restart bit starts a negotiation, and the link drops;
\* without the auto-negotiation bit it sets the mode.
WriteBmcr(v) ==
  /\ bmcr' = v \ {Restart}
  /\ IF AutoNeg \in v
       THEN /\ complete' = (complete /\ Restart \notin v)
            /\ link' = (link /\ Restart \notin v)
            /\ UNCHANGED mode
       ELSE /\ complete' = FALSE
            /\ link' = plugged
            /\ mode' = {s \in {"100"} : SpeedSelect \in v} \union {s \in {"FD"} : Duplex \in v}

NextOf == [set_anar |-> "bmcr", set_bmcr |-> "poll",
           set_force1 |-> "force2", set_force2 |-> "idle"]

\* The MAC is set after the last write of set_link_mode().
SetMac(m) == mac' = [supp |-> IF "100" \in m THEN "100" ELSE "10",
                     mac2 |-> "FD" \in m, command |-> "FD" \in m]

WriteCycle ==
  /\ io = "write"
  /\ CASE madr = BMCR -> WriteBmcr(acc) /\ UNCHANGED anar
       [] madr = ANAR -> anar' = acc /\ UNCHANGED <<bmcr, complete, mode, link>>
       [] OTHER -> UNCHANGED phyVars
  /\ IF pc = "set_force2" THEN SetMac(arg) ELSE UNCHANGED mac
  /\ pc' = NextOf[pc] /\ io' = "addr"
  /\ UNCHANGED <<miimVars, cable, acc, arg, ret, calls>>

-----------------------------------------------------------------------------
\* The value read is used: step is over, the next one is next.
Use(step, next) ==
  /\ pc = step /\ io = "value"
  /\ pc' = next /\ io' = "addr"
  /\ UNCHANGED <<miimVars, phyVars, cable, arg, calls>>

\* auto_negociate(): not while the link is down.  ret is -1 until the end.
CheckLink ==
  /\ Use("link1", IF LinkStatus \in mrdd THEN "anar" ELSE "idle")
  /\ UNCHANGED <<mac, acc, ret>>

\* What anar is to advertise for the desired maximum.
Advertised(m) ==
  CASE m = {"100", "FD"} -> {AdvTXFD, AdvTX}
    [] m = {"100"}       -> {AdvTX}
    [] m = {"FD"}        -> {Adv10FD}
    [] OTHER             -> {}

\* Mutant: the capabilities are not removed before the wanted ones are added.
ChooseModesOnTop ==
  /\ Use("anar", "set_anar")
  /\ acc' = mrdd \union {Adv10} \union Advertised(arg)
  /\ UNCHANGED <<mac, ret>>

ChooseModes ==
  /\ Use("anar", "set_anar")
  /\ acc' = (mrdd \ {Adv10FD, AdvTX, AdvTXFD}) \union {Adv10} \union Advertised(arg)
  /\ UNCHANGED <<mac, ret>>

AskRestart ==
  /\ Use("bmcr", "set_bmcr")
  /\ acc' = mrdd \union {AutoNeg, Restart}
  /\ UNCHANGED <<mac, ret>>

\* Mutant: the loop waits while the negotiation is complete.
WaitWhileComplete ==
  /\ Use("poll", IF Complete \in mrdd THEN "poll" ELSE "link2")
  /\ UNCHANGED <<mac, acc, ret>>

WaitComplete ==
  /\ Use("poll", IF Complete \in mrdd THEN "link2" ELSE "poll")
  /\ UNCHANGED <<mac, acc, ret>>

CheckLinkAgain ==
  /\ Use("link2", IF LinkStatus \in mrdd THEN "mode" ELSE "idle")
  /\ UNCHANGED <<mac, acc, ret>>

\* get_link_mode(), then SUPP, MAC2 and Command.
ApplyMode ==
  /\ Use("mode", "idle")
  /\ SetMac({s \in {"100"} : Speed10 \notin mrdd} \union {s \in {"FD"} : FullDuplex \in mrdd})
  /\ ret' = 0
  /\ UNCHANGED acc

\* rflpc_eth_link_state() and rflpc_eth_get_link_mode() called by the main program
GotState == Use("state", "idle") /\ UNCHANGED <<mac, acc, ret>>
GotMode  == Use("show", "idle") /\ UNCHANGED <<mac, acc, ret>>

\* set_link_mode(): auto-negotiation off, read back, then the forced mode.
ForceStop ==
  /\ Use("force1", "set_force1")
  /\ acc' = mrdd \ {AutoNeg}
  /\ UNCHANGED <<mac, ret>>

ForceMode ==
  /\ Use("force2", "set_force2")
  /\ acc' = (mrdd \ {Duplex, SpeedSelect}) \union {b \in {Duplex} : "FD" \in arg}
                                           \union {b \in {SpeedSelect} : "100" \in arg}
  /\ UNCHANGED <<mac, ret>>

-----------------------------------------------------------------------------
\* Mutant: the interrupt asks for the link mode, not the link state.
TimerPollMode ==
  /\ madr' = PHYSTS
  /\ mrdd' = Register(PHYSTS)
  /\ source' = PHYSTS
  /\ UNCHANGED <<phyVars, cable, mac, pc, io, acc, arg, ret, calls>>

\* _rit_handler() of samples/ethernet: link_state() from the interrupt.
TimerPoll ==
  /\ madr' = BMSR
  /\ mrdd' = Register(BMSR)
  /\ source' = BMSR
  /\ UNCHANGED <<phyVars, cable, mac, pc, io, acc, arg, ret, calls>>

\* The PHY settles on the best mode both ends advertise (10 Mbps half duplex if
\* there is none).
Rank(m) == (IF "100" \in m THEN 2 ELSE 0) + (IF "FD" \in m THEN 1 ELSE 0)
AdvBit(m) == CASE m = {} -> Adv10 [] m = {"FD"} -> Adv10FD
               [] m = {"100"} -> AdvTX [] m = {"100", "FD"} -> AdvTXFD
Common == {m \in partner : AdvBit(m) \in anar} \union {{}}

Negotiated ==
  /\ AutoNeg \in bmcr /\ ~complete /\ plugged
  /\ mode' = CHOOSE m \in Common : \A o \in Common : Rank(m) >= Rank(o)
  /\ complete' = TRUE
  /\ link' = TRUE
  /\ UNCHANGED <<miimVars, bmcr, anar, cable, mac, pc, io, acc, arg, ret, calls>>

\* The cable is unplugged, and plugged again to any partner.
Unplug ==
  /\ plugged /\ plugs < MaxPlugs
  /\ plugs' = plugs + 1
  /\ plugged' = FALSE /\ link' = FALSE /\ complete' = FALSE
  /\ steady' = FALSE
  /\ UNCHANGED <<miimVars, bmcr, anar, mode, partner, mac, pc, io, acc, arg, ret, calls>>

Plug ==
  /\ ~plugged
  /\ plugged' = TRUE
  /\ partner' \in {s \in SUBSET Modes : {} \in s}
  /\ link' = (AutoNeg \notin bmcr)
  /\ UNCHANGED <<miimVars, bmcr, anar, complete, mode, steady, plugs, mac, pc, io, acc, arg, ret, calls>>

Main == Address \/ ReadCycle \/ WriteCycle \/ CheckLink \/ ChooseModes \/ AskRestart
          \/ WaitComplete \/ CheckLinkAgain \/ ApplyMode \/ GotState \/ GotMode \/ ForceStop \/ ForceMode

Phy == Negotiated \/ Unplug \/ Plug

Next == AutoNegociate \/ SetLinkMode \/ LinkState \/ GetLinkMode \/ Main \/ Phy

Spec == Init /\ [][Next]_vars

-----------------------------------------------------------------------------
(***************************************************************************)
(* Properties                                                              *)
(***************************************************************************)

\* Every variable has its type.
TypeOK ==
  /\ madr \in {BMCR, BMSR, ANAR, PHYSTS} /\ source \in {BMCR, BMSR, ANAR, PHYSTS}
  /\ mrdd \subseteq 0 .. 15 /\ bmcr \subseteq 0 .. 15 /\ anar \subseteq 0 .. 15
  /\ mode \in Modes /\ arg \in Modes
  /\ mac \in [supp : {"10", "100"}, mac2 : BOOLEAN, command : BOOLEAN]
  /\ pc \in DOMAIN ReadFrom \union DOMAIN WriteTo \union {"idle"}
  /\ io \in {"addr", "cycle", "value", "write"}
  /\ ret \in {-1, 0}

\* ethernet.c:51 "This function allows to read a value from a PHY register": what
\* _read_from_phy_register() returns was read from the register it was asked for.
ReadsAskedRegister == (io = "value") => source = ReadFrom[pc]

\* With the timer interrupt polling, one thing stays true: whoever reads the status
\* register gets it, because that is the register the interrupt asks for too
\* (samples/ethernet/main.c:104).
StatusReadsAreSafe ==
  (pc \in {"link1", "poll", "link2", "state"} /\ io = "value") => source = BMSR

\* An auto-negotiation that returned 0 over a cable nobody touched has left the
\* two ends of the RMII in the same mode, no higher than the desired maximum, with
\* the two duplex bits of the MAC in agreement (ethernet.c:211-227).
MacMatchesPhy ==
  (pc = "idle" /\ ret = 0 /\ steady) =>
    /\ mac = [supp |-> IF "100" \in mode THEN "100" ELSE "10",
              mac2 |-> "FD" \in mode, command |-> "FD" \in mode]
    /\ mode \subseteq arg

\* No read-modify-write of BMCR ever resets, isolates or powers down the PHY: the
\* value written back was read from BMCR.
PhyStaysUp == bmcr \intersect Harmful = {}
=============================================================================
