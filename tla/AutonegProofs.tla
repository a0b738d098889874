---------------------------- MODULE AutonegProofs ----------------------------
(***************************************************************************)
(* Proofs about the link functions and the main loops over them, for any   *)
(* number of calls, keys and cable faults.                                 *)
(*                                                                         *)
(* LinkInv follows a call of the link functions from access to access, for *)
(* a program whose interrupts leave the MIIM alone; PollInv is what is     *)
(* left of it when the timer interrupt asks for the status register        *)
(* between any two accesses; Stale is about the keys.                      *)
(***************************************************************************)
EXTENDS AutonegSample, TLAPS

StatusReads == {"link1", "poll", "link2", "state"}
Caps        == {Adv10FD, AdvTX, AdvTXFD}

\* The cycle that comes next, or came last, is the one the function asked for.
Asked ==
  /\ io \in {"cycle", "value"} => pc \in DOMAIN ReadFrom
  /\ io = "cycle" => madr = ReadFrom[pc]
  /\ io = "value" => source = ReadFrom[pc]
  /\ io = "write" => (pc \in DOMAIN WriteTo /\ madr = WriteTo[pc])

\* What is in BMCR, was read from it or will be written to it harms nothing.
Harmless ==
  /\ bmcr \intersect Harmful = {}
  /\ (io = "value" /\ source = BMCR) => mrdd \intersect Harmful = {}
  /\ pc \in {"set_bmcr", "set_force1", "set_force2"} => acc \intersect Harmful = {}

\* From the choice of the modes on, none is advertised that passes the one asked for.
AdvertisesAsked ==
  /\ pc = "set_anar" => acc \intersect Caps \subseteq Advertised(arg)
  /\ pc \in {"bmcr", "set_bmcr", "poll", "link2", "mode"} =>
       anar \intersect Caps \subseteq Advertised(arg)
  /\ pc = "set_bmcr" => {AutoNeg, Restart} \subseteq acc

\* After the restart, a negotiation that completed did so for the mode asked for, and
\* stays complete over a cable nobody touches.
Completed ==
  /\ (pc \in {"poll", "link2", "mode"} /\ complete) => mode \subseteq arg
  /\ (pc = "poll" /\ io = "value" /\ Complete \in mrdd /\ steady) => complete
  /\ (pc \in {"link2", "mode"} /\ steady) => complete
  /\ (pc = "mode" /\ io = "value" /\ steady) =>
       /\ Speed10 \in mrdd <=> "100" \notin mode
       /\ FullDuplex \in mrdd <=> "FD" \in mode

\* ret is 0 only between two calls, and then the MAC follows the PHY.
Agreed ==
  /\ ret = 0 => pc = "idle"
  /\ (ret = 0 /\ steady) => complete
  /\ MacMatchesPhy

LinkTyped == arg \in Modes /\ partner \subseteq Modes /\ complete \in BOOLEAN

LinkInv == LinkTyped /\ Asked /\ Harmless /\ AdvertisesAsked /\ Completed /\ Agreed

-----------------------------------------------------------------------------
(***************************************************************************)
(* The link functions                                                      *)
(***************************************************************************)

LEMMA InitLink == Init => LinkInv
<1> SUFFICES ASSUME Init PROVE LinkInv
  OBVIOUS
<1>1. LinkTyped
  BY DEF Init, LinkTyped, Modes
<1>2. Harmless
  BY DEF Init, Harmless, AutoNeg, SpeedSelect, Harmful
<1>3. Asked /\ AdvertisesAsked /\ Completed /\ Agreed
  BY DEF Init, Asked, AdvertisesAsked, Completed, Agreed, MacMatchesPhy
<1>4. QED
  BY <1>1, <1>2, <1>3 DEF LinkInv

\* The PHY settles on a mode that both ends advertise, or on the lowest.
LEMMA NegotiatedIsCommon ==
  ASSUME partner \subseteq Modes, Negotiated
  PROVE  mode' \in Common
<1>1. Common \subseteq Modes /\ {} \in Common
  BY DEF Common, Modes
<1>2. Modes = {{}, {"FD"}, {"100"}, {"100", "FD"}}
  <2>1. ASSUME NEW m \in Modes
        PROVE  m \in {{}, {"FD"}, {"100"}, {"100", "FD"}}
    BY <2>1 DEF Modes
  <2>2. QED
    BY <2>1 DEF Modes
<1>3. ASSUME NEW o \in Common
      PROVE  /\ Rank(o) \in 0 .. 3
             /\ Rank(o) = 3 <=> o = {"100", "FD"}
             /\ Rank(o) = 2 <=> o = {"100"}
             /\ Rank(o) = 1 <=> o = {"FD"}
  <2>1. o \in {{}, {"FD"}, {"100"}, {"100", "FD"}}
    BY <1>1, <1>2
  <2>2. QED
    BY <2>1 DEF Rank
<1>4. \E m \in Common : \A o \in Common : Rank(m) >= Rank(o)
  <2>1. \A i \in 0 .. 3 : \/ \E m \in Common : Rank(m) > i
                         \/ \A o \in Common : i >= Rank(o)
    BY <1>3
  <2>2. QED
    BY <1>1, <1>3, <2>1
<1>5. mode' = CHOOSE m \in Common : \A o \in Common : Rank(m) >= Rank(o)
  BY DEF Negotiated
<1>6. QED
  BY <1>4, <1>5

\* A mode whose bit is among the advertised ones does not pass the one asked for.
LEMMA AdvertisedIsAsked ==
  ASSUME NEW m \in Modes, NEW a \in Modes, NEW word,
         word \intersect Caps \subseteq Advertised(a), AdvBit(m) \in word
  PROVE  m \subseteq a
BY DEF Modes, Advertised, AdvBit, Caps, Adv10, Adv10FD, AdvTX, AdvTXFD

LEMMA NegotiatedLink ==
  ASSUME LinkInv, Negotiated
  PROVE  LinkInv'
<1>1. mode' \in Common
  BY NegotiatedIsCommon DEF LinkInv, LinkTyped
<1>2. pc \in {"poll", "link2", "mode"} => mode' \subseteq arg
  <2>1. CASE mode' = {}
    BY <2>1
  <2>2. CASE mode' # {}
    <3>1. mode' \in Modes /\ AdvBit(mode') \in anar
      BY <1>1, <2>2 DEF Common, LinkInv, LinkTyped
    <3>2. QED
      BY <3>1, AdvertisedIsAsked DEF LinkInv, LinkTyped, AdvertisesAsked
  <2>3. QED
    BY <2>1, <2>2
<1>3. Completed'
  BY <1>2 DEF Negotiated, LinkInv, Completed, miimVars, cable
<1>4. Agreed'
  BY DEF Negotiated, LinkInv, Agreed, MacMatchesPhy, miimVars, cable
<1>5. QED
  BY <1>3, <1>4 DEF Negotiated, LinkInv, LinkTyped, Asked, Harmless, AdvertisesAsked, miimVars, cable

LEMMA UnplugLink == LinkInv /\ Unplug => LinkInv'
BY DEF LinkInv, LinkTyped, Asked, Harmless, AdvertisesAsked, Completed, Agreed, MacMatchesPhy,
       Unplug, miimVars

LEMMA PlugLink == LinkInv /\ Plug => LinkInv'
BY DEF LinkInv, LinkTyped, Asked, Harmless, AdvertisesAsked, Completed, Agreed, MacMatchesPhy,
       Plug, miimVars

\* A call begins at an access that reads.
LEMMA BeginLink ==
  ASSUME LinkInv, NEW step \in {"link1", "force1", "state", "show"}, NEW m \in Modes, Begin(step, m)
  PROVE  LinkInv'
BY DEF LinkInv, LinkTyped, Asked, Harmless, AdvertisesAsked, Completed, Agreed, MacMatchesPhy,
       Begin, miimVars, phyVars

\* The accesses of a register function.
LEMMA AddressLink == LinkInv /\ Address => LinkInv'
BY DEF LinkInv, LinkTyped, Asked, Harmless, AdvertisesAsked, Completed, Agreed, MacMatchesPhy,
       Address, phyVars, cable

LEMMA ReadCycleLink ==
  ASSUME LinkInv, ReadCycle
  PROVE  LinkInv'
<1>1. pc \in DOMAIN ReadFrom /\ madr = ReadFrom[pc]
  BY DEF LinkInv, Asked, ReadCycle
<1>2. Asked'
  BY <1>1 DEF Asked, ReadCycle
<1>3. Harmless'
  BY DEF LinkInv, Harmless, ReadCycle, Register, phyVars, BMCR, BMSR, ANAR, PHYSTS
<1>4. Completed'
  <2>1. pc = "poll" => (Complete \in mrdd' => complete)
    BY <1>1 DEF ReadCycle, Register, ReadFrom, BMCR, BMSR, ANAR, PHYSTS, Complete, LinkStatus, Capabilities
  <2>2. pc = "mode" => /\ Speed10 \in mrdd' <=> "100" \notin mode
                       /\ FullDuplex \in mrdd' <=> "FD" \in mode
    BY <1>1 DEF ReadCycle, Register, ReadFrom, BMCR, BMSR, ANAR, PHYSTS, Speed10, FullDuplex
  <2>3. QED
    BY <2>1, <2>2 DEF LinkInv, Completed, ReadCycle, phyVars, cable
<1>5. QED
  BY <1>2, <1>3, <1>4 DEF LinkInv, LinkTyped, AdvertisesAsked, Agreed, MacMatchesPhy, ReadCycle, phyVars, cable

LEMMA WriteCycleLink ==
  ASSUME LinkInv, WriteCycle
  PROVE  LinkInv'
<1>1. pc \in DOMAIN WriteTo /\ madr = WriteTo[pc]
  BY DEF LinkInv, Asked, WriteCycle
<1>2. /\ pc' = NextOf[pc] /\ io' = "addr" /\ arg' = arg /\ acc' = acc /\ ret' = ret
      /\ mrdd' = mrdd /\ source' = source /\ steady' = steady /\ partner' = partner
  BY DEF WriteCycle, miimVars, cable
<1>3. ret # 0 /\ pc # "idle"
  BY <1>1 DEF LinkInv, Agreed, WriteTo
<1>4. CASE pc = "set_anar"
  <2>1. anar' = acc /\ UNCHANGED <<bmcr, complete, mode, link>> /\ pc' = "bmcr"
    BY <1>1, <1>2, <1>4 DEF WriteCycle, WriteTo, NextOf, BMCR, ANAR
  <2>2. QED
    BY <1>2, <1>3, <1>4, <2>1 DEF LinkInv, LinkTyped, Asked, Harmless, AdvertisesAsked, Completed,
                                  Agreed, MacMatchesPhy
<1>5. CASE pc \in {"set_bmcr", "set_force1", "set_force2"}
  <2>1. WriteBmcr(acc) /\ anar' = anar
    BY <1>1, <1>5 DEF WriteCycle, WriteTo, BMCR, ANAR
  <2>2. bmcr' \intersect Harmful = {} /\ complete' \in BOOLEAN
    BY <1>5, <2>1 DEF WriteBmcr, LinkInv, LinkTyped, Harmless
  <2>3. pc = "set_bmcr" => complete' = FALSE /\ pc' = "poll"
    <3>1. pc = "set_bmcr" => AutoNeg \in acc /\ Restart \in acc
      BY DEF LinkInv, AdvertisesAsked
    <3>2. pc = "set_bmcr" => complete' = FALSE
      BY <2>1, <3>1, Zenon DEF WriteBmcr
    <3>3. QED
      BY <1>2, <3>2 DEF NextOf
  <2>4. pc # "set_bmcr" => pc' \in {"force2", "idle"}
    BY <1>2, <1>5 DEF NextOf
  <2>5. QED
    BY <1>2, <1>3, <1>5, <2>1, <2>2, <2>3, <2>4
       DEF LinkInv, LinkTyped, Asked, Harmless, AdvertisesAsked, Completed, Agreed, MacMatchesPhy
<1>6. QED
  BY <1>1, <1>4, <1>5 DEF WriteTo

-----------------------------------------------------------------------------
\* Steps that use what was read, to choose what is written or where to go on.
LEMMA ChooseModesLink == LinkInv /\ ChooseModes => LinkInv'
BY DEF LinkInv, LinkTyped, Asked, Harmless, AdvertisesAsked, Completed, Agreed, MacMatchesPhy,
       ChooseModes, Use, miimVars, phyVars, cable, Caps, Adv10, Adv10FD, AdvTX, AdvTXFD

LEMMA AskRestartLink == LinkInv /\ AskRestart => LinkInv'
BY DEF LinkInv, LinkTyped, Asked, Harmless, AdvertisesAsked, Completed, Agreed, MacMatchesPhy,
       AskRestart, Use, miimVars, phyVars, cable, ReadFrom, Harmful, AutoNeg, Restart

LEMMA ForceStopLink == LinkInv /\ ForceStop => LinkInv'
BY DEF LinkInv, LinkTyped, Asked, Harmless, AdvertisesAsked, Completed, Agreed, MacMatchesPhy,
       ForceStop, Use, miimVars, phyVars, cable, ReadFrom

LEMMA ForceModeLink == LinkInv /\ ForceMode => LinkInv'
BY DEF LinkInv, LinkTyped, Asked, Harmless, AdvertisesAsked, Completed, Agreed, MacMatchesPhy,
       ForceMode, Use, miimVars, phyVars, cable, ReadFrom, Harmful, Duplex, SpeedSelect

LEMMA WaitCompleteLink == LinkInv /\ WaitComplete => LinkInv'
BY DEF LinkInv, LinkTyped, Asked, Harmless, AdvertisesAsked, Completed, Agreed, MacMatchesPhy,
       WaitComplete, Use, miimVars, phyVars, cable

LEMMA LookLink == LinkInv /\ (CheckLink \/ CheckLinkAgain \/ GotState \/ GotMode) => LinkInv'
BY DEF LinkInv, LinkTyped, Asked, Harmless, AdvertisesAsked, Completed, Agreed, MacMatchesPhy,
       CheckLink, CheckLinkAgain, GotState, GotMode, Use, miimVars, phyVars, cable

LEMMA ApplyModeLink ==
  ASSUME LinkInv, ApplyMode
  PROVE  LinkInv'
<1>1. steady => complete /\ mode \subseteq arg
  BY DEF ApplyMode, Use, LinkInv, Completed
<1>2. steady => mac' = [supp |-> IF "100" \in mode THEN "100" ELSE "10",
                        mac2 |-> "FD" \in mode, command |-> "FD" \in mode]
  <2>1. SUFFICES ASSUME steady
                 PROVE  mac' = [supp |-> IF "100" \in mode THEN "100" ELSE "10",
                                mac2 |-> "FD" \in mode, command |-> "FD" \in mode]
    OBVIOUS
  <2>2. /\ Speed10 \in mrdd <=> "100" \notin mode
        /\ FullDuplex \in mrdd <=> "FD" \in mode
    BY <2>1 DEF ApplyMode, Use, LinkInv, Completed
  <2>3. PICK m : /\ m = {s \in {"100"} : Speed10 \notin mrdd} \union {s \in {"FD"} : FullDuplex \in mrdd}
                 /\ SetMac(m)
    BY DEF ApplyMode
  <2>4. ("100" \in m <=> "100" \in mode) /\ ("FD" \in m <=> "FD" \in mode)
    BY <2>2, <2>3
  <2>5. QED
    BY <2>3, <2>4 DEF SetMac
<1>3. Agreed'
  BY <1>1, <1>2 DEF LinkInv, Agreed, MacMatchesPhy, ApplyMode, Use, phyVars, cable
<1>4. QED
  BY <1>3 DEF LinkInv, LinkTyped, Asked, Harmless, AdvertisesAsked, Completed, ApplyMode, Use, miimVars, phyVars, cable

\* Every step of a link function keeps the invariant.
LEMMA MainLink == LinkInv /\ Main => LinkInv'
BY AddressLink, ReadCycleLink, WriteCycleLink, ChooseModesLink, AskRestartLink, ForceStopLink,
   ForceModeLink, WaitCompleteLink, LookLink, ApplyModeLink DEF Main

LEMMA NextLink == LinkInv /\ [Next]_vars => LinkInv'
<1> SUFFICES ASSUME LinkInv, [Next]_vars PROVE LinkInv'
  OBVIOUS
<1>1. {} \in Modes
  BY DEF Modes
<1>2. CASE AutoNegociate \/ SetLinkMode \/ LinkState \/ GetLinkMode
  BY <1>1, <1>2, BeginLink DEF AutoNegociate, SetLinkMode, LinkState, GetLinkMode, Call
<1>3. CASE UNCHANGED vars
  BY <1>3 DEF LinkInv, LinkTyped, Asked, Harmless, AdvertisesAsked, Completed, Agreed, MacMatchesPhy,
              vars, miimVars, phyVars, cable
<1>4. QED
  BY <1>2, <1>3, MainLink, NegotiatedLink, UnplugLink, PlugLink DEF Next, Phy

-----------------------------------------------------------------------------
(***************************************************************************)
(* The main loops                                                          *)
(***************************************************************************)

\* Who reads the status register gets it, be it that the timer interrupt asks for it
\* between the accesses: the interrupt asks for the same register.
PollInv ==
  pc \in StatusReads => /\ io = "cycle" => madr = BMSR
                        /\ io = "value" => source = BMSR

\* From the moment the loop has read autoneg_mode on, a key that changes it is either
\* still requested when the loop rests, or late.
Stale ==
  (used # wanted /\ (place \in {"negociating", "showing"} \/ ~request)) => late

SampleInv ==
  /\ wanted \in Modes
  /\ ~polls => LinkInv
  /\ PollInv
  /\ Stale

LEMMA InitSampleInv == InitSample => SampleInv
<1> SUFFICES ASSUME InitSample PROVE SampleInv
  OBVIOUS
<1>1. LinkInv
  BY InitLink DEF InitSample
<1>2. wanted \in Modes /\ PollInv /\ Stale
  BY DEF InitSample, Init, Modes, PollInv, Stale
<1>3. QED
  BY <1>1, <1>2 DEF SampleInv

\* What a step of the loops is for the link functions.
LinkStep ==
  \/ [Next]_vars
  \/ \E step \in {"link1", "force1", "state", "show"}, m \in Modes : Begin(step, m)
  \/ polls /\ TimerPoll

LEMMA SampleLinkStep ==
  ASSUME wanted \in Modes, [NextSample]_<<vars, sampleVars>>
  PROVE  LinkStep /\ polls' = polls
<1>1. {} \in Modes
  BY DEF Modes
<1>2. CASE PlainProgram \/ InCall \/ PhySample \/ RitSample \/ UNCHANGED <<vars, sampleVars>>
  BY <1>2 DEF PlainProgram, InCall, PhySample, RitSample, Next, Phy, LinkStep, sampleVars
<1>3. CASE Press \/ ClearRequest \/ PassRequest \/ NextRound
  BY <1>3 DEF Press, ClearRequest, PassRequest, NextRound, LinkStep
<1>4. CASE TakeRequest \/ ShowMode \/ Look
  BY <1>1, <1>4 DEF TakeRequest, Call, ShowMode, Look, LinkStep
<1>5. QED
  BY <1>2, <1>3, <1>4 DEF NextSample

LEMMA LinkStepKeepsLink ==
  ASSUME LinkInv, LinkStep, ~polls
  PROVE  LinkInv'
BY NextLink, BeginLink DEF LinkStep

LEMMA LinkStepKeepsPoll ==
  ASSUME PollInv, LinkStep
  PROVE  PollInv'
<1> USE DEF PollInv, StatusReads
<1>1. ASSUME NEW step, NEW m, Begin(step, m)
      PROVE  PollInv'
  BY <1>1 DEF Begin
<1>2. CASE AutoNegociate \/ SetLinkMode \/ LinkState \/ GetLinkMode
  BY <1>1, <1>2 DEF AutoNegociate, SetLinkMode, LinkState, GetLinkMode, Call
<1>3. CASE Address
  BY <1>3 DEF Address, ReadFrom, WriteTo
<1>4. CASE ReadCycle
  BY <1>4 DEF ReadCycle
<1>5. CASE WriteCycle
  BY <1>5 DEF WriteCycle
<1>6. CASE CheckLink \/ ChooseModes \/ AskRestart \/ WaitComplete \/ CheckLinkAgain \/ ApplyMode
             \/ GotState \/ GotMode \/ ForceStop \/ ForceMode
  BY <1>6 DEF CheckLink, ChooseModes, AskRestart, WaitComplete, CheckLinkAgain, ApplyMode,
              GotState, GotMode, ForceStop, ForceMode, Use
<1>7. CASE Phy \/ UNCHANGED vars
  BY <1>7 DEF Phy, Negotiated, Unplug, Plug, vars, miimVars
<1>8. CASE TimerPoll
  BY <1>8 DEF TimerPoll
<1>9. QED
  BY <1>1, <1>2, <1>3, <1>4, <1>5, <1>6, <1>7, <1>8 DEF LinkStep, Next, Main

LEMMA NextSampleInv == SampleInv /\ [NextSample]_<<vars, sampleVars>> => SampleInv'
<1> SUFFICES ASSUME SampleInv, [NextSample]_<<vars, sampleVars>>
             PROVE  SampleInv'
  OBVIOUS
<1>1. LinkStep /\ polls' = polls
  BY SampleLinkStep DEF SampleInv
<1>2. PollInv' /\ (~polls' => LinkInv')
  BY <1>1, LinkStepKeepsLink, LinkStepKeepsPoll DEF SampleInv
<1>3. wanted' \in Modes
  <2>1. CASE Press
    BY <2>1 DEF Press, SampleInv, Modes
  <2>2. CASE ~Press
    BY <2>2 DEF SampleInv, NextSample, PlainProgram, TakeRequest, ShowMode, ClearRequest, PassRequest,
                Look, NextRound, InCall, PhySample, RitSample, sampleVars
  <2>3. QED
    BY <2>1, <2>2
<1>4. Stale'
  <2> USE DEF SampleInv, Stale
  <2>1. CASE Press
    BY <2>1 DEF Press
  <2>2. CASE TakeRequest
    BY <2>2 DEF TakeRequest
  <2>3. CASE ShowMode \/ ClearRequest
    BY <2>3 DEF ShowMode, ClearRequest
  <2>4. CASE PassRequest \/ Look \/ NextRound
    BY <2>4 DEF PassRequest, Look, NextRound
  <2>5. CASE PlainProgram \/ InCall \/ PhySample \/ RitSample \/ UNCHANGED <<vars, sampleVars>>
    BY <2>5 DEF PlainProgram, InCall, PhySample, RitSample, sampleVars
  <2>6. QED
    BY <2>1, <2>2, <2>3, <2>4, <2>5 DEF NextSample
<1>5. QED
  BY <1>2, <1>3, <1>4 DEF SampleInv

LEMMA SampleInvariance == SpecSample => []SampleInv
BY InitSampleInv, NextSampleInv, PTL DEF SpecSample

-----------------------------------------------------------------------------
(***************************************************************************)
(* Theorems                                                                *)
(***************************************************************************)

\* Without the timer interrupt, what auto_negociate() leaves behind when it returns 0
\* is one mode on both ends of the RMII, no higher than the one asked for, and what
\* is read from a PHY register was read from the register asked for.
THEOREM MacFollowsPhy == SpecSample => []MacMatchesPhyAlone
<1>1. SampleInv => MacMatchesPhyAlone
  BY DEF SampleInv, LinkInv, Agreed, Asked, MacMatchesPhyAlone, ReadsAskedRegister
<1>2. QED
  BY <1>1, SampleInvariance, PTL

\* Without the timer interrupt, no call of the link functions resets, isolates or
\* powers down the PHY.
THEOREM PhyIsNeverHarmed == SpecSample => []PhyStaysUpAlone
<1>1. SampleInv => PhyStaysUpAlone
  BY DEF SampleInv, LinkInv, Harmless, PhyStaysUpAlone, PhyStaysUp
<1>2. QED
  BY <1>1, SampleInvariance, PTL

\* Even with the timer interrupt, a read of the status register returns the status
\* register.
THEOREM StatusIsRead == SpecSample => []StatusReadsAreSafe
<1>1. SampleInv => StatusReadsAreSafe
  BY DEF SampleInv, PollInv, StatusReads, StatusReadsAreSafe
<1>2. QED
  BY <1>1, SampleInvariance, PTL

\* The loop comes to rest on another mode than the last one asked for only if the key
\* came after the negotiation had begun.
THEOREM StaleIsLate == SpecSample => []StaleOnlyIfLate
<1>1. SampleInv => StaleOnlyIfLate
  BY DEF SampleInv, Stale, StaleOnlyIfLate
<1>2. QED
  BY <1>1, SampleInvariance, PTL
=============================================================================
