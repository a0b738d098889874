------------------------------ MODULE TextBits ------------------------------
(***************************************************************************)
(* What the text of a program says by itself of the bits its accesses      *)
(* change, whatever interrupts come and whenever they come.                *)
(*                                                                         *)
(* A text keeps to its bits if every access changes bits of its call's own *)
(* device and pins only, with what the registers may hold by then, and if  *)
(* a handler that may run at a place of main leaves the register main has  *)
(* loaded there, and the mask of the pins main writes there, as they are.  *)
(* All of this is evaluated without running the program.                   *)
(***************************************************************************)
EXTENDS Texts

\* The registers the hardware writes to; of all but the first nothing is known.
HardwareNames == {"ADDR", "IR", "SCS", "PLL0STAT", "TC", "MRDD", "PHY", "MIND", "DMACEnbldChns", "Config"}
Loose == (HardwareNames \ {"ADDR"}) \union {"PLL0FEED"}

MainAccesses(t) == UNION {{Code(t, c)[i] : i \in 1 .. Len(Code(t, c))} : c \in 1 .. Len(t.main)}
Accesses(t) ==
  MainAccesses(t) \union {h[2] : h \in UNION {HandlerAccesses(t, irq) : irq \in DOMAIN t.irqs}}

\* The bits that a cell may ever hold; a register of the first set keeps nothing.
KeepsNothing == {"THR", "RBR", "DR", "DMACIntTCClear", "DMACIntErrClr", "IntClear", "none"}
Puts(a, cell) == IF Writes(a) /\ Cell(a.r) = cell /\ a.r[1] \notin KeepsNothing THEN a.set ELSE {}
MayHold(p, t, cell) ==
  At(Began(p), cell) \union (IF cell[1] = "ADDR" THEN {31} ELSE {}) \union UNION {Puts(a, cell) : a \in Accesses(t)}

-----------------------------------------------------------------------------
(* An access changes its call's bits *)

\* The access comes right after the store of the mask that says which pins it is for.
Unmasks(code, i) ==
  /\ i > 1
  /\ code[i - 1].op = "store" /\ code[i - 1].r = <<"FIOMASK", code[i].r[2]>>
  /\ \A k \in 1 .. Len(code) : Jumps(code[k]) => k + 1 + code[k].n # i
MaskOf(code, i) == IF Unmasks(code, i) THEN code[i - 1].set ELSE {}

\* The bits of its cell an access changes at most, next to those that changed since it
\* loaded them: may are the interrupts that may be enabled, held the bits the cell may hold.
Changes(code, i, may, held) ==
  LET a == code[i]
  IN CASE a.r[1] = "ICER" -> may
       [] a.r[1] \in {"FIOSET", "FIOCLR"} -> a.set \ MaskOf(code, i)
       [] a.r[1] = "FIOPIN" -> held \ MaskOf(code, i)
       [] a.op = "modify" /\ a.r[1] \notin KeepsNothing \union {"ICER", "FIOSET", "FIOCLR", "FIOPIN"} ->
            (a.clr \intersect held) \union a.set
       [] OTHER -> held

\* The cell a store to a register changes next to its own.
Beside(r) ==
  CASE r[1] = "PLL0FEED" -> <<"PLL0STAT", 0>>
    [] r[1] \in {"MWTD", "MCMD"} -> <<"MIND", 0>>
    [] r[1] = "Config" -> <<"DMACEnbldChns", 0>>
    [] OTHER -> Cell(r)

OwnsAll(call, cell) == cell = Mask \/ (cell[1] \in Registers[call.dev[1]] /\ InstanceOf(cell) = call.dev[2])

\* An access changes bits of its call's own device and pins only.
KeepsBits(call, i, may, held) ==
  LET a == call.code[i]
  IN Writes(a) =>
       /\ \/ OwnsAll(call, Cell(a.r))
          \/ /\ a.r[1] \notin Loose \union {"RICTRL", "MWTD", "MCMD"}
             /\ \A b \in Changes(call.code, i, may, held) : Owns(call, <<Cell(a.r), b>>)
       /\ \/ Beside(a.r) = Cell(a.r) \/ OwnsAll(call, Beside(a.r))
          \/ a.r[1] = "Config" /\ Owns(call, <<Beside(a.r), a.r[2]>>)
       /\ a.r[1] = "PLL0FEED" => a.r = <<"PLL0FEED", 0>>
       /\ a.r[1] = "ICER" => Cell(a.r) = Nvic
       /\ a.r[1] = "FIOPIN" => a.op = "store"

\* The pins that a GPIO call names, all of them or the only one, are let through by the
\* mask, and are among those written.
SetsPins(call, i) ==
  LET a == call.code[i]
      named == {p[2] : p \in call.pins}
  IN call.dev[1] = "gpio" /\ (a.r[1] = "FIOPIN" \/ (a.r[1] \in {"FIOSET", "FIOCLR"} /\ Cardinality(named) = 1)) =>
       /\ Writes(a) /\ Unmasks(call.code, i) /\ call.code[i - 1].set \intersect named = {}
       /\ a.r[1] # "FIOPIN" => named \subseteq a.set

-----------------------------------------------------------------------------
(* Handlers leave alone what main is about *)

\* A bit of a timer's control register that only handlers set, and clear at once.
Pulsed(p, t, r, b) ==
  /\ b \notin At(Began(p), r)
  /\ \A a \in MainAccesses(t) : Writes(a) /\ a.r = r => b \notin a.set
  /\ \A irq \in DOMAIN t.irqs : \A run \in DOMAIN t.irqs[irq] : \A k \in 1 .. Len(t.irqs[irq][run]) :
       LET code == t.irqs[irq][run][k].code
       IN \A i \in 1 .. Len(code) :
            Writes(code[i]) /\ code[i].r = r /\ b \in code[i].set =>
              i < Len(code) /\ code[i + 1] = AndNot(r, {b})

\* The main oscillator cannot get ready at place i of call c: it is, or it has not been started.
NotStarted(t, c, i) == c = 1 /\ \A j \in 1 .. (i - 1) : Code(t, c)[j].r = SCS => 5 \notin Code(t, c)[j].set
NotStarting(p, t, c, i) == p = "warm" \/ NotStarted(t, c, i)

\* A "|=" or "&=" of main that no handler may disturb: any but those of PCR.
Whole(a) == a.op = "modify" /\ a.r # PCR

\* What an access h of a handler does not disturb, when it may be made at place i of code.
Undisturbed(p, t, code, i, h) ==
  LET a == code[i]
  IN Writes(h) =>
       /\ Whole(a) =>
            \/ Cell(h.r) # Cell(a.r)
            \/ /\ a.r[1] = "TCR" /\ h.op = "modify"
               /\ \A b \in h.clr \union h.set : b \in a.clr \union a.set \/ Pulsed(p, t, a.r, b)
       /\ Unmasks(code, i) => h.r # <<"FIOMASK", a.r[2]>>

KeepsPlace(p, t, c, i) ==
  LET code == Code(t, c)
      a == code[i]
      may == Known(t, c, i).may
  IN /\ KeepsBits(t.main[c], i, may, MayHold(p, t, Cell(a.r))) /\ SetsPins(t.main[c], i)
     /\ Whole(a) => Cell(a.r)[1] \notin HardwareNames \/ (a.r = SCS /\ NotStarting(p, t, c, i))
     /\ Writes(a) /\ a.r = SCS => a.op = "modify" /\ 6 \notin a.clr
     /\ c = 1 /\ Jumps(a) => a.n \in Nat
     /\ \A irq \in may \intersect DOMAIN t.irqs :
          \A h \in HandlerAccesses(t, irq) : Undisturbed(p, t, code, i, h[2])

KeepsHandlers(p, t) ==
  \A irq \in DOMAIN t.irqs : \A r \in DOMAIN t.irqs[irq] : \A k \in 1 .. Len(t.irqs[irq][r]) :
    LET call == t.irqs[irq][r][k]
    IN \A i \in 1 .. Len(call.code) :
         LET a == call.code[i]
         IN /\ KeepsBits(call, i, {}, MayHold(p, t, Cell(a.r))) /\ SetsPins(call, i)
            /\ Writes(a) => a.r[1] # "ICER" /\ a.r # SCS
            /\ a.op = "modify" => OwnsAll(call, Cell(a.r)) \/ Cell(a.r)[1] \notin HardwareNames

KeepingText(p, t) ==
  /\ t.loop # 1
  /\ \A c \in 1 .. Len(t.main) : \A i \in 1 .. Len(Code(t, c)) : KeepsPlace(p, t, c, i)
  /\ KeepsHandlers(p, t)
KeepingTexts == {p \in SafeTexts : KeepingText(p, Program[p])}

-----------------------------------------------------------------------------
\* What belongs to another device stays as it is, and the text says so by itself.
OthersBitsKept == prog \in KeepingTexts /\ BitsKept

\* The pins a GPIO call names get the level it asks for, and the text says so by itself.
PinsAsAsked == prog \in KeepingTexts /\ LevelsAsAsked
=============================================================================
