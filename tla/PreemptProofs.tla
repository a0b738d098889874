---------------------------- MODULE PreemptProofs ---------------------------
(***************************************************************************)
(* Proof that a program with a safe text is safe, whatever interrupts come,*)
(* as many as there may be.                                                *)
(*                                                                         *)
(* What is known at main's place is true of the registers it is about, and *)
(* of a register's value that main or a handler has loaded and is about to *)
(* store: a "|=" that an interrupt cuts in two writes back what fits the   *)
(* place it is at.  Handlers set nothing up, so they leave what is known   *)
(* as it is, and none runs while main has the interrupts masked.           *)
(*                                                                         *)
(* With a text that keeps to its bits, a register holds what the text can  *)
(* have put there and the value main has loaded is still that of the       *)
(* register, but for bits main writes anyway and for bits that a handler   *)
(* sets and clears at once.  So an access changes what its text says.      *)
(***************************************************************************)
EXTENDS TextBits, FiniteSetTheorems, TLAPS

\* The registers something is known of.
WatchedNames == {"PCONP", "VEC", "ISER", "CTRL", "LCR", "PRIMASK"}
Watched ==
  {Pconp, Nvic, Tick, Mask} \union {Lcr(n) : n \in 0 .. 3} \union {Vector(irq) : irq \in Handled}

\* A value v of the register cell is as known.
Fits(cell, v, known) ==
  /\ cell[1] \in {"PCONP", "VEC"} => \A f \in known.sure : f[1] = cell => f[2] \in v
  /\ cell = Nvic => v \subseteq known.may
  /\ cell = Tick /\ 1 \in v => -1 \in known.may
  /\ \A n \in 0 .. 3 : cell = Lcr(n) /\ 7 \in v => n \in known.open
  /\ cell = Mask /\ known.masked => v # {}

\* The value a processor context has loaded, if any, is as known.
LoadFits(code, x, known) ==
  LET cell == Cell(code[x.i].r)
  IN x.l # << >> /\ cell \in Watched => Fits(cell, x.l[1], known)

Now == Known(Program[prog], pc, at.i)

InMain ==
  /\ pc \in 1 .. Len(Main)
  /\ at = [i |-> at.i, l |-> at.l]
  /\ at.i \in 1 .. Len(Main[pc].code)
  /\ LoadFits(Main[pc].code, at, Now)

InHandler(h) ==
  /\ h = [irq |-> h.irq, run |-> h.run, call |-> h.call, at |-> [i |-> h.at.i, l |-> h.at.l]]
  /\ h.irq \in Handled /\ h.run \in DOMAIN Runs(h.irq)
  /\ Runs(h.irq)[h.run] # << >> /\ h.call \in 1 .. Len(Runs(h.irq)[h.run])
  /\ h.at.i \in 1 .. Len(Within(h).code)
  /\ LoadFits(Within(h).code, h.at, Now)
  /\ h.irq \in Now.may /\ ~Now.masked

MemoryFits == \A cell \in Watched : Fits(cell, At(mem, cell), Now)

\* A program that a default handler has stopped is where the system tick is set up.
StopFits == stopped \in BOOLEAN /\ (stopped => SettingTick)

IndInv ==
  /\ prog \in Programs /\ left \in 0 .. MaxIrq
  /\ \A c \in DOMAIN mem : mem[c] # {}
  /\ InMain
  /\ MemoryFits
  /\ StopFits
  /\ isr # << >> => isr = <<isr[1]>> /\ InHandler(isr[1])

-----------------------------------------------------------------------------
(* What a store leaves in a register *)

NonZero(m) == \A c \in DOMAIN m : m[c] # {}

\* Put() changes one cell, and keeps the cells that are 0 out of the memory.
LEMMA PutIs ==
  ASSUME NEW m, NonZero(m), NEW c, NEW v
  PROVE  NonZero(Put(m, c, v)) /\ \A x : At(Put(m, c, v), x) = IF x = c THEN v ELSE At(m, x)
<1>1. At(Put(m, c, v), c) = v
  BY DEF At, Put
<1>2. ASSUME NEW x, x # c PROVE At(Put(m, c, v), x) = At(m, x)
  BY <1>2 DEF At, Put
<1>3. NonZero(Put(m, c, v))
  BY DEF NonZero, Put
<1> QED
  BY <1>1, <1>2, <1>3

\* A store to a register leaves the watched cells but its own as they are.
LEMMA StoreElsewhere ==
  ASSUME NEW m, NonZero(m), NEW r, NEW v
  PROVE  /\ NonZero(Stored(m, r, v))
         /\ \A x : x[1] \in WatchedNames /\ x # Cell(r) => At(Stored(m, r, v), x) = At(m, x)
<1> DEFINE Same(k) == NonZero(k) /\ \A x : x[1] \in WatchedNames /\ x # Cell(r) => At(k, x) = At(m, x)
<1>1. ASSUME NEW k, Same(k), NEW c, NEW w, c[1] \notin WatchedNames \/ c = Cell(r)
      PROVE  Same(Put(k, c, w))
  BY <1>1, PutIs
<1>2. Same(m)
  OBVIOUS
<1>3. Cell(r) = r \/ r[1] \in {"FIOSET", "FIOCLR", "FIOPIN", "ISER", "ICER"}
  BY DEF Cell
<1>4. /\ {<<"PLL0FEED", 0>>[1], <<"PLL0STAT", 0>>[1], <<"MIND", 0>>[1], <<"DMACEnbldChns", 0>>[1]}
           \intersect WatchedNames = {}
  BY DEF WatchedNames
<1> HIDE DEF Same
<1>5. CASE r[1] = "PLL0FEED"
  <2>1. ASSUME NEW w PROVE Same(Put(m, <<"PLL0FEED", 0>>, w))
    BY <1>1, <1>2, <1>4
  <2>2. ASSUME NEW w, NEW u PROVE Same(Put(Put(m, <<"PLL0FEED", 0>>, w), <<"PLL0STAT", 0>>, u))
    BY <1>1, <1>4, <2>1
  <2>3. Same(Feed(m, v))
    BY <2>1, <2>2 DEF Feed
  <2> QED
    BY <1>5, <2>3 DEF Stored, Same
<1>6. CASE r[1] \in {"MWTD", "MCMD", "Config"}
  <2>1. ASSUME NEW w PROVE Same(Put(m, r, w))
    BY <1>1, <1>2, <1>3, <1>6
  <2>2. ASSUME NEW w, NEW u, NEW n \in {"MIND", "DMACEnbldChns"}
        PROVE  Same(Put(Put(m, r, w), <<n, 0>>, u))
    BY <1>1, <1>4, <2>1
  <2>3. ASSUME NEW w PROVE Same(Put(m, Cell(r), w))
    BY <1>1, <1>2
  <2>4. Same(Stored(m, r, v))
    BY <1>6, <2>2, <2>3 DEF Stored
  <2> QED
    BY <2>4 DEF Same
<1>7. CASE r[1] \notin {"PLL0FEED", "MWTD", "MCMD", "Config"}
  <2>1. ASSUME NEW w PROVE Same(Put(m, Cell(r), w))
    BY <1>1, <1>2
  <2>2. Same(Stored(m, r, v))
    BY <1>7, <2>1 DEF Stored
  <2> QED
    BY <2>2 DEF Same
<1> QED
  BY <1>5, <1>6, <1>7

\* What a store leaves in a watched cell.
LEMMA StoreHere ==
  ASSUME NEW m, NonZero(m), NEW r, NEW v, Cell(r)[1] \in WatchedNames
  PROVE  LET now == At(Stored(m, r, v), Cell(r))
         IN /\ Cell(r)[1] # "ISER" => Cell(r) = r /\ now = v
            /\ r[1] = "ISER" => now = At(m, Cell(r)) \union v
            /\ Cell(r)[1] = "ISER" /\ r[1] # "ISER" => now = At(m, Cell(r)) \ v
<1>1. /\ r[1] \in WatchedNames \union {"ICER"}
      /\ Cell(r)[1] = "ISER" <=> r[1] \in {"ISER", "ICER"}
      /\ Cell(r)[1] # "ISER" => Cell(r) = r
  BY DEF Cell, WatchedNames
<1>2. \A w : At(Put(m, Cell(r), w), Cell(r)) = w
  BY PutIs
<1>3. CASE r[1] = "ISER"
  <2>1. Stored(m, r, v) = Put(m, Cell(r), At(m, Cell(r)) \union v)
    BY <1>3 DEF Stored
  <2> QED
    BY <1>1, <1>2, <1>3, <2>1
<1>4. CASE r[1] = "ICER"
  <2>1. Stored(m, r, v) = Put(m, Cell(r), At(m, Cell(r)) \ v)
    BY <1>4 DEF Stored
  <2> QED
    BY <1>1, <1>2, <1>4, <2>1
<1>5. CASE r[1] \notin {"ISER", "ICER"}
  <2>1. Stored(m, r, v) = Put(m, Cell(r), v)
    BY <1>1, <1>5 DEF Stored, WatchedNames
  <2> QED
    BY <1>1, <1>2, <1>5, <2>1
<1> QED
  BY <1>1, <1>3, <1>4, <1>5

-----------------------------------------------------------------------------
(* An access carries what is known on *)

\* What main or a handler stores in a register.
Value(a, l) == IF a.op = "store" THEN a.set ELSE (l \ a.clr) \union a.set

\* What is known after an access of main fits what the access leaves in a watched cell,
\* whatever value it has loaded before, as long as that one was as known.
LEMMA StoreFits ==
  ASSUME NEW m, NonZero(m), NEW a, Writes(a), NEW l, NEW before, NEW after,
         NEW cell, cell[1] \in WatchedNames, Fits(cell, At(m, cell), before),
         cell = Cell(a.r) /\ a.op = "modify" => Fits(cell, l, before),
         Carries(before, a, after)
  PROVE  Fits(cell, At(Stored(m, a.r, Value(a, l)), cell), after)
<1> DEFINE now == At(Stored(m, a.r, Value(a, l)), cell)
<1>1. CASE cell # Cell(a.r)
  <2>1. now = At(m, cell)
    BY <1>1, StoreElsewhere
  <2>2. \A f \in Sets(a) : f[1] = Cell(a.r)
    BY DEF Sets, Pconp, Cell
  <2>3. \A n \in 0 .. 3 : cell = Lcr(n) => n \notin Closes(a)
    BY <1>1 DEF Closes, Lcr, Cell
  <2>4. cell = Mask => a # St(Mask, {0})
    BY <1>1 DEF St, Mask, Cell
  <2>5. cell[1] \in {"PCONP", "VEC"} => \A f \in after.sure : f[1] = cell => f[2] \in now
    BY <1>1, <2>1, <2>2 DEF Carries, Fits
  <2>6. /\ cell = Nvic => now \subseteq after.may
        /\ cell = Tick /\ 1 \in now => -1 \in after.may
    BY <2>1 DEF Carries, Fits
  <2>7. \A n \in 0 .. 3 : cell = Lcr(n) /\ 7 \in now => n \in after.open
    BY <2>1, <2>3 DEF Carries, Fits
  <2>8. cell = Mask /\ after.masked => now # {}
    BY <2>1, <2>4 DEF Carries, Fits
  <2> HIDE DEF now
  <2>9. Fits(cell, now, after)
    BY <2>5, <2>6, <2>7, <2>8 DEF Fits
  <2> QED
    BY <2>9 DEF now
<1>2. CASE cell = Cell(a.r) /\ cell[1] = "ISER"
  <2>1. /\ a.r[1] = "ISER" => now = At(m, cell) \union Value(a, l)
        /\ a.r[1] # "ISER" => now = At(m, cell) \ Value(a, l)
    BY <1>2, StoreHere
  <2>2. cell = Nvic => now \subseteq after.may
    <3>1. SUFFICES ASSUME cell = Nvic PROVE now \subseteq after.may
      OBVIOUS
    <3>2. At(m, cell) \subseteq before.may /\ (a.op = "modify" => l \subseteq before.may)
      BY <1>2, <3>1 DEF Fits
    <3>3. before.may \subseteq after.may /\ Enables(a) \subseteq after.may
      BY DEF Carries
    <3>4. a.r[1] = "ISER" => Value(a, l) \subseteq after.may
      <4>1. a.r[1] = "ISER" => Enables(a) = a.set
        BY <1>2, <3>1 DEF Enables
      <4> QED
        BY <3>2, <3>3, <4>1 DEF Value, Writes
    <3> QED
      BY <2>1, <3>2, <3>3, <3>4
  <2>3. cell # Tick /\ cell # Mask /\ \A n \in 0 .. 3 : cell # Lcr(n)
    BY <1>2 DEF Tick, Mask, Lcr
  <2> HIDE DEF now
  <2>9. Fits(cell, now, after)
    BY <1>2, <2>2, <2>3 DEF Fits
  <2> QED
    BY <2>9 DEF now
<1>3. CASE cell = Cell(a.r) /\ cell[1] # "ISER"
  <2>1. a.r = cell /\ now = Value(a, l)
    BY <1>3, StoreHere
  <2>2. cell[1] \in {"PCONP", "VEC"} => \A f \in after.sure : f[1] = cell => f[2] \in now
    <3>1. SUFFICES ASSUME cell[1] \in {"PCONP", "VEC"}, NEW f \in after.sure, f[1] = cell
                   PROVE  f[2] \in now
      OBVIOUS
    <3>2. CASE f \in Sets(a)
      <4>1. f[2] \in a.set
        BY <3>2 DEF Sets
      <4> QED
        BY <2>1, <4>1 DEF Value
    <3>3. CASE f \in before.sure /\ a.op = "modify" /\ f[2] \notin a.clr
      BY <1>3, <2>1, <3>1, <3>3 DEF Value, Fits
    <3> QED
      BY <2>1, <3>1, <3>2, <3>3 DEF Carries
  <2>3. cell = Tick /\ 1 \in now => -1 \in after.may
    <3>1. SUFFICES ASSUME cell = Tick, 1 \in now PROVE -1 \in after.may
      OBVIOUS
    <3>2. 1 \in a.set => -1 \in Enables(a)
      BY <2>1, <3>1 DEF Enables, Nvic, Tick
    <3>3. 1 \notin a.set => -1 \in before.may
      BY <1>3, <2>1, <3>1 DEF Value, Fits, Writes
    <3> QED
      BY <3>2, <3>3 DEF Carries
  <2>4. \A n \in 0 .. 3 : cell = Lcr(n) /\ 7 \in now => n \in after.open
    <3>1. SUFFICES ASSUME NEW n \in 0 .. 3, cell = Lcr(n), 7 \in now PROVE n \in after.open
      OBVIOUS
    <3>2. 7 \in a.set => n \in Opens(a)
      BY <2>1, <3>1 DEF Opens
    <3>3. 7 \notin a.set => n \in before.open /\ n \notin Closes(a)
      BY <1>3, <2>1, <3>1 DEF Value, Fits, Writes, Closes
    <3> QED
      BY <3>2, <3>3 DEF Carries
  <2>5. cell = Mask /\ after.masked => now # {}
    BY <2>1 DEF Carries, St, Value
  <2>6. cell # Nvic
    BY <1>3 DEF Nvic
  <2> HIDE DEF now
  <2>9. Fits(cell, now, after)
    BY <2>2, <2>3, <2>4, <2>5, <2>6 DEF Fits
  <2> QED
    BY <2>9 DEF now
<1> QED
  BY <1>1, <1>2, <1>3

\* An access that stores nothing carries what is known on as well.
LEMMA OtherFits ==
  ASSUME NEW a, ~Writes(a), NEW before, NEW after, NEW cell, NEW v, Fits(cell, v, before),
         Carries(before, a, after)
  PROVE  Fits(cell, v, after)
<1>1. Sets(a) = {} /\ Opens(a) = {} /\ Closes(a) = {} /\ Enables(a) = {} /\ a # St(Mask, {0})
  BY DEF Sets, Opens, Closes, Enables, Writes, St
<1> QED
  BY <1>1 DEF Fits, Carries

\* A handler that sets nothing up, while the interrupts are not masked, leaves what is
\* known as it is.
LEMMA HandlerFits ==
  ASSUME NEW m, NonZero(m), NEW a, Writes(a), SetsNothingUp(a), NEW l, NEW known, ~known.masked,
         NEW cell, cell[1] \in WatchedNames, Fits(cell, At(m, cell), known),
         cell = Cell(a.r) /\ a.op = "modify" => Fits(cell, l, known)
  PROVE  Fits(cell, At(Stored(m, a.r, Value(a, l)), cell), known)
<1>1. CASE cell # Cell(a.r)
  BY <1>1, StoreElsewhere
<1>2. CASE cell = Cell(a.r)
  <2> DEFINE now == At(Stored(m, a.r, Value(a, l)), cell)
  <2>1. cell[1] \in {"CTRL", "PRIMASK"}
    BY <1>2 DEF SetsNothingUp, WatchedNames
  <2>2. a.r = cell /\ now = Value(a, l)
    BY <1>2, <2>1, StoreHere
  <2>3. cell = Tick => (1 \in now => -1 \in known.may)
    BY <1>2, <2>2 DEF SetsNothingUp, Value, Fits, Writes
  <2>4. cell # Nvic /\ (\A n \in 0 .. 3 : cell # Lcr(n))
    BY <2>1 DEF Nvic, Lcr
  <2> HIDE DEF now
  <2>5. Fits(cell, now, known)
    BY <2>1, <2>3, <2>4 DEF Fits
  <2> QED
    BY <2>5 DEF now
<1> QED
  BY <1>1, <1>2

-----------------------------------------------------------------------------
(* The steps *)

LEMMA WatchedIs ==
  \A cell \in Watched : cell[1] \in WatchedNames
  BY DEF Watched, WatchedNames, Pconp, Nvic, Tick, Mask, Lcr, Vector

\* What the text of the program that runs is safe for.
LEMMA SafeHere ==
  ASSUME prog \in SafeTexts, InMain
  PROVE  /\ SafePlace(prog, Program[prog], pc, at.i) /\ SafeHandlers(Program[prog])
         /\ Len(Main) \in Nat /\ Program[prog].loop \in 1 .. Len(Main)
         /\ \A c \in 1 .. Len(Main) : Len(Main[c].code) \in Nat \ {0}
  BY DEF SafeTexts, SafeText, SafeMain, InMain, Main, Code

LEMMA InitFits ==
  ASSUME Init, prog \in SafeTexts
  PROVE  IndInv
<1>1. SafeMain(prog, Program[prog])
  BY DEF SafeTexts, SafeText
<1>2. Program[prog].loop \in 1 .. Len(Main) /\ Len(Main) \in Nat
  BY <1>1 DEF SafeMain, Main
<1>3. pc \in 1 .. Len(Main) /\ at.i \in 1 .. Len(Main[pc].code) /\ at = [i |-> 1, l |-> << >>]
  BY <1>1, <1>2 DEF SafeMain, Init, Start, Main, Code
<1>4. ~Now.masked /\ Now.sure \subseteq {Pconp} \X Reset[Pconp]
  BY <1>1, <1>3 DEF SafeMain, Init, Now
<1>5. NonZero(Reset) /\ \A x : x[1] \in WatchedNames /\ x # Pconp => At(Reset, x) = {}
  <2>1. DOMAIN Reset = {"PCONP", "FLASHCFG", "RICTRL"} \X {0}
    BY DEF Reset
  <2>2. \A x \in DOMAIN Reset : x[1] = "PCONP" \/ x[1] \notin WatchedNames
    BY <2>1 DEF WatchedNames
  <2>3. \A x \in DOMAIN Reset : x[1] = "PCONP" => x = Pconp
    BY <2>1 DEF Pconp
  <2>4. NonZero(Reset)
    BY <2>1 DEF NonZero, Reset
  <2> QED
    BY <2>2, <2>3, <2>4 DEF At
<1>6. At(Reset, Pconp) = Reset[Pconp]
  BY DEF At, Reset, Pconp
<1>7. NonZero(mem) /\ \A x : x[1] \in WatchedNames => At(mem, x) = At(Reset, x)
  <2>1. CASE prog # "warm"
    BY <1>5, <2>1 DEF Init, Began
  <2>2. CASE prog = "warm"
    <3> DEFINE Like(m) == NonZero(m) /\ \A x : x[1] \in WatchedNames => At(m, x) = At(Reset, x)
    <3>1. ASSUME NEW m, Like(m), NEW c, NEW v, c[1] \notin WatchedNames PROVE Like(Put(m, c, v))
      BY <3>1, PutIs
    <3>2. Like(Reset)
      BY <1>5
    <3> HIDE DEF Like
    <3>3. ASSUME NEW m, Like(m), NEW v, NEW n \in {"PLL0CON", "PLL0STAT", "SCS", "CLKSRCSEL"}
          PROVE  Like(Put(m, <<n, 0>>, v))
      BY <3>1, <3>3 DEF WatchedNames
    <3>4. Like(PllInUse)
      BY <3>2, <3>3 DEF PllInUse
    <3> QED
      BY <2>2, <3>4 DEF Init, Began, Like
  <2> QED
    BY <2>1, <2>2
<1>8. MemoryFits
  <2>1. SUFFICES ASSUME NEW cell \in Watched PROVE Fits(cell, At(mem, cell), Now)
    BY DEF MemoryFits
  <2>2. At(mem, cell) = At(Reset, cell)
    BY <1>7, WatchedIs
  <2>3. CASE cell = Pconp
    BY <1>4, <1>6, <2>2, <2>3 DEF Fits, Pconp, Nvic, Tick, Mask, Lcr
  <2>4. CASE cell # Pconp
    <3>1. At(mem, cell) = {}
      BY <1>5, <2>2, <2>4, WatchedIs
    <3>2. \A f \in Now.sure : f[1] = Pconp
      BY <1>4
    <3> QED
      BY <1>4, <2>4, <3>1, <3>2 DEF Fits
  <2> QED
    BY <2>3, <2>4
<1>9. InMain
  BY <1>3 DEF InMain, LoadFits
<1>10. StopFits
  BY DEF Init, StopFits
<1> QED
  BY <1>7, <1>8, <1>9, <1>10, MaxIrqIsNat DEF IndInv, Init, NonZero

\* A step of main carries what is known on.
LEMMA MainStepFits ==
  ASSUME IndInv, prog \in SafeTexts, MainStep
  PROVE  IndInv'
<1> DEFINE code == Main[pc].code
           a    == code[at.i]
           to   == Moved(code, at, mem)
<1>0. InMain /\ MemoryFits /\ NonZero(mem) /\ isr = << >>
  BY DEF IndInv, NonZero, MainStep
<1>1. /\ SafePlace(prog, Program[prog], pc, at.i) /\ Len(Main) \in Nat /\ Program[prog].loop \in 1 .. Len(Main)
      /\ \A c \in 1 .. Len(Main) : Len(Main[c].code) \in Nat \ {0}
  BY <1>0, SafeHere
<1>2. /\ pc \in 1 .. Len(Main) /\ at.i \in 1 .. Len(code) /\ at = [i |-> at.i, l |-> at.l]
      /\ Main' = Main /\ Watched' = Watched /\ prog' = prog /\ isr' = << >> /\ left' = left
  BY <1>0 DEF InMain, MainStep, Main, Watched, Handled
<1>3. code = Code(Program[prog], pc)
  BY DEF Main, Code
<1>3a. StopFits'
  BY DEF MainStep, IndInv, StopFits
<1>4. CASE to = at /\ mem' = mem
  <2>1. at' = at /\ pc' = pc
    BY <1>1, <1>2, <1>4 DEF MainStep, Over
  <2>2. Now' = Now
    BY <1>2, <2>1 DEF Now
  <2>3. InMain'
    BY <1>0, <1>2, <2>1, <2>2 DEF InMain, LoadFits
  <2>4. MemoryFits'
    BY <1>0, <1>2, <1>4, <2>2 DEF MemoryFits
  <2> QED
    BY <1>2, <1>3a, <1>4, <2>3, <2>4 DEF IndInv
<1>5. CASE a.op = "modify" /\ at.l = << >>
  <2>1. to = [i |-> at.i, l |-> <<Load(mem, a.r)>>] /\ mem' = mem
    BY <1>2, <1>5 DEF Moved, Waits, Left, MainStep
  <2>2. at' = to /\ pc' = pc
    BY <1>1, <1>2, <2>1 DEF MainStep, Over
  <2>3. Now' = Now /\ Main'[pc'].code = code
    BY <1>2, <2>1, <2>2 DEF Now
  <2>4. LoadFits(Main'[pc'].code, at', Now')
    <3>1. Cell(a.r) \in Watched => Load(mem, a.r) = At(mem, Cell(a.r))
      BY WatchedIs DEF Load, Cell, WatchedNames
    <3>2. Cell(a.r) \in Watched => Fits(Cell(a.r), Load(mem, a.r), Now)
      BY <1>0, <3>1 DEF MemoryFits
    <3> QED
      BY <1>2, <2>1, <2>2, <2>3, <3>2 DEF LoadFits
  <2>5. InMain'
    <3>1. at' = [i |-> at'.i, l |-> at'.l] /\ at'.i = at.i
      BY <2>1, <2>2
    <3> HIDE DEF to
    <3> QED
      BY <1>2, <2>2, <2>3, <2>4, <3>1 DEF InMain, LoadFits
  <2>6. MemoryFits'
    BY <1>0, <1>2, <2>1, <2>3 DEF MemoryFits
  <2> QED
    BY <1>2, <1>3a, <2>1, <2>5, <2>6 DEF IndInv
<1>6. CASE ~Waits(a, mem) /\ (a.op # "modify" \/ at.l # << >>)
  <2> DEFINE next == IF pc = Len(Main) THEN Program[prog].loop ELSE pc + 1
             tos == CASE a.op = "else" -> {at.i + 1 + a.n}
                      [] a.op = "if" -> {at.i + 1, at.i + 1 + a.n}
                      [] OTHER -> {at.i + 1}
  <2>1. to = [i |-> to.i, l |-> << >>] /\ to.i \in tos
    <3>1. CASE a.op = "else" \/ (a.op = "if" /\ ~(a.clr \subseteq Load(mem, a.r)))
      <4>1. to = [i |-> at.i + 1 + a.n, l |-> << >>]
        BY <1>6, <3>1 DEF Moved
      <4> QED
        BY <3>1, <4>1
    <3>2. CASE ~(a.op = "else" \/ (a.op = "if" /\ ~(a.clr \subseteq Load(mem, a.r))))
      <4>1. to = [i |-> at.i + 1, l |-> << >>]
        BY <1>6, <3>2 DEF Moved
      <4> QED
        BY <3>2, <4>1
    <3> QED
      BY <3>1, <3>2
  <2>2. Following(Program[prog], pc, at.i) = {IF k > Len(code) THEN <<next, 1>> ELSE <<pc, k>> : k \in tos}
    BY <1>3 DEF Following, Main
  <2> HIDE DEF tos, to
  <2>3. <<pc', at'.i>> \in Following(Program[prog], pc, at.i) /\ at' = [i |-> at'.i, l |-> << >>]
    <3>1. CASE Over(code, to)
      <4>1. at' = Start /\ pc' = next
        BY <3>1 DEF MainStep, to
      <4> QED
        BY <2>1, <2>2, <3>1, <4>1 DEF Over, Start
    <3>2. CASE ~Over(code, to)
      <4>1. at' = to /\ pc' = pc
        BY <3>2 DEF MainStep, to
      <4> QED
        BY <2>1, <2>2, <3>2, <4>1 DEF Over
    <3> QED
      BY <3>1, <3>2
  <2>4. pc' \in 1 .. Len(Main)
    BY <1>1, <1>2, <2>3 DEF MainStep
  <2>5. at'.i \in 1 .. Len(Main[pc'].code) /\ Carries(Now, a, Known(Program[prog], pc', at'.i))
    BY <1>1, <1>3, <2>3 DEF SafePlace, Code, Main, Now
  <2>6. Now' = Known(Program[prog], pc', at'.i)
    BY <1>2 DEF Now
  <2>7. InMain'
    BY <1>2, <2>3, <2>4, <2>5 DEF InMain, LoadFits
  <2>8. MemoryFits' /\ NonZero(mem')
    <3>1. CASE Writes(a)
      <4>1. mem' = Stored(mem, a.r, Value(a, at.l[1]))
        BY <1>6, <3>1 DEF MainStep, Left, Value, Writes
      <4>2. ASSUME NEW cell \in Watched
            PROVE  Fits(cell, At(mem', cell), Now')
        <5>1. Fits(cell, At(mem, cell), Now) /\ cell[1] \in WatchedNames
          BY <1>0, WatchedIs DEF MemoryFits
        <5>2. cell = Cell(a.r) /\ a.op = "modify" => Fits(cell, at.l[1], Now)
          BY <1>0, <1>6 DEF InMain, LoadFits
        <5> QED
          BY <1>0, <2>5, <2>6, <3>1, <4>1, <5>1, <5>2, StoreFits
      <4> QED
        BY <1>0, <1>2, <4>1, <4>2, StoreElsewhere DEF MemoryFits
    <3>2. CASE ~Writes(a)
      <4>1. mem' = mem
        BY <3>2 DEF MainStep, Left, Writes
      <4>2. ASSUME NEW cell \in Watched
            PROVE  Fits(cell, At(mem', cell), Now')
        BY <1>0, <2>5, <2>6, <3>2, <4>1, OtherFits DEF MemoryFits
      <4> QED
        BY <1>0, <1>2, <4>1, <4>2 DEF MemoryFits
    <3> QED
      BY <3>1, <3>2
  <2> QED
    BY <1>2, <1>3a, <2>7, <2>8 DEF IndInv, NonZero
<1> QED
  <2>1. Waits(a, mem) => to = at /\ mem' = mem
    BY DEF Waits, Moved, Left, MainStep
  <2> QED
    BY <1>4, <1>5, <1>6, <2>1

\* An interrupt that is taken is known to be one that may be, and none is masked.
LEMMA TakenIsKnown ==
  ASSUME MemoryFits, NEW irq, Taken(irq)
  PROVE  irq \in Now.may /\ ~Now.masked
<1>1. Mask \in Watched /\ Nvic \in Watched /\ Tick \in Watched
  BY DEF Watched
<1>2. ~Now.masked
  <2>1. Fits(Mask, At(mem, Mask), Now)
    BY <1>1 DEF MemoryFits
  <2>2. At(mem, Mask) = {}
    BY DEF Taken, Mask
  <2> QED
    BY <2>1, <2>2 DEF Fits
<1>3. CASE irq \in At(mem, Nvic)
  <2>1. Fits(Nvic, At(mem, Nvic), Now)
    BY <1>1 DEF MemoryFits
  <2> QED
    BY <1>2, <1>3, <2>1 DEF Fits
<1>4. CASE irq = -1 /\ irq \notin At(mem, Nvic)
  <2>1. 1 \in At(mem, Tick)
    BY <1>4 DEF Taken, Asked, Tick
  <2>2. Fits(Tick, At(mem, Tick), Now)
    BY <1>1 DEF MemoryFits
  <2> QED
    BY <1>2, <1>4, <2>1, <2>2 DEF Fits
<1> QED
  BY <1>2, <1>3, <1>4 DEF Taken, Nvic

\* A handler known to be in the vector table is there.
LEMMA VectorFits ==
  ASSUME MemoryFits, NEW irq \in Handled, <<Vector(irq), 0>> \in Now.sure
  PROVE  At(mem, Vector(irq)) # {}
<1>1. Fits(Vector(irq), At(mem, Vector(irq)), Now)
  BY DEF MemoryFits, Watched
<1> QED
  BY <1>1 DEF Fits, Vector

\* A handler that starts finds what is known as it was.
LEMMA EnterFits ==
  ASSUME IndInv, prog \in SafeTexts, NEW irq \in Handled, Enter(irq)
  PROVE  IndInv'
<1>1. /\ UNCHANGED <<prog, mem, pc, at>> /\ left' \in 0 .. MaxIrq
      /\ InMain /\ MemoryFits /\ Taken(irq)
  BY MaxIrqIsNat DEF Enter, IndInv
<1>2. Now' = Now /\ Main' = Main /\ Watched' = Watched /\ Handled' = Handled
  BY <1>1 DEF Now, Main, Watched, Handled
<1>3. InMain' /\ MemoryFits'
  BY <1>1, <1>2 DEF InMain, MemoryFits, LoadFits
<1>4. SafeHandlers(Program[prog]) /\ SafePlace(prog, Program[prog], pc, at.i)
  BY <1>1, SafeHere
<1>5. isr' # << >> => isr' = <<isr'[1]>> /\ InHandler(isr[1])'
  <2>1. SUFFICES ASSUME isr' # << >> PROVE isr' = <<isr'[1]>> /\ InHandler(isr[1])'
    OBVIOUS
  <2>2. PICK r \in DOMAIN Runs(irq) :
          Runs(irq)[r] # << >> /\ isr' = <<[irq |-> irq, run |-> r, call |-> 1, at |-> Start]>>
    BY <2>1 DEF Enter, TakenBySample, TakenByDefault
  <2> DEFINE h == [irq |-> irq, run |-> r, call |-> 1, at |-> [i |-> 1, l |-> << >>]]
  <2>3. isr' = <<h>> /\ isr'[1] = h
    BY <2>2 DEF Start
  <2>4. /\ Len(Runs(irq)[r]) \in Nat \ {0}
        /\ Len(Runs(irq)[r][1].code) \in Nat \ {0}
    <3> DEFINE run == Program[prog].irqs[irq][r]
    <3>1. Len(run) \in Nat \ {0} /\ \A k \in 1 .. Len(run) : Len(run[k].code) \in Nat \ {0}
      <4>1. irq \in DOMAIN Program[prog].irqs /\ r \in DOMAIN Program[prog].irqs[irq] /\ run # << >>
        BY <2>2 DEF Handled, Runs
      <4> QED
        BY <1>4, <4>1 DEF SafeHandlers
    <3>2. 1 \in 1 .. Len(run)
      BY <3>1
    <3> HIDE DEF run
    <3>3. Len(run[1].code) \in Nat \ {0}
      BY <3>1, <3>2
    <3> QED
      BY <3>1, <3>3 DEF run, Runs
  <2>5. irq \in Now.may /\ ~Now.masked
    BY <1>1, TakenIsKnown
  <2>6. InHandler(h)
    BY <2>2, <2>4, <2>5 DEF InHandler, Within, LoadFits
  <2> HIDE DEF h
  <2>7. InHandler(h)'
    BY <1>1, <1>2, <2>6 DEF InHandler, Within, Runs, LoadFits
  <2> QED
    BY <2>3, <2>7
<1>6. StopFits'
  <2>1. CASE TakenBySample(irq)
    BY <2>1 DEF TakenBySample, Enter, IndInv, StopFits
  <2>2. CASE TakenByDefault(irq)
    <3>1. irq \in Now.may \intersect Handled
      BY <1>1, TakenIsKnown
    <3>2. <<Vector(irq), 0>> \in Now.sure \/ SettingTick
      BY <1>4, <3>1 DEF SafePlace, Now, Handled, Main, SettingTick
    <3>3. <<Vector(irq), 0>> \notin Now.sure
      BY <1>1, <2>2, VectorFits DEF TakenByDefault, Vector
    <3> QED
      BY <1>1, <1>2, <2>2, <3>2, <3>3 DEF TakenByDefault, StopFits, SettingTick
  <2> QED
    BY <2>1, <2>2 DEF Enter
<1> QED
  BY <1>1, <1>3, <1>5, <1>6 DEF IndInv

\* A handler leaves what is known as it is.
LEMMA HandlerStepFits ==
  ASSUME IndInv, prog \in SafeTexts, HandlerStep
  PROVE  IndInv'
<1> DEFINE h    == isr[1]
           run  == Runs(h.irq)[h.run]
           code == Within(h).code
           a    == code[h.at.i]
           to   == Moved(code, h.at, mem)
<1>1. UNCHANGED <<prog, pc, at, left>> /\ InMain /\ MemoryFits /\ NonZero(mem)
  BY DEF HandlerStep, IndInv, NonZero
<1>2. /\ isr = <<h>> /\ InHandler(h)
      /\ h = [irq |-> h.irq, run |-> h.run, call |-> h.call, at |-> [i |-> h.at.i, l |-> h.at.l]]
      /\ h.call \in 1 .. Len(run) /\ h.at.i \in 1 .. Len(code) /\ h.irq \in Now.may /\ ~Now.masked
  BY DEF HandlerStep, IndInv, InHandler
<1>3. /\ Now' = Now /\ Main' = Main /\ Watched' = Watched /\ Handled' = Handled
      /\ \A irq : Runs(irq)' = Runs(irq)
  BY <1>1 DEF Now, Main, Watched, Handled, Runs
<1>4. InMain' /\ StopFits'
  BY <1>1, <1>3 DEF InMain, LoadFits, HandlerStep, IndInv, StopFits, SettingTick
<1>5. /\ SetsNothingUp(a) /\ Len(run) \in Nat
      /\ Jumps(a) => h.at.i + 1 + a.n \in 1 .. (Len(code) + 1)
      /\ \A k \in 1 .. Len(run) : Len(run[k].code) \in Nat \ {0}
  <2>1. SafeHandlers(Program[prog])
    BY <1>1, SafeHere
  <2>2. h.irq \in DOMAIN Program[prog].irqs /\ h.run \in DOMAIN Program[prog].irqs[h.irq] /\ run # << >>
    BY <1>2 DEF InHandler, Handled, Runs
  <2> QED
    BY <1>2, <2>1, <2>2 DEF SafeHandlers, Within, Runs
<1>6. MemoryFits' /\ NonZero(mem')
  <2>1. CASE Writes(a) /\ mem' # mem
    <3>1. mem' = Stored(mem, a.r, Value(a, h.at.l[1])) /\ (a.op = "modify" => h.at.l # << >>)
      BY <2>1 DEF HandlerStep, Left, Value, Writes
    <3>2. ASSUME NEW cell \in Watched
          PROVE  Fits(cell, At(mem', cell), Now)
      <4>1. Fits(cell, At(mem, cell), Now) /\ cell[1] \in WatchedNames
        BY <1>1, WatchedIs DEF MemoryFits
      <4>2. cell = Cell(a.r) /\ a.op = "modify" => Fits(cell, h.at.l[1], Now)
        BY <1>2, <3>1 DEF InHandler, LoadFits
      <4> QED
        BY <1>1, <1>2, <1>5, <2>1, <3>1, <4>1, <4>2, HandlerFits
    <3> QED
      BY <1>1, <1>3, <3>1, <3>2, StoreElsewhere DEF MemoryFits
  <2>2. CASE mem' = mem
    BY <1>1, <1>3, <2>2 DEF MemoryFits
  <2>3. ~Writes(a) => mem' = mem
    BY DEF HandlerStep, Left, Writes
  <2> QED
    BY <2>1, <2>2, <2>3
<1>7. isr' # << >> => isr' = <<isr'[1]>> /\ InHandler(isr[1])'
  <2>1. isr' = IF ~Over(code, to) THEN <<[h EXCEPT !.at = to]>>
               ELSE IF h.call < Len(run) THEN <<[irq |-> h.irq, run |-> h.run, call |-> h.call + 1, at |-> Start]>> ELSE << >>
    BY DEF HandlerStep
  <2> DEFINE with(c, x) == [irq |-> h.irq, run |-> h.run, call |-> c, at |-> [i |-> x.i, l |-> x.l]]
  <2>2. ASSUME NEW c, NEW x, isr' = <<with(c, x)>>, InHandler(with(c, x))
        PROVE  isr' = <<isr'[1]>> /\ InHandler(isr[1])'
    <3>0. PICK g : g = with(c, x)
      OBVIOUS
    <3>1. isr' = <<g>> /\ isr'[1] = g
      BY <2>2, <3>0
    <3>2. InHandler(g)
      BY <2>2, <3>0
    <3>3. InHandler(g)'
      BY <1>1, <1>3, <3>2 DEF InHandler, Within, LoadFits
    <3> QED
      BY <3>1, <3>3
  <2>3. ASSUME ~Over(code, to)
        PROVE  isr' = <<with(h.call, to)>> /\ InHandler(with(h.call, to))
    <3>1. to = [i |-> to.i, l |-> to.l] /\ to.i \in 1 .. Len(code) /\ LoadFits(code, to, Now)
      <4>1. CASE to = h.at
        BY <1>2, <4>1 DEF InHandler
      <4>2. CASE a.op = "modify" /\ h.at.l = << >>
        <5>1. to = [i |-> h.at.i, l |-> <<Load(mem, a.r)>>]
          BY <1>2, <4>2 DEF Moved, Waits
        <5>2. Cell(a.r) \in Watched => Load(mem, a.r) = At(mem, Cell(a.r))
          BY WatchedIs DEF Load, Cell, WatchedNames
        <5>3. Cell(a.r) \in Watched => Fits(Cell(a.r), Load(mem, a.r), Now)
          BY <1>1, <5>2 DEF MemoryFits
        <5> QED
          BY <1>2, <5>1, <5>3 DEF LoadFits
      <4>3. CASE ~Waits(a, mem) /\ (a.op # "modify" \/ h.at.l # << >>)
        <5>1. \/ to = [i |-> h.at.i + 1 + a.n, l |-> << >>] /\ Jumps(a)
              \/ to = [i |-> h.at.i + 1, l |-> << >>]
          BY <4>3 DEF Moved, Jumps
        <5>2. to.i \in 1 .. Len(code)
          <6>1. Len(code) \in Nat
            BY <1>2, <1>5 DEF Within
          <6>2. h.at.i \in 1 .. Len(code) /\ (Jumps(a) => h.at.i + 1 + a.n \in 1 .. (Len(code) + 1))
            BY <1>2, <1>5
          <6> HIDE DEF code, h, a, to
          <6>3. to.i = h.at.i + 1 \/ (to.i = h.at.i + 1 + a.n /\ Jumps(a))
            BY <5>1
          <6>4. ~(to.i > Len(code))
            BY <2>3 DEF Over
          <6> QED
            BY <6>1, <6>2, <6>3, <6>4
        <5> QED
          BY <5>1, <5>2 DEF LoadFits
      <4>4. Waits(a, mem) => to = h.at
        BY DEF Moved, Waits
      <4> QED
        BY <4>1, <4>2, <4>3, <4>4
    <3> HIDE DEF h, to
    <3>2. isr' = <<with(h.call, to)>>
      BY <1>2, <2>1, <2>3, <3>1
    <3> QED
      BY <1>2, <3>1, <3>2 DEF InHandler, Within
  <2>4. ASSUME Over(code, to), h.call < Len(run)
        PROVE  isr' = <<with(h.call + 1, Start)>> /\ InHandler(with(h.call + 1, Start))
    <3> HIDE DEF h, to
    <3>1. isr' = <<with(h.call + 1, Start)>>
      BY <1>2, <2>1, <2>4 DEF Start
    <3>2. h.call + 1 \in 1 .. Len(run) /\ Len(run[h.call + 1].code) \in Nat \ {0}
      BY <1>2, <1>5, <2>4
    <3> QED
      BY <1>2, <3>1, <3>2 DEF InHandler, Within, LoadFits, Start
  <2> HIDE DEF h, to
  <2>5. Over(code, to) /\ ~(h.call < Len(run)) => isr' = << >>
    BY <2>1
  <2> QED
    BY <2>2, <2>3, <2>4, <2>5
<1> QED
  BY <1>1, <1>4, <1>6, <1>7 DEF IndInv, NonZero

-----------------------------------------------------------------------------
(* The hardware sets nothing up *)

LEMMA HardwareFits ==
  ASSUME IndInv, Hardware
  PROVE  IndInv'
<1> DEFINE Like(m) == NonZero(m) /\ \A x : x[1] \in WatchedNames => At(m, x) = At(mem, x)
<1>1. UNCHANGED <<prog, pc, at, isr, stopped, left>>
  BY DEF Hardware, Match, OscillatorReady, PllLocks, Converts, TimePasses, MiimDone, PhyReady, Copied,
         SetByHardware
<1>2. Like(mem)
  BY DEF IndInv, NonZero
<1>3. ASSUME NEW m, Like(m), NEW c, NEW v, c[1] \notin WatchedNames
      PROVE  Like(Put(m, c, v))
  BY <1>3, PutIs
<1> HIDE DEF Like
<1>4. Like(mem')
  <2>1. ASSUME NEW r, NEW b, SetByHardware(r, b), r[1] \notin WatchedNames
        PROVE  Like(mem')
    BY <1>2, <1>3, <2>1 DEF SetByHardware
  <2>2. {"IR", "SCS", "PLL0STAT", "ADDR", "TC", "MRDD", "PHY", "MIND", "DMACEnbldChns", "Config"}
          \intersect WatchedNames = {}
    BY DEF WatchedNames
  <2>3. Match \/ OscillatorReady \/ PllLocks \/ (\E c \in 4 .. 5 : Converts(c)) \/ TimePasses => Like(mem')
    BY <2>1, <2>2 DEF Match, OscillatorReady, PllLocks, Converts, TimePasses, TC
  <2>4. ASSUME NEW m, Like(m), NEW v, NEW k,
               NEW n \in {"MRDD", "PHY", "MIND", "DMACEnbldChns", "Config"}
        PROVE  Like(Put(m, <<n, k>>, v))
    BY <1>3, <2>2, <2>4
  <2>5. MiimDone => Like(mem')
    BY <1>2, <2>4 DEF MiimDone, MRDD, MIND
  <2>6. PhyReady \/ Copied(0) => Like(mem')
    BY <1>2, <2>4 DEF PhyReady, Copied
  <2> QED
    BY <2>3, <2>5, <2>6 DEF Hardware
<1>5. \A cell \in Watched : At(mem', cell) = At(mem, cell)
  BY <1>4, WatchedIs DEF Like
<1>6. /\ Now' = Now /\ Main' = Main /\ Watched' = Watched /\ Handled' = Handled
      /\ \A irq : Runs(irq)' = Runs(irq)
  BY <1>1 DEF Now, Main, Watched, Handled, Runs
<1>7. InMain' /\ MemoryFits' /\ StopFits'
  BY <1>1, <1>5, <1>6 DEF IndInv, InMain, MemoryFits, LoadFits, StopFits, SettingTick
<1>8. isr # << >> => InHandler(isr[1])'
  BY <1>1, <1>6 DEF IndInv, InHandler, Within, LoadFits
<1> QED
  BY <1>1, <1>4, <1>7, <1>8 DEF IndInv, Like, NonZero

-----------------------------------------------------------------------------
(* What follows from what is known *)

\* The access a handler is at is one of its text.
LEMMA HandlerIs ==
  ASSUME IndInv, isr # << >>
  PROVE  /\ isr = <<isr[1]>> /\ InHandler(isr[1]) /\ isr[1].irq \in Now.may \intersect Handled
         /\ Here = Within(isr[1]) /\ Place = isr[1].at /\ Access = Within(isr[1]).code[isr[1].at.i]
         /\ <<Here, Access>> \in HandlerAccesses(Program[prog], isr[1].irq)
<1> DEFINE h == isr[1]
           run == Program[prog].irqs[h.irq][h.run]
<1>1. isr = <<h>> /\ InHandler(h)
  BY DEF IndInv
<1>2. /\ h.irq \in Now.may \intersect Handled /\ h.run \in DOMAIN Program[prog].irqs[h.irq]
      /\ h.call \in 1 .. Len(run) /\ h.at.i \in 1 .. Len(run[h.call].code)
      /\ Within(h) = run[h.call]
  BY <1>1 DEF InHandler, Runs, Within
<1>3. Here = run[h.call] /\ Place = h.at /\ Access = run[h.call].code[h.at.i]
  BY <1>2 DEF Here, Access, Place
<1>4. <<run[h.call], run[h.call].code[h.at.i]>> \in HandlerAccesses(Program[prog], h.irq)
  <2> DEFINE of(q, k) == {<<q[k], q[k].code[i]>> : i \in 1 .. Len(q[k].code)}
             in(q) == UNION {of(q, k) : k \in 1 .. Len(q)}
  <2>1. HandlerAccesses(Program[prog], h.irq) =
          UNION {in(q) : q \in {Program[prog].irqs[h.irq][r] : r \in DOMAIN Program[prog].irqs[h.irq]}}
    BY DEF HandlerAccesses
  <2>2. <<run[h.call], run[h.call].code[h.at.i]>> \in of(run, h.call)
    BY <1>2
  <2> HIDE DEF of
  <2>3. <<run[h.call], run[h.call].code[h.at.i]>> \in in(run)
    BY <1>2, <2>2
  <2> HIDE DEF in
  <2> QED
    BY <1>2, <2>1, <2>3
<1> QED
  BY <1>1, <1>2, <1>3, <1>4

LEMMA KnownIsReady ==
  ASSUME IndInv, prog \in SafeTexts
  PROVE  SetUpBefore /\ LinesAreWhole
<1> DEFINE a == Main[pc].code[at.i]
<1>0. InMain /\ MemoryFits /\ SafePlace(prog, Program[prog], pc, at.i)
  BY SafeHere DEF IndInv
<1>1. /\ a = Code(Program[prog], pc)[at.i] /\ Now = Known(Program[prog], pc, at.i)
      /\ FindsPower(Main[pc], a, Now) /\ FindsLatchesClosed(a, Now)
      /\ MidLine(Main[pc].code, at) => Now.masked
      /\ \A irq \in Now.may \intersect Handled :
           /\ <<Vector(irq), 0>> \in Now.sure \/ (irq = -1 /\ SettingTick)
           /\ \A h \in HandlerAccesses(Program[prog], irq) :
                /\ FindsPower(h[1], h[2], Now) \/ (prog = "timer" /\ pc <= 4)
                /\ FindsLatchesClosed(h[2], Now)
  BY <1>0 DEF SafePlace, Code, Main, Now, Handled, MidLine, Start, SettingTick
<1> HIDE DEF a
<1>2. ASSUME isr # << >>
      PROVE  /\ isr = <<isr[1]>> /\ InHandler(isr[1]) /\ isr[1].irq \in Now.may \intersect Handled
             /\ Here = Within(isr[1]) /\ <<Here, Access>> \in HandlerAccesses(Program[prog], isr[1].irq)
  BY <1>2, HandlerIs
<1>3. isr = << >> => Here = Main[pc] /\ Access = a
  BY DEF Here, Access, Place, a
<1>4. TypeOK
  BY <1>0, <1>2 DEF IndInv, TypeOK, InMain, InHandler, StopFits
<1>5. HandlerInstalled
  <2>1. ASSUME NEW irq \in Handled, Taken(irq)
        PROVE  At(mem, Vector(irq)) # {} \/ (irq = -1 /\ SettingTick)
    BY <1>0, <1>1, <2>1, TakenIsKnown, VectorFits
  <2>2. stopped => SettingTick
    BY DEF IndInv, StopFits
  <2> QED
    BY <2>1, <2>2 DEF HandlerInstalled, Vector
<1>6. ASSUME NEW bit, <<Pconp, bit>> \in Now.sure PROVE bit \in At(mem, <<"PCONP", 0>>)
  <2>1. Fits(Pconp, At(mem, Pconp), Now)
    BY <1>0 DEF MemoryFits, Watched
  <2> QED
    BY <1>6, <2>1 DEF Fits, Pconp
<1>7. ASSUME NEW b, FindsLatchesClosed(b, Now), b.r[1] \in {"THR", "RBR", "IER"}
      PROVE  7 \notin At(mem, <<"LCR", b.r[2]>>)
  <2>1. PICK n \in 0 .. 3 : n = b.r[2] /\ n \notin Now.open
    BY <1>7 DEF FindsLatchesClosed
  <2>2. Fits(Lcr(n), At(mem, Lcr(n)), Now)
    BY <1>0 DEF MemoryFits, Watched
  <2> QED
    BY <2>1, <2>2 DEF Fits, Lcr
<1>8. PoweredWhenUsed
  <2>1. FindsPower(Here, Access, Now) \/ (prog = "timer" /\ isr # << >> /\ pc <= 4)
    BY <1>1, <1>2, <1>3
  <2> QED
    BY <1>6, <2>1 DEF FindsPower, PoweredWhenUsed
<1>9. DataNotDivisor
  <2>1. FindsLatchesClosed(Access, Now)
    BY <1>1, <1>2, <1>3
  <2> QED
    BY <1>7, <2>1 DEF DataNotDivisor
<1>10. LinesAreWhole
  BY <1>1, <1>2 DEF LinesAreWhole, InHandler
<1> QED
  BY <1>4, <1>5, <1>8, <1>9, <1>10 DEF SetUpBefore

-----------------------------------------------------------------------------
\* What is known of a program with a safe text stays true, however many interrupts come.
THEOREM KnownIsTrue ==
  Spec => [](prog \in SafeTexts => IndInv)
<1>1. Init => (prog \in SafeTexts => IndInv)
  BY InitFits
<1>2. (prog \in SafeTexts => IndInv) /\ [Next]_vars => (prog \in SafeTexts => IndInv)'
  <2>1. SUFFICES ASSUME prog \in SafeTexts => IndInv, [Next]_vars, prog' \in SafeTexts PROVE IndInv'
    BY DEF SafeTexts
  <2>2. prog' = prog
    BY <2>1 DEF Next, vars, MainStep, Enter, HandlerStep, Blinks, Hardware, Match, OscillatorReady, PllLocks,
                Converts, TimePasses, MiimDone, PhyReady, Copied, SetByHardware
  <2>3. IndInv /\ prog \in SafeTexts
    BY <2>1, <2>2
  <2>4. CASE UNCHANGED vars
    BY <2>3, <2>4 DEF vars, IndInv, InMain, InHandler, MemoryFits, LoadFits, Now, Main, Within, Runs,
                      Handled, Watched, StopFits, SettingTick
  <2> QED
    BY <2>1, <2>3, <2>4, MainStepFits, EnterFits, HandlerStepFits, HardwareFits DEF Next, Blinks
<1> QED
  BY <1>1, <1>2, PTL DEF Spec

\* A program with a safe text only uses what is set up, in main and in the handlers
\* (uart.c:99-184, interrupt.c:137-141).
THEOREM UsesWhatIsReady ==
  Spec => [](prog \in SafeTexts => ReadyWhenUsed)
<1>1. (prog \in SafeTexts => IndInv) => (prog \in SafeTexts => ReadyWhenUsed)
  BY KnownIsReady DEF ReadyWhenUsed
<1> QED
  BY <1>1, KnownIsTrue, PTL

\* No handler sends a character while main is in the middle of a line (printf.c:84-190).
THEOREM LinesStayWhole ==
  Spec => [](prog \in SafeTexts => LinesAreWhole)
<1>1. (prog \in SafeTexts => IndInv) => (prog \in SafeTexts => LinesAreWhole)
  BY KnownIsReady
<1> QED
  BY <1>1, KnownIsTrue, PTL

-----------------------------------------------------------------------------
(* What a store changes *)

\* A store changes its own cell and the one beside it.
LEMMA StoreTouches ==
  ASSUME NEW m, NonZero(m), NEW r, NEW v, r[1] = "PLL0FEED" => r = <<"PLL0FEED", 0>>
  PROVE  \A x : x \notin {Cell(r), Beside(r)} => At(Stored(m, r, v), x) = At(m, x)
<1> DEFINE Same(k) == NonZero(k) /\ \A x : x \notin {Cell(r), Beside(r)} => At(k, x) = At(m, x)
<1>1. ASSUME NEW k, Same(k), NEW c \in {Cell(r), Beside(r)}, NEW w
      PROVE  Same(Put(k, c, w))
  BY <1>1, PutIs
<1>2. Same(m)
  OBVIOUS
<1>3. ASSUME NEW c \in {Cell(r), Beside(r)}, NEW w PROVE Same(Put(m, c, w))
  BY <1>1, <1>2
<1>4. ASSUME NEW w, NEW u PROVE Same(Put(Put(m, Cell(r), w), Beside(r), u))
  BY <1>1, <1>3
<1> HIDE DEF Same
<1>5. CASE r[1] = "PLL0FEED"
  <2>1. Cell(r) = <<"PLL0FEED", 0>> /\ Beside(r) = <<"PLL0STAT", 0>>
    BY <1>5 DEF Cell, Beside
  <2>2. Same(Feed(m, v))
    BY <1>3, <1>4, <2>1 DEF Feed
  <2> QED
    BY <1>5, <2>2 DEF Stored, Same
<1>6. CASE r[1] \in {"MWTD", "MCMD", "Config"}
  <2>1. Cell(r) = r /\ (r[1] \in {"MWTD", "MCMD"} => Beside(r) = <<"MIND", 0>>)
        /\ (r[1] = "Config" => Beside(r) = <<"DMACEnbldChns", 0>>)
    BY <1>6 DEF Cell, Beside
  <2>2. Same(Stored(m, r, v))
    BY <1>3, <1>4, <1>6, <2>1 DEF Stored
  <2> QED
    BY <2>2 DEF Same
<1>7. CASE r[1] \notin {"PLL0FEED", "MWTD", "MCMD", "Config"}
  <2>1. Same(Stored(m, r, v))
    BY <1>3, <1>7 DEF Stored
  <2> QED
    BY <2>1 DEF Same
<1> QED
  BY <1>5, <1>6, <1>7

\* The registers a store to which leaves in its cell what it writes.
Plain(r) ==
  r[1] \notin {"FIOSET", "FIOCLR", "FIOPIN", "ISER", "ICER", "IR", "RICTRL", "PLL0FEED"} \union KeepsNothing

\* A store to a plain register leaves what it writes.
LEMMA StorePlain ==
  ASSUME NEW m, NonZero(m), NEW r, NEW v, Plain(r)
  PROVE  At(Stored(m, r, v), Cell(r)) = v
<1>1. \A k, c, w : NonZero(k) => At(Put(k, c, w), c) = w /\ NonZero(Put(k, c, w))
  BY PutIs
<1>2. \A k, c, d, w, u : NonZero(k) /\ c # d => At(Put(Put(k, c, w), d, u), c) = w
  BY PutIs
<1>3. CASE r[1] \in {"MWTD", "MCMD", "Config"}
  <2>1. Cell(r) = r /\ r # <<"MIND", 0>> /\ r # <<"DMACEnbldChns", 0>>
    BY <1>3 DEF Cell
  <2> QED
    BY <1>1, <1>2, <1>3, <2>1 DEF Stored, Plain, KeepsNothing
<1>4. CASE r[1] \notin {"MWTD", "MCMD", "Config"}
  <2>1. Stored(m, r, v) = Put(m, Cell(r), v)
    BY <1>4 DEF Stored, Plain, KeepsNothing
  <2> QED
    BY <1>1, <2>1
<1> QED
  BY <1>3, <1>4

\* What a store leaves in its own cell.
LEMMA StoreLeaves ==
  ASSUME NEW m, NonZero(m), NEW r, NEW v
  PROVE  LET old == At(m, Cell(r))
             mask == At(m, <<"FIOMASK", r[2]>>)
             now == At(Stored(m, r, v), Cell(r))
         IN /\ r[1] = "FIOSET" => now = old \union (v \ mask)
            /\ r[1] = "FIOCLR" => now = old \ (v \ mask)
            /\ r[1] = "FIOPIN" => now = (old \intersect mask) \union (v \ mask)
            /\ r[1] = "ISER" => now = old \union v
            /\ r[1] \in {"ICER", "IR"} => now = old \ v
            /\ r[1] = "RICTRL" => now \subseteq old \union v
            /\ r[1] \in KeepsNothing => now = {}
            /\ Plain(r) => now = v
            /\ r[1] # "PLL0FEED" => now \subseteq old \union v
<1> DEFINE old == At(m, Cell(r))
           mask == At(m, <<"FIOMASK", r[2]>>)
           now == At(Stored(m, r, v), Cell(r))
<1>1. \A k, c, w : NonZero(k) => At(Put(k, c, w), c) = w /\ NonZero(Put(k, c, w))
  BY PutIs
<1>2. \A k, c, d, w, u : NonZero(k) /\ c # d => At(Put(Put(k, c, w), d, u), c) = w
  BY PutIs
<1>3. CASE r[1] \in {"MWTD", "MCMD", "Config"}
  <2>1. Cell(r) = r /\ r # <<"MIND", 0>> /\ r # <<"DMACEnbldChns", 0>> /\ Plain(r)
    BY <1>3 DEF Cell, Plain, KeepsNothing
  <2>2. At(Stored(m, r, v), r) = v
    BY <1>1, <1>2, <1>3, <2>1 DEF Stored, Plain, KeepsNothing
  <2>3. r[1] \notin {"FIOSET", "FIOCLR", "FIOPIN", "ISER", "ICER", "IR", "RICTRL"} \union KeepsNothing
    BY <1>3 DEF KeepsNothing
  <2> QED
    BY <2>1, <2>2, <2>3
<1>4. CASE r[1] \notin {"MWTD", "MCMD", "Config", "PLL0FEED"}
  <2>1. /\ r[1] = "FIOSET" => Stored(m, r, v) = Put(m, Cell(r), old \union (v \ mask))
        /\ r[1] = "FIOCLR" => Stored(m, r, v) = Put(m, Cell(r), old \ (v \ mask))
        /\ r[1] = "FIOPIN" => Stored(m, r, v) = Put(m, Cell(r), (old \intersect mask) \union (v \ mask))
        /\ r[1] = "ISER" => Stored(m, r, v) = Put(m, Cell(r), old \union v)
        /\ r[1] \in {"ICER", "IR"} => Stored(m, r, v) = Put(m, Cell(r), old \ v)
        /\ r[1] = "RICTRL" => Stored(m, r, v) = Put(m, Cell(r), (v \ {0}) \union (IF 0 \in v THEN {} ELSE old \intersect {0}))
    BY <1>4 DEF Stored
  <2>2. r[1] \in KeepsNothing => Stored(m, r, v) = Put(m, Cell(r), {})
    BY <1>4 DEF Stored, KeepsNothing
  <2>3. Plain(r) => Stored(m, r, v) = Put(m, Cell(r), v)
    BY <1>4 DEF Stored, Plain, KeepsNothing
  <2>4. /\ r[1] = "FIOSET" => now = old \union (v \ mask)
        /\ r[1] = "FIOCLR" => now = old \ (v \ mask)
        /\ r[1] = "FIOPIN" => now = (old \intersect mask) \union (v \ mask)
        /\ r[1] = "ISER" => now = old \union v
        /\ r[1] \in {"ICER", "IR"} => now = old \ v
    BY <1>1, <2>1
  <2>5. r[1] = "RICTRL" => now \subseteq old \union v
    BY <1>1, <2>1
  <2>6. (r[1] \in KeepsNothing => now = {}) /\ (Plain(r) => now = v)
    BY <1>1, <2>2, <2>3
  <2>7. r[1] \in {"FIOSET", "FIOCLR", "FIOPIN", "ISER", "ICER", "IR", "RICTRL"} \union KeepsNothing \/ Plain(r)
    BY <1>4 DEF Plain
  <2> HIDE DEF now, old, mask
  <2>8. now \subseteq old \union v
    BY <2>4, <2>5, <2>6, <2>7
  <2> QED
    BY <2>4, <2>5, <2>6, <2>8 DEF now, old, mask
<1>5. CASE r[1] = "PLL0FEED"
  BY <1>5 DEF Plain, KeepsNothing
<1> QED
  BY <1>3, <1>4, <1>5

\* Outside the loose registers, a store leaves only what was there and what it writes.
LEMMA StoreWithin ==
  ASSUME NEW m, NonZero(m), NEW r, NEW v, r[1] = "PLL0FEED" => r = <<"PLL0FEED", 0>>,
         NEW cell, cell[1] \notin Loose
  PROVE  At(Stored(m, r, v), cell) \subseteq
           At(m, cell) \union (IF cell = Cell(r) /\ r[1] \notin KeepsNothing THEN v ELSE {})
<1>1. CASE cell = Cell(r)
  <2>1. r[1] # "PLL0FEED"
    BY <1>1 DEF Cell, Loose
  <2> DEFINE now == At(Stored(m, r, v), Cell(r))
  <2>2. now \subseteq At(m, Cell(r)) \union v /\ (r[1] \in KeepsNothing => now = {})
    BY <2>1, StoreLeaves
  <2> HIDE DEF now
  <2> QED
    BY <1>1, <2>2 DEF now
<1>2. CASE cell # Cell(r)
  <2>1. cell # Beside(r)
    BY <1>2 DEF Beside, Loose, HardwareNames
  <2> QED
    BY <1>2, <2>1, StoreTouches
<1> QED
  BY <1>1, <1>2

\* A bit that differs between two memories is one of a cell.
LEMMA DiffIs ==
  ASSUME NEW m, NEW k, NEW bit \in Diff(m, k)
  PROVE  \E c, b : bit = <<c, b>> /\ b \in (At(m, c) \ At(k, c)) \union (At(k, c) \ At(m, c))
  BY DEF Diff

-----------------------------------------------------------------------------
(* What one access changes *)

\* The mask of the pins an access writes is the one stored right before it.
MaskIs(m, code, i) == Unmasks(code, i) => At(m, <<"FIOMASK", code[i].r[2]>>) = code[i - 1].set

\* What the text says of the bits of a cell, and of the interrupts, that an access may find.
WithinBits(m, a, may, held) ==
  /\ a.r[1] = "ICER" => At(m, Nvic) \subseteq may
  /\ Cell(a.r)[1] \notin Loose => At(m, Cell(a.r)) \subseteq held /\ Puts(a, Cell(a.r)) \subseteq held

\* A bit of a cell that differs between two memories; and those of a register that differ
\* from what was loaded.
Changed(m, k, c, b) == b \in (At(m, c) \ At(k, c)) \union (At(k, c) \ At(m, c))
Differ(m, a, l) == (Load(m, a.r) \ l) \union (l \ Load(m, a.r))

\* An access that keeps its bits changes only bits its call owns, and bits that have
\* changed since it loaded them.
LEMMA AccessChanges ==
  ASSUME NEW m, NonZero(m), NEW call, NEW i, NEW l, NEW may, NEW held, NEW a, a = call.code[i],
         Writes(a), WithinBits(m, a, may, held), KeepsBits(call, i, may, held), MaskIs(m, call.code, i),
         NEW k, k = Stored(m, a.r, Value(a, l)), NEW c, NEW b, Changed(m, k, c, b)
  PROVE  \/ Owns(call, <<c, b>>)
         \/ /\ a.op = "modify" /\ c = Cell(a.r) /\ ~OwnsAll(call, Cell(a.r))
            /\ b \in Differ(m, a, l)
<1> DEFINE v == Value(a, l)
           old == At(m, Cell(a.r))
           now == At(k, Cell(a.r))
           mask == At(m, <<"FIOMASK", a.r[2]>>)
<1>0. a = call.code[i] /\ k = Stored(m, a.r, v)
  OBVIOUS
<1>1. /\ Writes(a)
      /\ a.r[1] = "ICER" => At(m, Nvic) \subseteq may
      /\ Cell(a.r)[1] \notin Loose => old \subseteq held /\ Puts(a, Cell(a.r)) \subseteq held
  BY DEF WithinBits
<1>2. /\ \/ OwnsAll(call, Cell(a.r))
         \/ /\ a.r[1] \notin Loose \union {"RICTRL", "MWTD", "MCMD"}
            /\ \A x \in Changes(call.code, i, may, held) : Owns(call, <<Cell(a.r), x>>)
      /\ \/ Beside(a.r) = Cell(a.r) \/ OwnsAll(call, Beside(a.r))
         \/ a.r[1] = "Config" /\ Owns(call, <<Beside(a.r), a.r[2]>>)
      /\ a.r[1] = "PLL0FEED" => a.r = <<"PLL0FEED", 0>>
      /\ a.r[1] = "ICER" => Cell(a.r) = Nvic
      /\ a.r[1] = "FIOPIN" => a.op = "store"
  BY <1>0, <1>1 DEF KeepsBits
<1>3. b \in (At(m, c) \ At(k, c)) \union (At(k, c) \ At(m, c))
  BY DEF Changed
<1>4. MaskOf(call.code, i) = {} \/ mask = MaskOf(call.code, i)
  BY <1>0 DEF MaskIs, MaskOf
<1>5. /\ a.r[1] = "FIOSET" => now = old \union (v \ mask)
      /\ a.r[1] = "FIOCLR" => now = old \ (v \ mask)
      /\ a.r[1] = "FIOPIN" => now = (old \intersect mask) \union (v \ mask)
      /\ a.r[1] = "ISER" => now = old \union v
      /\ a.r[1] = "ICER" => now = old \ v
      /\ a.r[1] \in KeepsNothing => now = {}
      /\ Plain(a.r) => now = v
  BY <1>0, StoreLeaves
<1>6. v = IF a.op = "store" THEN a.set ELSE (l \ a.clr) \union a.set
  BY DEF Value
<1>7. /\ a.r[1] = "FIOCLR" => Load(m, a.r) = {}
      /\ a.r[1] \notin {"FIOCLR", "FIOPIN"} => Load(m, a.r) = old
  BY DEF Load
<1>8. \A x : x[1][1] = c[1] /\ x[1] = c /\ OwnsAll(call, c) => Owns(call, x)
  BY DEF OwnsAll, Owns, Mask
<1>9. OwnsAll(call, c) => Owns(call, <<c, b>>)
  BY <1>8
<1> HIDE DEF v, old, now, mask
<1>10. CASE c \notin {Cell(a.r), Beside(a.r)}
  <2>1. At(k, c) = At(m, c)
    BY <1>0, <1>2, <1>10, StoreTouches
  <2> QED
    BY <1>3, <2>1
<1>11. CASE c = Beside(a.r) /\ c # Cell(a.r) /\ ~OwnsAll(call, c)
  <2>1. a.r[1] = "Config" /\ Owns(call, <<c, a.r[2]>>) /\ c = <<"DMACEnbldChns", 0>> /\ Cell(a.r) = a.r
    BY <1>2, <1>11 DEF Beside, Cell
  <2>2. k = Put(Put(m, a.r, v), c, IF 0 \in v THEN At(m, c) \union {a.r[2]} ELSE At(m, c) \ {a.r[2]})
    BY <1>0, <2>1 DEF Stored
  <2>3. At(k, c) = IF 0 \in v THEN At(m, c) \union {a.r[2]} ELSE At(m, c) \ {a.r[2]}
    BY <2>2, PutIs
  <2>4. b = a.r[2]
    BY <1>3, <2>3
  <2> QED
    BY <2>1, <2>4
<1>12. CASE c = Cell(a.r) /\ ~OwnsAll(call, c)
  <2> DEFINE changes == Changes(call.code, i, may, held)
             since == (Load(m, a.r) \ l) \union (l \ Load(m, a.r))
  <2> SUFFICES b \in changes \/ (a.op = "modify" /\ b \in since)
    BY <1>2, <1>12 DEF Differ
  <2>0. a.r[1] \notin Loose \union {"RICTRL", "MWTD", "MCMD"}
    BY <1>2, <1>12
  <2>1. Cell(a.r)[1] \notin Loose /\ a.r[1] # "IR" /\ a.r[1] # "PLL0FEED"
    BY <2>0 DEF Cell, Loose, HardwareNames
  <2>2. old \subseteq held /\ (a.r[1] \notin KeepsNothing => a.set \subseteq held)
    BY <1>1, <2>1 DEF Puts
  <2>3. b \in (old \ now) \union (now \ old)
    BY <1>3, <1>12 DEF old, now
  <2>4. a.op = "store" \/ a.op = "modify"
    BY <1>1 DEF Writes
  <2>5. CASE a.r[1] = "ICER"
    <3>1. changes = may
      BY <1>0, <2>5 DEF Changes
    <3> QED
      BY <1>1, <1>2, <1>5, <2>3, <2>5, <3>1 DEF old
  <2>6. CASE a.r[1] \in {"FIOSET", "FIOCLR"}
    <3>1. changes = a.set \ MaskOf(call.code, i)
      BY <1>0, <2>6 DEF Changes
    <3>2. b \in a.set \ mask \/ (a.op = "modify" /\ b \in since)
      BY <1>5, <1>6, <1>7, <2>3, <2>4, <2>6
    <3> QED
      BY <1>4, <3>1, <3>2
  <2>7. CASE a.r[1] = "FIOPIN"
    <3>1. changes = held \ MaskOf(call.code, i)
      BY <1>0, <2>7 DEF Changes
    <3>2. b \in held \ mask
      BY <1>2, <1>5, <1>6, <2>2, <2>3, <2>7 DEF KeepsNothing
    <3> QED
      BY <1>4, <3>1, <3>2
  <2>8. CASE a.op = "modify" /\ a.r[1] \notin KeepsNothing \union {"ICER", "FIOSET", "FIOCLR", "FIOPIN"}
    <3>1. changes = (a.clr \intersect held) \union a.set
      BY <1>0, <2>8 DEF Changes
    <3>2. a.r[1] = "ISER" \/ Plain(a.r)
      BY <2>0, <2>1, <2>8 DEF Plain
    <3>3. b \in (a.clr \intersect held) \union a.set \/ b \in since
      BY <1>5, <1>6, <1>7, <2>2, <2>3, <2>8, <3>2
    <3> QED
      BY <2>8, <3>1, <3>3
  <2>9. CASE /\ a.op = "store" \/ a.r[1] \in KeepsNothing
             /\ a.r[1] \notin {"ICER", "FIOSET", "FIOCLR", "FIOPIN"}
    <3>1. changes = held
      BY <1>0, <2>4, <2>9 DEF Changes
    <3>2. a.r[1] = "ISER" \/ Plain(a.r) \/ a.r[1] \in KeepsNothing
      BY <2>0, <2>1, <2>9 DEF Plain
    <3>3. a.r[1] = "ISER" => a.r[1] \notin KeepsNothing
      BY DEF KeepsNothing
    <3>4. Plain(a.r) => a.r[1] \notin KeepsNothing
      BY DEF Plain
    <3>5. b \in held
      BY <1>5, <1>6, <2>2, <2>3, <2>9, <3>2, <3>3, <3>4
    <3> QED
      BY <3>1, <3>5
  <2> QED
    BY <2>4, <2>5, <2>6, <2>7, <2>8, <2>9
<1> QED
  BY <1>9, <1>10, <1>11, <1>12

\* With the registers k that access a of a GPIO call leaves, the pins it names have the
\* level it asks for.
LevelIsAsked(call, a, k) ==
  LET named == {p[2] : p \in call.pins}
      level == At(k, <<"FIOPIN", a.r[2]>>)
  IN /\ a.r[1] = "FIOPIN" => level \intersect named = a.set \intersect named
     /\ a.r[1] \in {"FIOSET", "FIOCLR"} /\ Cardinality(named) = 1 =>
          (named \subseteq level <=> a.r[1] = "FIOSET")

\* A GPIO call gives the pins it names the level it asks for.
LEMMA PinsGetLevel ==
  ASSUME NEW m, NonZero(m), NEW call, NEW i, NEW l, NEW k, call.dev[1] = "gpio",
         SetsPins(call, i), MaskIs(m, call.code, i),
         LET a == call.code[i]
         IN Writes(a) => k = Stored(m, a.r, Value(a, l)) /\ (a.r[1] = "FIOPIN" => a.op = "store")
  PROVE  LevelIsAsked(call, call.code[i], k)
<1> DEFINE a == call.code[i]
           named == {p[2] : p \in call.pins}
           level == At(k, <<"FIOPIN", a.r[2]>>)
           mask == At(m, <<"FIOMASK", a.r[2]>>)
<1>1. SUFFICES ASSUME a.r[1] = "FIOPIN" \/ (a.r[1] \in {"FIOSET", "FIOCLR"} /\ Cardinality(named) = 1)
               PROVE  /\ a.r[1] = "FIOPIN" => level \intersect named = a.set \intersect named
                      /\ a.r[1] \in {"FIOSET", "FIOCLR"} =>
                           (named \subseteq level <=> a.r[1] = "FIOSET")
  BY DEF LevelIsAsked
<1>2. /\ Writes(a) /\ mask \intersect named = {} /\ (a.r[1] # "FIOPIN" => named \subseteq a.set)
      /\ k = Stored(m, a.r, Value(a, l)) /\ (a.r[1] = "FIOPIN" => a.op = "store")
  BY <1>1 DEF SetsPins, MaskIs
<1>3. Cell(a.r) = <<"FIOPIN", a.r[2]>>
  BY <1>1 DEF Cell
<1> HIDE DEF named, mask
<1>4. /\ a.r[1] = "FIOSET" => level = At(m, Cell(a.r)) \union (Value(a, l) \ mask)
      /\ a.r[1] = "FIOCLR" => level = At(m, Cell(a.r)) \ (Value(a, l) \ mask)
      /\ a.r[1] = "FIOPIN" => level = (At(m, Cell(a.r)) \intersect mask) \union (Value(a, l) \ mask)
  <2> DEFINE now == At(Stored(m, a.r, Value(a, l)), Cell(a.r))
  <2>1. /\ a.r[1] = "FIOSET" => now = At(m, Cell(a.r)) \union (Value(a, l) \ mask)
        /\ a.r[1] = "FIOCLR" => now = At(m, Cell(a.r)) \ (Value(a, l) \ mask)
        /\ a.r[1] = "FIOPIN" => now = (At(m, Cell(a.r)) \intersect mask) \union (Value(a, l) \ mask)
    BY StoreLeaves DEF mask
  <2>2. level = now
    BY <1>2, <1>3
  <2> QED
    BY <2>1, <2>2
<1>5. a.set \subseteq Value(a, l) /\ (a.op = "store" => Value(a, l) = a.set)
  BY DEF Value
<1>6. Cardinality(named) = 1 => named # {}
  BY FS_EmptySet
<1> HIDE DEF a, level
<1> QED
  BY <1>1, <1>2, <1>4, <1>5, <1>6

-----------------------------------------------------------------------------
(* What one step does *)

\* A context x at access a, that may store v, stays where it is, loads what it is about
\* to store, or goes on.
Moving(a, v, x, m, to, k) ==
  /\ to = [i |-> to.i, l |-> to.l]
  /\ \/ to = x /\ k = m /\ ~Writes(a)
     \/ /\ a.op = "modify" /\ x.l = << >> /\ k = m
        /\ to = [i |-> x.i, l |-> <<Load(m, a.r)>>]
     \/ /\ Writes(a) /\ (a.op = "modify" => x.l # << >>)
        /\ k = Stored(m, a.r, v) /\ to = [i |-> x.i + 1, l |-> << >>]
     \/ /\ ~Writes(a) /\ k = m /\ to.l = << >>
        /\ to.i = x.i + 1 \/ (Jumps(a) /\ to.i = x.i + 1 + a.n)

LEMMA Moves ==
  ASSUME NEW code, NEW x, x = [i |-> x.i, l |-> x.l], NEW m
  PROVE  Moving(code[x.i], Value(code[x.i], x.l[1]), x, m, Moved(code, x, m), Left(code, x, m))
<1> DEFINE a == code[x.i]
<1> USE DEF Moving
<1>1. CASE Waits(a, m)
  BY <1>1 DEF Moved, Left, Waits, Writes
<1>2. CASE ~Waits(a, m) /\ a.op = "modify" /\ x.l = << >>
  BY <1>2 DEF Moved, Left
<1>3. CASE ~Waits(a, m) /\ Writes(a) /\ (a.op = "modify" => x.l # << >>)
  BY <1>3 DEF Moved, Left, Writes, Value
<1>4. CASE ~Waits(a, m) /\ ~Writes(a)
  BY <1>4 DEF Moved, Left, Writes, Jumps
<1> QED
  BY <1>1, <1>2, <1>3, <1>4 DEF Writes

-----------------------------------------------------------------------------
(* What is kept *)

\* What a cell of the program that runs may hold, and its bits that handlers set and
\* clear at once.
Held(cell) == MayHold(prog, Program[prog], cell)
IsPulsed(r, b) == r[1] = "TCR" /\ Pulsed(prog, Program[prog], r, b)

\* The registers, and the values loaded, hold what they may; a mask is the one stored.
Holds(m) == \A cell : cell[1] \notin Loose => At(m, cell) \subseteq Held(cell)
LoadHeld(a, l) == l # << >> /\ Cell(a.r)[1] \notin Loose => l[1] \subseteq Held(Cell(a.r))
InContext(m, code, x) == LoadHeld(code[x.i], x.l) /\ MaskIs(m, code, x.i)

\* What main has loaded is what it would load now, but for the bits it writes anyway
\* and those a handler is about to clear; what a handler has loaded is as it was.
Fresh(m, a, l) ==
  IF a.r[1] = "TCR" THEN \A b \in Differ(m, a, l) : b \in a.clr \union a.set \/ IsPulsed(a.r, b)
                    ELSE Differ(m, a, l) = {}
MainFresh ==
  LET a == Main[pc].code[at.i]
  IN at.l # << >> /\ Whole(a) => Fresh(mem, a, at.l[1])
HandlerFresh(h) ==
  LET a == Within(h).code[h.at.i]
  IN h.at.l # << >> /\ Cell(a.r)[1] \notin HardwareNames => Differ(mem, a, h.at.l[1]) = {}

\* A pulsed bit is set only while the handler is about to clear it.
PulsesEnd ==
  \A r, b : IsPulsed(r, b) =>
    /\ b \in At(mem, r) => isr # << >> /\ Access = AndNot(r, {b})
    /\ at.l # << >> /\ Main[pc].code[at.i].r = r => b \notin at.l[1]

\* The main oscillator does not get ready while main changes its register.
NoSurprise ==
  IF prog = "warm" THEN 6 \in At(mem, SCS)
                   ELSE NotStarted(Program[prog], pc, at.i) => 5 \notin At(mem, SCS)

KeptInv ==
  /\ IndInv
  /\ Holds(mem)
  /\ InContext(mem, Main[pc].code, at) /\ MainFresh
  /\ isr # << >> => InContext(mem, Within(isr[1]).code, isr[1].at) /\ HandlerFresh(isr[1])
  /\ PulsesEnd
  /\ NoSurprise

-----------------------------------------------------------------------------
(* The text of the program that runs *)

LEMMA MainText ==
  ASSUME InMain, prog \in KeepingTexts
  PROVE  LET a == Main[pc].code[at.i]
         IN /\ prog \in SafeTexts /\ Program[prog].loop # 1
            /\ KeepsPlace(prog, Program[prog], pc, at.i)
            /\ a \in MainAccesses(Program[prog]) /\ a \in Accesses(Program[prog])
<1> DEFINE of(c) == {Main[c].code[i] : i \in 1 .. Len(Main[c].code)}
<1>1. KeepingText(prog, Program[prog]) /\ prog \in SafeTexts
  BY DEF KeepingTexts
<1>2. MainAccesses(Program[prog]) = UNION {of(c) : c \in 1 .. Len(Main)}
  BY DEF MainAccesses, Code, Main
<1>3. Main[pc].code[at.i] \in of(pc) /\ pc \in 1 .. Len(Main)
  BY DEF InMain
<1> HIDE DEF of
<1>4. Main[pc].code[at.i] \in MainAccesses(Program[prog])
  BY <1>2, <1>3
<1>5. Main[pc].code[at.i] \in Accesses(Program[prog])
  BY <1>4 DEF Accesses
<1> QED
  BY <1>1, <1>4, <1>5 DEF KeepingText, InMain, Main, Code

\* What the text says of the access a handler is at.
LEMMA HandlerText ==
  ASSUME IndInv, isr # << >>, prog \in KeepingTexts
  PROVE  LET h == isr[1]
         IN /\ KeepsBits(Here, h.at.i, {}, Held(Cell(Access.r))) /\ SetsPins(Here, h.at.i)
            /\ Writes(Access) => Access.r[1] # "ICER" /\ Access.r # SCS
            /\ Access.op = "modify" => OwnsAll(Here, Cell(Access.r)) \/ Cell(Access.r)[1] \notin HardwareNames
            /\ Access \in Accesses(Program[prog])
            /\ Undisturbed(prog, Program[prog], Main[pc].code, at.i, Access)
<1> DEFINE h == isr[1]
           T == Program[prog]
<1>1. /\ InHandler(h) /\ h.irq \in Now.may \intersect Handled
      /\ Here = Within(h) /\ Access = Within(h).code[h.at.i] /\ <<Here, Access>> \in HandlerAccesses(T, h.irq)
  BY HandlerIs
<1>2. KeepsHandlers(prog, T)
  BY DEF KeepingTexts, KeepingText
<1>3. /\ h.irq \in DOMAIN T.irqs /\ h.run \in DOMAIN T.irqs[h.irq] /\ h.call \in 1 .. Len(T.irqs[h.irq][h.run])
      /\ Within(h) = T.irqs[h.irq][h.run][h.call] /\ h.at.i \in 1 .. Len(Within(h).code)
  BY <1>1 DEF InHandler, Handled, Runs, Within
<1>4. /\ KeepsBits(Here, h.at.i, {}, Held(Cell(Access.r))) /\ SetsPins(Here, h.at.i)
      /\ Writes(Access) => Access.r[1] # "ICER" /\ Access.r # SCS
      /\ Access.op = "modify" => OwnsAll(Here, Cell(Access.r)) \/ Cell(Access.r)[1] \notin HardwareNames
  BY <1>1, <1>2, <1>3 DEF KeepsHandlers, Held
<1>5. Access \in Accesses(T)
  <2>1. h.irq \in DOMAIN T.irqs
    BY <1>3
  <2> DEFINE all == UNION {HandlerAccesses(T, irq) : irq \in DOMAIN T.irqs}
  <2>2. <<Here, Access>> \in all
    BY <1>1, <2>1
  <2>3. <<Here, Access>>[2] \in {x[2] : x \in all}
    BY <2>2
  <2> QED
    BY <2>3 DEF Accesses
<1>6. Undisturbed(prog, T, Main[pc].code, at.i, Access)
  <2>1. KeepsPlace(prog, T, pc, at.i)
    BY MainText DEF IndInv
  <2>2. h.irq \in Known(T, pc, at.i).may \intersect DOMAIN T.irqs
    BY <1>1 DEF Now, Handled
  <2>3. Undisturbed(prog, T, Code(T, pc), at.i, <<Here, Access>>[2])
    BY <1>1, <2>1, <2>2 DEF KeepsPlace
  <2> QED
    BY <2>3 DEF Code, Main
<1> QED
  BY <1>4, <1>5, <1>6

-----------------------------------------------------------------------------
(* What a store leaves is held, and what a context does not disturb *)

LEMMA HeldKept ==
  ASSUME NEW m, NonZero(m), Holds(m), NEW a \in Accesses(Program[prog]), Writes(a), NEW l,
         a.op = "modify" /\ Cell(a.r)[1] \notin Loose => l \subseteq Held(Cell(a.r)),
         a.r[1] = "PLL0FEED" => a.r = <<"PLL0FEED", 0>>
  PROVE  Holds(Stored(m, a.r, Value(a, l)))
<1>1. SUFFICES ASSUME NEW cell, cell[1] \notin Loose
               PROVE  At(Stored(m, a.r, Value(a, l)), cell) \subseteq Held(cell)
  BY DEF Holds
<1>2. At(m, cell) \subseteq Held(cell)
  BY <1>1 DEF Holds
<1>3. ASSUME cell = Cell(a.r), a.r[1] \notin KeepsNothing PROVE Value(a, l) \subseteq Held(cell)
  <2>1. Puts(a, cell) \subseteq Held(cell)
    BY DEF Held, MayHold
  <2>2. a.set \subseteq Held(cell)
    BY <1>3, <2>1 DEF Puts
  <2> QED
    BY <1>1, <1>3, <2>2 DEF Value, Writes
<1>4. At(Stored(m, a.r, Value(a, l)), cell) \subseteq
        At(m, cell) \union (IF cell = Cell(a.r) /\ a.r[1] \notin KeepsNothing THEN Value(a, l) ELSE {})
  BY <1>1, StoreWithin
<1> QED
  BY <1>2, <1>3, <1>4

\* A context carries on what it has loaded and the mask it has stored.
LEMMA ContextKept ==
  ASSUME NEW m, NonZero(m), Holds(m), NEW code, NEW x, x = [i |-> x.i, l |-> x.l],
         x.i \in 1 .. Len(code), InContext(m, code, x), ~Over(code, Moved(code, x, m))
  PROVE  InContext(Left(code, x, m), code, Moved(code, x, m))
<1> DEFINE a == code[x.i]
           to == Moved(code, x, m)
           k == Left(code, x, m)
<1>1. Moving(a, Value(a, x.l[1]), x, m, to, k)
  BY Moves
<1>2. MaskIs(m, code, x.i)
  BY DEF InContext
<1> HIDE DEF to, k
<1> USE DEF Moving
<1>3. CASE to = x /\ k = m
  BY <1>3 DEF to, k
<1>4. CASE to = [i |-> x.i, l |-> <<Load(m, a.r)>>] /\ k = m
  <2>1. Load(m, a.r) \subseteq At(m, Cell(a.r))
    BY DEF Load
  <2>2. LoadHeld(a, <<Load(m, a.r)>>)
    BY <2>1 DEF LoadHeld, Holds
  <2>3. InContext(k, code, to)
    BY <1>2, <1>4, <2>2 DEF InContext
  <2> QED
    BY <2>3 DEF to, k
<1>5. CASE to.l = << >> /\ to.i = x.i + 1 /\ (Writes(a) => k = Stored(m, a.r, Value(a, x.l[1])))
  <2>1. ASSUME Unmasks(code, x.i + 1) PROVE At(k, <<"FIOMASK", code[x.i + 1].r[2]>>) = code[x.i].set
    <3>1. a.op = "store" /\ a.r = <<"FIOMASK", code[x.i + 1].r[2]>>
      BY <2>1 DEF Unmasks
    <3>2. Cell(a.r) = a.r /\ Plain(a.r)
      BY <3>1 DEF Cell, Plain, KeepsNothing
    <3>3. k = Stored(m, a.r, a.set)
      BY <1>5, <3>1 DEF Writes, Value
    <3> QED
      BY <3>1, <3>2, <3>3, StoreLeaves
  <2>2. InContext(k, code, to)
    BY <1>5, <2>1 DEF InContext, LoadHeld, MaskIs
  <2> QED
    BY <2>2 DEF to, k
<1>6. CASE to.l = << >> /\ Jumps(a) /\ to.i = x.i + 1 + a.n
  <2>1. ~Unmasks(code, to.i)
    BY <1>6 DEF Unmasks
  <2>2. InContext(k, code, to)
    BY <1>6, <2>1 DEF InContext, LoadHeld, MaskIs
  <2> QED
    BY <2>2 DEF to, k
<1> QED
  BY <1>1, <1>3, <1>4, <1>5, <1>6

-----------------------------------------------------------------------------
(* The steps *)

\* What a store to another register than cell does not change.
LEMMA StoreSpares ==
  ASSUME NEW m, NonZero(m), NEW r, NEW v, r[1] = "PLL0FEED" => r = <<"PLL0FEED", 0>>,
         NEW cell, cell = SCS \/ cell[1] \notin HardwareNames, cell # Cell(r)
  PROVE  At(Stored(m, r, v), cell) = At(m, cell)
<1>1. cell # Beside(r)
  BY DEF Beside, HardwareNames, SCS
<1> QED
  BY <1>1, StoreTouches

LEMMA MainStepKeeps ==
  ASSUME KeptInv, prog \in KeepingTexts, MainStep
  PROVE  KeptInv'
<1> DEFINE code == Main[pc].code
           a    == code[at.i]
           to   == Moved(code, at, mem)
           v    == Value(a, at.l[1])
<1>1. /\ IndInv /\ InMain /\ NonZero(mem) /\ isr = << >> /\ isr' = << >>
      /\ pc \in 1 .. Len(Main) /\ at.i \in 1 .. Len(code) /\ at = [i |-> at.i, l |-> at.l]
      /\ prog' = prog /\ Main' = Main /\ mem' = Left(code, at, mem)
      /\ IF Over(code, to) THEN at' = Start /\ pc' = (IF pc = Len(Main) THEN Program[prog].loop ELSE pc + 1)
                           ELSE at' = to /\ pc' = pc
  BY DEF KeptInv, IndInv, InMain, NonZero, MainStep, Main
<1>2. /\ \A cell : Held(cell)' = Held(cell)
      /\ \A r, b : IsPulsed(r, b)' = IsPulsed(r, b)
  BY <1>1 DEF Held, IsPulsed
<1>3. /\ prog \in SafeTexts /\ Program[prog].loop # 1 /\ KeepsPlace(prog, Program[prog], pc, at.i)
      /\ a \in MainAccesses(Program[prog]) /\ a \in Accesses(Program[prog])
  BY <1>1, MainText
<1>4. IndInv'
  BY <1>1, <1>3, MainStepFits
<1>5. /\ Writes(a) /\ a.r[1] = "PLL0FEED" => a.r = <<"PLL0FEED", 0>>
      /\ Whole(a) => Cell(a.r)[1] \notin HardwareNames \/ (a.r = SCS /\ NotStarting(prog, Program[prog], pc, at.i))
      /\ Writes(a) /\ a.r = SCS => a.op = "modify" /\ 6 \notin a.clr
      /\ pc = 1 /\ Jumps(a) => a.n \in Nat
  BY <1>3 DEF KeepsPlace, KeepsBits, Code, Main
<1>6. Moving(a, v, at, mem, to, mem')
  BY <1>1, Moves
<1> HIDE DEF a, v, to
<1> USE DEF Moving
<1>61. /\ \A cell : (cell = SCS \/ cell[1] \notin HardwareNames) /\ cell # Cell(a.r) =>
                     At(mem', cell) = At(mem, cell)
       /\ Plain(a.r) /\ Writes(a) /\ mem' # mem => At(mem', Cell(a.r)) = v
  <2>1. CASE mem' = mem
    BY <2>1
  <2>2. CASE Writes(a) /\ mem' = Stored(mem, a.r, v)
    <3>1. NonZero(mem) /\ (a.r[1] = "PLL0FEED" => a.r = <<"PLL0FEED", 0>>)
      BY <1>1, <1>5, <2>2
    <3>2. \A cell : (cell = SCS \/ cell[1] \notin HardwareNames) /\ cell # Cell(a.r) =>
                     At(Stored(mem, a.r, v), cell) = At(mem, cell)
      BY <3>1, StoreSpares
    <3>3. Plain(a.r) => At(Stored(mem, a.r, v), Cell(a.r)) = v
      BY <3>1, StorePlain
    <3> QED
      BY <2>2, <3>2, <3>3
  <2> QED
    BY <1>6, <2>1, <2>2
<1> USE DEF a, v, to
<1>7. Holds(mem) /\ InContext(mem, code, at) /\ MainFresh /\ PulsesEnd /\ NoSurprise
  BY DEF KeptInv
<1>8. Holds(mem)'
  <2>1. Holds(mem')
    <3>1. a.op = "modify" /\ at.l # << >> /\ Cell(a.r)[1] \notin Loose => at.l[1] \subseteq Held(Cell(a.r))
      BY <1>7 DEF InContext, LoadHeld
    <3> QED
      BY <1>1, <1>3, <1>5, <1>6, <1>7, <3>1, HeldKept
  <2> QED
    BY <1>2, <2>1 DEF Holds
<1>9. InContext(mem, Main[pc].code, at)'
  <2>1. InContext(mem', Main[pc'].code, at')
    <3>1. CASE ~Over(code, to)
      BY <1>1, <1>7, <3>1, ContextKept
    <3>2. CASE Over(code, to)
      BY <1>1, <3>2 DEF InContext, LoadHeld, MaskIs, Unmasks, Start
    <3> QED
      BY <3>1, <3>2
  <2> QED
    BY <1>1, <1>2, <2>1 DEF InContext, LoadHeld, MaskIs
<1>10. \/ at'.l = << >>
       \/ /\ at' = [i |-> at.i, l |-> <<Load(mem, a.r)>>] /\ a.op = "modify" /\ mem' = mem /\ pc' = pc
       \/ at' = at /\ mem' = mem /\ pc' = pc
  BY <1>1, <1>6 DEF Start
<1>11. MainFresh'
  <2>1. CASE at'.l = << >>
    BY <2>1 DEF MainFresh
  <2>2. CASE at' = [i |-> at.i, l |-> <<Load(mem, a.r)>>] /\ mem' = mem /\ pc' = pc
    <3>1. Differ(mem, a, Load(mem, a.r)) = {}
      BY DEF Differ
    <3>2. Fresh(mem, a, Load(mem, a.r))'
      BY <1>1, <2>2, <3>1 DEF Fresh, Differ
    <3> QED
      BY <1>1, <2>2, <3>2 DEF MainFresh
  <2>3. CASE at' = at /\ mem' = mem /\ pc' = pc
    BY <1>1, <1>2, <1>7, <2>3 DEF MainFresh, Fresh, Differ
  <2> QED
    BY <1>10, <2>1, <2>2, <2>3
<1>12. PulsesEnd'
  <2>1. SUFFICES ASSUME NEW r, NEW b, IsPulsed(r, b)
                 PROVE  /\ b \notin At(mem', r)
                        /\ at'.l # << >> /\ Main[pc'].code[at'.i].r = r => b \notin at'.l[1]
    BY <1>1, <1>2 DEF PulsesEnd
  <2>2. /\ b \notin At(mem, r) /\ (at.l # << >> /\ a.r = r => b \notin at.l[1])
        /\ r[1] = "TCR" /\ (Writes(a) /\ a.r = r => b \notin a.set)
    BY <1>1, <1>3, <1>7, <2>1 DEF PulsesEnd, IsPulsed, Pulsed
  <2>3. b \notin At(mem', r)
    <3>1. CASE mem' = mem
      BY <2>2, <3>1
    <3>2. CASE mem' = Stored(mem, a.r, v) /\ Writes(a) /\ (a.op = "modify" => at.l # << >>) /\ Cell(a.r) = r
      <4>1. a.r = r /\ Plain(r)
        BY <2>2, <3>2 DEF Cell, Plain, KeepsNothing
      <4>2. mem' # mem => At(mem', r) = v
        BY <1>61, <3>2, <4>1
      <4> QED
        BY <2>2, <3>2, <4>1, <4>2 DEF Value, Writes
    <3>3. CASE mem' = Stored(mem, a.r, v) /\ Writes(a) /\ Cell(a.r) # r
      <4>1. r[1] \notin HardwareNames
        BY <2>2 DEF HardwareNames
      <4> QED
        BY <1>61, <2>2, <3>3, <4>1
    <3> QED
      BY <1>6, <3>1, <3>2, <3>3
  <2>4. r[1] = "TCR" => Load(mem, r) = At(mem, r)
    BY DEF Load, Cell
  <2>5. at'.l # << >> /\ Main[pc'].code[at'.i].r = r => b \notin at'.l[1]
    BY <1>1, <1>10, <2>2, <2>4
  <2> QED
    BY <2>3, <2>5
<1>13. a.r # SCS \/ ~Writes(a) => At(mem', SCS) = At(mem, SCS)
  <2>1. Cell(a.r) = SCS => a.r = SCS
    BY DEF Cell, SCS
  <2> QED
    BY <1>6, <1>61, <2>1
<1>14. ASSUME a.r = SCS, Writes(a), mem' # mem
       PROVE  /\ At(mem', SCS) = (At(mem, SCS) \ a.clr) \union a.set /\ 6 \notin a.clr
              /\ NotStarting(prog, Program[prog], pc, at.i)
  <2>1. a.op = "modify" /\ at.l # << >> /\ mem' = Stored(mem, a.r, v) /\ Whole(a)
    <3> HIDE DEF a, v, to, code
    <3>1. a.op = "modify" /\ a.r # PCR
      BY <1>5, <1>14 DEF SCS, PCR
    <3> QED
      BY <1>6, <1>14, <3>1 DEF Whole
  <2>2. Cell(a.r) = SCS /\ Plain(a.r) /\ a.r[1] # "TCR" /\ Load(mem, a.r) = At(mem, SCS)
    BY <1>14 DEF Cell, SCS, Plain, KeepsNothing, Load
  <2>3. Differ(mem, a, at.l[1]) = {}
    BY <1>7, <2>1, <2>2 DEF MainFresh, Fresh
  <2>4. at.l[1] = At(mem, SCS)
    BY <2>2, <2>3 DEF Differ
  <2>5. At(mem', SCS) = v
    BY <1>61, <1>14, <2>2
  <2>6. SCS[1] \in HardwareNames
    BY DEF SCS, HardwareNames
  <2> QED
    BY <1>5, <1>14, <2>1, <2>2, <2>4, <2>5, <2>6 DEF Value
<1>15. NoSurprise'
  <2>1. CASE prog = "warm"
    BY <1>1, <1>7, <1>13, <1>14, <2>1 DEF NoSurprise
  <2>2. CASE prog # "warm"
    <3>1. SUFFICES ASSUME NotStarted(Program[prog], pc', at'.i) PROVE 5 \notin At(mem', SCS)
      BY <1>1, <2>2 DEF NoSurprise
    <3>2. pc' = 1 /\ \A j \in 1 .. (at'.i - 1) : Main[1].code[j].r = SCS => 5 \notin Main[1].code[j].set
      BY <3>1 DEF NotStarted, Code, Main
    <3>3. pc = 1 /\ at' = to
      BY <1>1, <1>3, <3>2
    <3>4. at.i \in Nat /\ at'.i \in Int /\ at'.i >= at.i /\ (Writes(a) /\ mem' # mem => at'.i = at.i + 1)
      <4>1. at.i \in Nat /\ (Jumps(a) => a.n \in Nat)
        BY <1>1, <1>5, <3>3
      <4> HIDE DEF a, to, code
      <4>2. to.i = at.i \/ to.i = at.i + 1 \/ (Jumps(a) /\ to.i = at.i + 1 + a.n)
        BY <1>6
      <4>3. Writes(a) /\ mem' # mem => to.i = at.i + 1
        BY <1>6
      <4>4. to.i \in Int /\ to.i >= at.i
        BY <4>1, <4>2
      <4> QED
        BY <3>3, <4>1, <4>3, <4>4
    <3>5. NotStarted(Program[prog], pc, at.i)
      <4>1. \A j \in 1 .. (at.i - 1) : j \in 1 .. (at'.i - 1)
        BY <3>4
      <4>2. \A j \in 1 .. (at.i - 1) : Main[1].code[j].r = SCS => 5 \notin Main[1].code[j].set
        BY <3>2, <4>1
      <4> QED
        BY <3>3, <4>2 DEF NotStarted, Code, Main
    <3>6. 5 \notin At(mem, SCS)
      BY <1>7, <2>2, <3>5 DEF NoSurprise
    <3>7. ASSUME a.r = SCS, Writes(a), mem' # mem PROVE 5 \notin a.set
      <4>1. at.i \in 1 .. (at'.i - 1)
        BY <1>1, <3>4, <3>7
      <4> QED
        BY <3>2, <3>3, <3>7, <4>1
    <3> QED
      BY <1>13, <1>14, <3>6, <3>7
  <2> QED
    BY <2>1, <2>2
<1> QED
  BY <1>1, <1>4, <1>8, <1>9, <1>11, <1>12, <1>15 DEF KeptInv

LEMMA HandlerStepKeeps ==
  ASSUME KeptInv, prog \in KeepingTexts, HandlerStep
  PROVE  KeptInv'
<1> DEFINE h    == isr[1]
           run  == Runs(h.irq)[h.run]
           code == Within(h).code
           a    == code[h.at.i]
           to   == Moved(code, h.at, mem)
           v    == Value(a, h.at.l[1])
           main == Main[pc].code
           ma   == main[at.i]
<1>1. /\ IndInv /\ InMain /\ NonZero(mem) /\ isr # << >> /\ InHandler(h) /\ h.at.i \in 1 .. Len(code)
      /\ prog' = prog /\ pc' = pc /\ at' = at /\ Main' = Main /\ mem' = Left(code, h.at, mem)
      /\ h = [irq |-> h.irq, run |-> h.run, call |-> h.call, at |-> [i |-> h.at.i, l |-> h.at.l]]
      /\ h.at = [i |-> h.at.i, l |-> h.at.l]
      /\ \A irq : Runs(irq)' = Runs(irq)
  <2>1. /\ IndInv /\ isr # << >>
        /\ prog' = prog /\ pc' = pc /\ at' = at /\ mem' = Left(code, h.at, mem)
    BY DEF KeptInv, HandlerStep
  <2>2. InMain /\ NonZero(mem) /\ InHandler(h)
    BY <2>1 DEF IndInv, NonZero
  <2>3. /\ h = [irq |-> h.irq, run |-> h.run, call |-> h.call, at |-> [i |-> h.at.i, l |-> h.at.l]]
        /\ h.at.i \in 1 .. Len(code)
    BY <2>2 DEF InHandler
  <2>4. Main' = Main /\ \A irq : Runs(irq)' = Runs(irq)
    BY <2>1 DEF Main, Runs
  <2> HIDE DEF h, code
  <2>5. h.at = [i |-> h.at.i, l |-> h.at.l]
    BY <2>3
  <2> QED
    BY <2>1, <2>2, <2>3, <2>4, <2>5
<1>2. /\ \A cell : Held(cell)' = Held(cell)
      /\ \A r, b : IsPulsed(r, b)' = IsPulsed(r, b)
  BY <1>1 DEF Held, IsPulsed
<1>3. /\ prog \in SafeTexts /\ KeepsPlace(prog, Program[prog], pc, at.i)
  BY <1>1, MainText
<1>4. IndInv'
  BY <1>1, <1>3, HandlerStepFits
<1>5. /\ Access = a /\ Here = Within(h)
      /\ KeepsBits(Here, h.at.i, {}, Held(Cell(a.r)))
      /\ Writes(a) => a.r # SCS
      /\ a \in Accesses(Program[prog])
      /\ Undisturbed(prog, Program[prog], main, at.i, a)
  BY <1>1, HandlerIs, HandlerText
<1>6. Writes(a) /\ a.r[1] = "PLL0FEED" => a.r = <<"PLL0FEED", 0>>
  BY <1>5 DEF KeepsBits
<1>7. /\ Whole(ma) => Cell(ma.r)[1] \notin HardwareNames \/ ma.r = SCS
      /\ Whole(ma) => ma.r[1] # "FIOPIN"
  BY <1>3 DEF KeepsPlace, KeepsBits, Code, Main, Whole, Writes
<1>8. Moving(a, v, h.at, mem, to, mem')
  BY <1>1, Moves
<1>9. Holds(mem) /\ InContext(mem, main, at) /\ MainFresh /\ PulsesEnd /\ NoSurprise
      /\ InContext(mem, code, h.at) /\ HandlerFresh(h)
  BY <1>1 DEF KeptInv
<1>10. /\ ~Over(code, to) => /\ isr' # << >> /\ Within(isr[1])' = Within(h) /\ isr'[1].at = to
                             /\ Access' = code[to.i]
       /\ Over(code, to) /\ isr' # << >> => isr'[1].at = Start
  <2>1. isr' = IF ~Over(code, to) THEN <<[h EXCEPT !.at = to]>>
               ELSE IF h.call < Len(run) THEN <<[irq |-> h.irq, run |-> h.run, call |-> h.call + 1, at |-> Start]>> ELSE << >>
    BY DEF HandlerStep
  <2>2. ASSUME ~Over(code, to)
        PROVE  isr' # << >> /\ Within(isr[1])' = Within(h) /\ isr'[1].at = to /\ Access' = code[to.i]
    <3>1. /\ isr' # << >> /\ isr'[1].irq = h.irq /\ isr'[1].run = h.run /\ isr'[1].call = h.call
          /\ isr'[1].at = to
      <4> HIDE DEF h, to
      <4> QED
        BY <1>1, <2>1, <2>2
    <3>2. Within(isr[1])' = Within(h)
      <4> HIDE DEF to
      <4> QED
        BY <1>1, <3>1 DEF Within
    <3>3. Access' = code[to.i]
      <4> HIDE DEF to
      <4> QED
        BY <3>1, <3>2 DEF Access, Here, Place
    <3> QED
      BY <3>1, <3>2, <3>3
  <2>3. Over(code, to) /\ isr' # << >> => isr'[1].at = Start
    <3> HIDE DEF h, to
    <3> QED
      BY <2>1
  <2> QED
    BY <2>2, <2>3
<1> HIDE DEF h, run, code, a, v, to, main, ma
<1> USE DEF Moving
<1>11. /\ \A cell : (cell = SCS \/ cell[1] \notin HardwareNames) /\ (Writes(a) => cell # Cell(a.r)) =>
                      At(mem', cell) = At(mem, cell)
       /\ Plain(a.r) /\ Writes(a) /\ (a.op = "modify" => h.at.l # << >>) => At(mem', Cell(a.r)) = v
  <2>1. CASE ~Writes(a) \/ (a.op = "modify" /\ h.at.l = << >>)
    BY <1>8, <2>1
  <2>2. CASE Writes(a) /\ (a.op = "modify" => h.at.l # << >>)
    <3>1. NonZero(mem) /\ (a.r[1] = "PLL0FEED" => a.r = <<"PLL0FEED", 0>>) /\ mem' = Stored(mem, a.r, v)
      BY <1>1, <1>6, <1>8, <2>2
    <3>2. \A cell : (cell = SCS \/ cell[1] \notin HardwareNames) /\ cell # Cell(a.r) =>
                     At(Stored(mem, a.r, v), cell) = At(mem, cell)
      BY <3>1, StoreSpares
    <3>3. Plain(a.r) => At(Stored(mem, a.r, v), Cell(a.r)) = v
      BY <3>1, StorePlain
    <3> QED
      BY <2>2, <3>1, <3>2, <3>3
  <2> QED
    BY <2>1, <2>2
<1>91. /\ h.at.l # << >> /\ Cell(a.r)[1] \notin HardwareNames => Differ(mem, a, h.at.l[1]) = {}
       /\ a.op = "modify" => Writes(a)
  BY <1>9 DEF HandlerFresh, a, code, Writes
<1>12. Holds(mem)'
  <2>1. a.op = "modify" /\ h.at.l # << >> /\ Cell(a.r)[1] \notin Loose => h.at.l[1] \subseteq Held(Cell(a.r))
    BY <1>9 DEF InContext, LoadHeld, a
  <2>2. Holds(mem')
    <3>1. CASE mem' = mem
      BY <1>9, <3>1
    <3>2. CASE Writes(a) /\ (a.op = "modify" => h.at.l # << >>) /\ mem' = Stored(mem, a.r, v)
      <4>1. Holds(Stored(mem, a.r, Value(a, h.at.l[1])))
        BY <1>1, <1>5, <1>6, <1>9, <2>1, <3>2, HeldKept
      <4> QED
        BY <3>2, <4>1 DEF v
    <3> QED
      BY <1>8, <3>1, <3>2
  <2> QED
    BY <1>2, <2>2 DEF Holds
<1>13. isr' # << >> => InContext(mem, Within(isr[1]).code, isr[1].at)' /\ HandlerFresh(isr[1])'
  <2>1. CASE ~Over(code, to)
    <3>1. InContext(mem', code, to)
      BY <1>1, <1>9, <2>1, ContextKept DEF to
    <3>2. InContext(mem, Within(isr[1]).code, isr[1].at)'
      BY <1>2, <1>10, <2>1, <3>1 DEF InContext, LoadHeld, MaskIs, code
    <3>3. to.l # << >> /\ Cell(code[to.i].r)[1] \notin HardwareNames => Differ(mem', code[to.i], to.l[1]) = {}
      <4>1. CASE to = h.at /\ mem' = mem
        BY <1>91, <4>1 DEF a, Differ
      <4>2. CASE mem' = mem /\ to = [i |-> h.at.i, l |-> <<Load(mem, a.r)>>]
        BY <4>2 DEF Differ, a
      <4>3. CASE to.l = << >>
        BY <4>3
      <4> QED
        BY <1>8, <4>1, <4>2, <4>3
    <3>4. HandlerFresh(isr[1])'
      BY <1>10, <2>1, <3>3 DEF HandlerFresh, Differ, code
    <3> QED
      BY <3>2, <3>4
  <2>2. CASE Over(code, to)
    <3>1. isr' # << >> => isr'[1].at.i = 1 /\ isr'[1].at.l = << >>
      BY <1>10, <2>2 DEF Start
    <3>2. isr' # << >> => InContext(mem, Within(isr[1]).code, isr[1].at)'
      <4>1. isr' # << >> => ~Unmasks(Within(isr[1]).code, isr[1].at.i)'
        BY <3>1 DEF Unmasks
      <4> QED
        BY <3>1, <4>1 DEF InContext, LoadHeld, MaskIs
    <3>3. isr' # << >> => HandlerFresh(isr[1])'
      BY <3>1 DEF HandlerFresh
    <3> QED
      BY <3>2, <3>3
  <2> QED
    BY <2>1, <2>2
<1>14. InContext(mem, Main[pc].code, at)'
  <2>1. MaskIs(mem', main, at.i)
    <3>1. SUFFICES ASSUME Unmasks(main, at.i)
                   PROVE  At(mem', <<"FIOMASK", ma.r[2]>>) = At(mem, <<"FIOMASK", ma.r[2]>>)
      BY <1>9 DEF MaskIs, InContext, ma
    <3>2. Writes(a) => a.r # <<"FIOMASK", ma.r[2]>>
      BY <1>5, <3>1 DEF Undisturbed, ma
    <3>3. Cell(a.r) = <<"FIOMASK", ma.r[2]>> => a.r = <<"FIOMASK", ma.r[2]>>
      BY DEF Cell
    <3>4. <<"FIOMASK", ma.r[2]>>[1] \notin HardwareNames
      BY DEF HardwareNames
    <3> QED
      BY <1>11, <3>2, <3>3, <3>4
  <2>2. LoadHeld(ma, at.l)
    BY <1>9 DEF InContext, ma
  <2> QED
    BY <1>1, <1>2, <2>1, <2>2 DEF InContext, LoadHeld, MaskIs, ma, main
<1>15. MainFresh'
  <2>1. SUFFICES ASSUME at.l # << >>, Whole(ma) PROVE Fresh(mem', ma, at.l[1])
    BY <1>1, <1>2 DEF MainFresh, Fresh, Differ, ma, main
  <2>2. Fresh(mem, ma, at.l[1])
    BY <1>9, <2>1 DEF MainFresh, ma, main
  <2>3. CASE At(mem', Cell(ma.r)) = At(mem, Cell(ma.r))
    <3>1. Load(mem', ma.r) = Load(mem, ma.r)
      BY <1>7, <2>1, <2>3 DEF Load
    <3> QED
      BY <2>2, <3>1 DEF Fresh, Differ
  <2>4. CASE At(mem', Cell(ma.r)) # At(mem, Cell(ma.r))
    <3>1. Cell(ma.r) = SCS \/ Cell(ma.r)[1] \notin HardwareNames
      BY <1>7, <2>1 DEF Cell, SCS
    <3>2. Writes(a) /\ Cell(a.r) = Cell(ma.r)
      BY <1>11, <2>4, <3>1
    <3>3. /\ ma.r[1] = "TCR" /\ a.op = "modify"
          /\ \A b \in a.clr \union a.set : b \in ma.clr \union ma.set \/ IsPulsed(ma.r, b)
      BY <1>5, <2>1, <3>2 DEF Undisturbed, IsPulsed, ma
    <3>4. Cell(ma.r) = ma.r /\ a.r = ma.r /\ Plain(a.r) /\ a.r[1] \notin HardwareNames
      BY <3>2, <3>3 DEF Cell, Plain, KeepsNothing, HardwareNames
    <3>5. h.at.l # << >> /\ Differ(mem, a, h.at.l[1]) = {}
      <4>1. h.at.l # << >>
        BY <1>8, <2>4, <3>2, <3>3
      <4> QED
        BY <1>91, <3>2, <3>4, <4>1
    <3>6. At(mem', ma.r) = v /\ Load(mem', ma.r) = v /\ Load(mem, ma.r) = h.at.l[1]
      <4>1. At(mem', ma.r) = v
        BY <1>11, <3>2, <3>4, <3>5
      <4>2. Load(mem', ma.r) = At(mem', ma.r)
        BY <3>3, <3>4 DEF Load
      <4>3. Load(mem, a.r) = h.at.l[1]
        BY <3>5 DEF Differ
      <4> QED
        BY <3>4, <4>1, <4>2, <4>3
    <3>7. v = (h.at.l[1] \ a.clr) \union a.set
      BY <3>3 DEF Value, v
    <3>8. \A b \in Differ(mem', ma, at.l[1]) : b \in Differ(mem, ma, at.l[1]) \/ b \in a.clr \union a.set
      BY <3>6, <3>7 DEF Differ
    <3> QED
      BY <2>2, <3>3, <3>8 DEF Fresh
  <2> QED
    BY <2>3, <2>4
<1>16. PulsesEnd'
  <2>1. SUFFICES ASSUME NEW r, NEW b, IsPulsed(r, b), b \in At(mem', r)
                 PROVE  ~Over(code, to) /\ code[to.i] = AndNot(r, {b})
    BY <1>1, <1>2, <1>9, <1>10 DEF PulsesEnd, main
  <2>2. r[1] = "TCR" /\ (b \in At(mem, r) => a = AndNot(r, {b}))
    BY <1>5, <1>9, <2>1 DEF PulsesEnd, IsPulsed
  <2>3. r[1] \notin HardwareNames /\ Writes(AndNot(r, {b})) /\ Cell(r) = r /\ Plain(r)
    BY <2>2 DEF HardwareNames, Writes, AndNot, Cell, Plain, KeepsNothing
  <2>4. CASE ~Writes(a)
    BY <1>11, <2>1, <2>2, <2>3, <2>4
  <2>5. CASE a.op = "modify" /\ h.at.l = << >>
    <3>1. mem' = mem /\ to.i = h.at.i
      BY <1>8, <1>91, <2>5
    <3>2. a = AndNot(r, {b})
      BY <2>1, <2>2, <3>1
    <3> QED
      BY <1>1, <3>1, <3>2 DEF Over, a
  <2>6. CASE Writes(a) /\ (a.op = "modify" => h.at.l # << >>)
    <3>1. Cell(a.r) = r
      BY <1>11, <2>1, <2>2, <2>3 DEF AndNot
    <3>2. a.r = r
      BY <2>2, <3>1 DEF Cell
    <3>3. b \in v
      BY <1>11, <2>1, <2>3, <2>6, <3>1, <3>2
    <3>4. b \in a.set
      <4>1. SUFFICES ASSUME b \notin a.set PROVE FALSE
        OBVIOUS
      <4>2. a.op = "modify" /\ b \in h.at.l[1] /\ b \notin a.clr
        BY <2>6, <3>3, <4>1 DEF v, Value, Writes
      <4>3. Differ(mem, a, h.at.l[1]) = {}
        BY <1>91, <2>2, <2>3, <2>6, <3>1, <4>2
      <4>4. Load(mem, a.r) = At(mem, r)
        BY <2>2, <2>3, <3>2 DEF Load
      <4>5. b \in At(mem, r)
        BY <4>2, <4>3, <4>4 DEF Differ
      <4> QED
        BY <2>2, <4>2, <4>5 DEF AndNot
    <3>5. /\ h.at.i < Len(code) /\ code[h.at.i + 1] = AndNot(r, {b})
          /\ Len(code) \in Nat
      <4>1. /\ h.irq \in DOMAIN Program[prog].irqs /\ h.run \in DOMAIN Program[prog].irqs[h.irq]
            /\ h.call \in 1 .. Len(Program[prog].irqs[h.irq][h.run]) /\ Program[prog].irqs[h.irq][h.run] # << >>
            /\ code = Program[prog].irqs[h.irq][h.run][h.call].code
        BY <1>1 DEF InHandler, Handled, Runs, Within, code
      <4>2. Pulsed(prog, Program[prog], r, b) /\ SafeHandlers(Program[prog])
        BY <1>1, <1>3, <2>1, SafeHere DEF IsPulsed
      <4>3. \A i \in 1 .. Len(code) :
              Writes(code[i]) /\ code[i].r = r /\ b \in code[i].set =>
                i < Len(code) /\ code[i + 1] = AndNot(r, {b})
        BY <4>1, <4>2 DEF Pulsed
      <4>4. Len(code) \in Nat
        BY <4>1, <4>2 DEF SafeHandlers
      <4> QED
        BY <1>1, <2>6, <3>2, <3>4, <4>3, <4>4 DEF a
    <3>6. to.i = h.at.i + 1
      BY <1>8, <2>6
    <3>7. h.at.i \in Nat
      BY <1>1
    <3> QED
      BY <3>5, <3>6, <3>7 DEF Over
  <2> QED
    BY <1>91, <2>4, <2>5, <2>6
<1>17. NoSurprise'
  <2>1. Writes(a) => Cell(a.r) # SCS
    BY <1>5 DEF Cell, SCS
  <2>2. At(mem', SCS) = At(mem, SCS)
    BY <1>11, <2>1
  <2> QED
    BY <1>1, <1>9, <2>2 DEF NoSurprise
<1> QED
  BY <1>4, <1>12, <1>13, <1>14, <1>15, <1>16, <1>17 DEF KeptInv

\* A handler starts with nothing loaded.
LEMMA EnterKeeps ==
  ASSUME KeptInv, prog \in KeepingTexts, NEW irq \in Handled, Enter(irq)
  PROVE  KeptInv'
<1>1. /\ IndInv /\ prog \in SafeTexts /\ isr = << >> /\ Main' = Main
      /\ mem' = mem /\ prog' = prog /\ pc' = pc /\ at' = at
  BY DEF KeptInv, KeepingTexts, Enter, Main
<1>2. IndInv'
  BY <1>1, EnterFits
<1>3. /\ \A cell : Held(cell)' = Held(cell)
      /\ \A r, b : IsPulsed(r, b)' = IsPulsed(r, b)
  BY <1>1 DEF Held, IsPulsed
<1>4. Holds(mem) /\ InContext(mem, Main[pc].code, at) /\ MainFresh /\ PulsesEnd /\ NoSurprise
  BY DEF KeptInv
<1>5. Holds(mem)' /\ InContext(mem, Main[pc].code, at)'
  BY <1>1, <1>3, <1>4 DEF Holds, InContext, LoadHeld, MaskIs
<1>6. MainFresh' /\ NoSurprise'
  BY <1>1, <1>3, <1>4 DEF MainFresh, Fresh, Differ, NoSurprise
<1>7. PulsesEnd'
  BY <1>1, <1>3, <1>4 DEF PulsesEnd
<1>8. isr' # << >> => isr'[1].at = Start
  <2>1. SUFFICES ASSUME isr' # << >> PROVE isr'[1].at = Start
    OBVIOUS
  <2>2. PICK r : isr' = <<[irq |-> irq, run |-> r, call |-> 1, at |-> Start]>>
    BY <2>1 DEF Enter, TakenBySample, TakenByDefault
  <2> QED
    BY <2>2
<1>9. isr' # << >> => InContext(mem, Within(isr[1]).code, isr[1].at)' /\ HandlerFresh(isr[1])'
  <2>1. isr' # << >> => isr'[1].at.i = 1 /\ isr'[1].at.l = << >>
    BY <1>8 DEF Start
  <2>2. isr' # << >> => InContext(mem, Within(isr[1]).code, isr[1].at)'
    <3>1. isr' # << >> => ~Unmasks(Within(isr[1]).code, isr[1].at.i)'
      BY <2>1 DEF Unmasks
    <3> QED
      BY <2>1, <3>1 DEF InContext, LoadHeld, MaskIs
  <2>3. isr' # << >> => HandlerFresh(isr[1])'
    BY <2>1 DEF HandlerFresh
  <2> QED
    BY <2>2, <2>3
<1> QED
  BY <1>2, <1>5, <1>6, <1>7, <1>9 DEF KeptInv

\* What the hardware changes: its own registers only, and of these the oscillator's bit
\* when it has been started.
LEMMA HardwareChanges ==
  ASSUME NonZero(mem), Hardware
  PROVE  /\ UNCHANGED <<prog, pc, at, isr, stopped, left>>
         /\ \A x : x[1] \notin HardwareNames => At(mem', x) = At(mem, x)
         /\ \A x : x[1] = "ADDR" => At(mem', x) \subseteq At(mem, x) \union {31}
         /\ \/ At(mem', SCS) = At(mem, SCS)
            \/ /\ 5 \in At(mem, SCS) /\ 6 \notin At(mem, SCS)
               /\ At(mem', SCS) = At(mem, SCS) \union {6}
<1> DEFINE Alike(k) == NonZero(k) /\ \A x : x[1] \notin HardwareNames \/ x[1] \in {"ADDR", "SCS"} => At(k, x) = At(mem, x)
<1>1. UNCHANGED <<prog, pc, at, isr, stopped, left>>
  BY DEF Hardware, Match, OscillatorReady, PllLocks, Converts, TimePasses, MiimDone, PhyReady, Copied,
         SetByHardware
<1>2. Alike(mem)
  OBVIOUS
<1>3. ASSUME NEW m, Alike(m), NEW v, NEW k, NEW n \in HardwareNames \ {"ADDR", "SCS"}
      PROVE  Alike(Put(m, <<n, k>>, v))
  BY <1>3, PutIs
<1>4. {"IR", "PLL0STAT", "TC", "MRDD", "PHY", "MIND", "DMACEnbldChns", "Config"} \subseteq HardwareNames \ {"ADDR", "SCS"}
      /\ {"ADDR", "SCS"} \subseteq HardwareNames
  BY DEF HardwareNames
<1> HIDE DEF Alike
<1>5. Match \/ PllLocks \/ TimePasses => Alike(mem')
  BY <1>2, <1>3, <1>4 DEF Match, PllLocks, TimePasses, SetByHardware, TC
<1>6. MiimDone \/ PhyReady \/ Copied(0) => Alike(mem')
  <2>1. ASSUME NEW m, Alike(m), NEW v, NEW k, NEW n \in {"MRDD", "PHY", "MIND", "DMACEnbldChns", "Config"}
        PROVE  Alike(Put(m, <<n, k>>, v))
    BY <1>3, <1>4, <2>1
  <2>2. MiimDone => Alike(mem')
    BY <1>2, <2>1 DEF MiimDone, MRDD, MIND
  <2>3. PhyReady \/ Copied(0) => Alike(mem')
    BY <1>2, <2>1 DEF PhyReady, Copied
  <2> QED
    BY <2>2, <2>3
<1>7. ASSUME Alike(mem')
      PROVE  /\ \A x : x[1] \notin HardwareNames => At(mem', x) = At(mem, x)
             /\ \A x : x[1] = "ADDR" => At(mem', x) = At(mem, x)
             /\ At(mem', SCS) = At(mem, SCS)
  BY <1>7 DEF Alike, SCS
<1>8. ASSUME NEW c \in 4 .. 5, Converts(c)
      PROVE  /\ \A x : x[1] \notin HardwareNames => At(mem', x) = At(mem, x)
             /\ \A x : x[1] = "ADDR" => At(mem', x) \subseteq At(mem, x) \union {31}
             /\ At(mem', SCS) = At(mem, SCS)
  <2>1. mem' = Put(mem, <<"ADDR", c>>, At(mem, <<"ADDR", c>>) \union {31})
    BY <1>8 DEF Converts, SetByHardware
  <2> QED
    BY <1>4, <2>1, PutIs DEF SCS
<1>9. ASSUME OscillatorReady
      PROVE  /\ \A x : x[1] \notin HardwareNames => At(mem', x) = At(mem, x)
             /\ \A x : x[1] = "ADDR" => At(mem', x) = At(mem, x)
             /\ 5 \in At(mem, SCS) /\ 6 \notin At(mem, SCS)
             /\ At(mem', SCS) = At(mem, SCS) \union {6}
  <2>1. /\ mem' = Put(mem, SCS, At(mem, SCS) \union {6})
        /\ 5 \in At(mem, SCS) /\ 6 \notin At(mem, SCS)
    BY <1>9 DEF OscillatorReady, SetByHardware, SCS
  <2>2. SCS[1] = "SCS"
    BY DEF SCS
  <2> QED
    BY <1>4, <2>1, <2>2, PutIs
<1> QED
  BY <1>1, <1>5, <1>6, <1>7, <1>8, <1>9 DEF Hardware

LEMMA HardwareKeeps ==
  ASSUME KeptInv, prog \in KeepingTexts, Hardware
  PROVE  KeptInv'
<1> DEFINE ma == Main[pc].code[at.i]
<1>1. /\ IndInv /\ InMain /\ NonZero(mem)
      /\ Holds(mem) /\ InContext(mem, Main[pc].code, at) /\ MainFresh /\ PulsesEnd /\ NoSurprise
      /\ isr # << >> => InContext(mem, Within(isr[1]).code, isr[1].at) /\ HandlerFresh(isr[1])
  BY DEF KeptInv, IndInv, NonZero
<1>2. /\ prog' = prog /\ pc' = pc /\ at' = at /\ isr' = isr
      /\ \A x : x[1] \notin HardwareNames => At(mem', x) = At(mem, x)
      /\ \A x : x[1] = "ADDR" => At(mem', x) \subseteq At(mem, x) \union {31}
      /\ \/ At(mem', SCS) = At(mem, SCS)
         \/ /\ 5 \in At(mem, SCS) /\ 6 \notin At(mem, SCS)
            /\ At(mem', SCS) = At(mem, SCS) \union {6}
  BY <1>1, HardwareChanges
<1>3. IndInv'
  BY <1>1, HardwareFits
<1>4. /\ \A cell : Held(cell)' = Held(cell)
      /\ \A r, b : IsPulsed(r, b)' = IsPulsed(r, b)
      /\ Main' = Main /\ (isr # << >> => Within(isr[1])' = Within(isr[1]))
      /\ Access' = Access
  BY <1>2 DEF Held, IsPulsed, Main, Within, Runs, Access, Here, Place
<1>5. \A r : Cell(r)[1] \notin HardwareNames => Load(mem', r) = Load(mem, r)
  <2>1. ASSUME NEW n PROVE <<"FIOMASK", n>>[1] \notin HardwareNames
    BY DEF HardwareNames
  <2> QED
    BY <1>2, <2>1 DEF Load
<1>6. Holds(mem)'
  <2>1. ASSUME NEW cell, cell[1] \notin Loose PROVE At(mem', cell) \subseteq Held(cell)
    <3>1. At(mem, cell) \subseteq Held(cell)
      BY <1>1, <2>1 DEF Holds
    <3>2. CASE cell[1] = "ADDR"
      <4>1. 31 \in Held(cell)
        BY <3>2 DEF Held, MayHold
      <4> QED
        BY <1>2, <3>1, <3>2, <4>1
    <3>3. CASE cell[1] # "ADDR"
      <4>1. cell[1] \notin HardwareNames
        BY <2>1, <3>3 DEF Loose
      <4> QED
        BY <1>2, <3>1, <4>1
    <3> QED
      BY <3>2, <3>3
  <2> QED
    BY <1>4, <2>1 DEF Holds
<1>7. ASSUME NEW code, NEW x, InContext(mem, code, x)
      PROVE  InContext(mem', code, x)
  <2>1. \A n : At(mem', <<"FIOMASK", n>>) = At(mem, <<"FIOMASK", n>>)
    BY <1>2 DEF HardwareNames
  <2> QED
    BY <1>7, <2>1 DEF InContext, MaskIs
<1>8. InContext(mem, Main[pc].code, at)'
  <2>1. InContext(mem', Main[pc].code, at)
    BY <1>1, <1>7
  <2> QED
    BY <1>2, <1>4, <2>1 DEF InContext, LoadHeld, MaskIs
<1>9. isr # << >> => InContext(mem, Within(isr[1]).code, isr[1].at)' /\ HandlerFresh(isr[1])'
  <2>1. SUFFICES ASSUME isr # << >>
                 PROVE  InContext(mem, Within(isr[1]).code, isr[1].at)' /\ HandlerFresh(isr[1])'
    OBVIOUS
  <2>2. InContext(mem, Within(isr[1]).code, isr[1].at)'
    <3>1. InContext(mem', Within(isr[1]).code, isr[1].at)
      BY <1>1, <1>7, <2>1
    <3>2. Within(isr[1])' = Within(isr[1]) /\ isr' = isr
      BY <1>2, <1>4, <2>1
    <3> QED
      BY <1>4, <3>1, <3>2 DEF InContext, LoadHeld, MaskIs
  <2>3. HandlerFresh(isr[1])'
    BY <1>1, <1>2, <1>4, <1>5, <2>1 DEF HandlerFresh, Differ
  <2> QED
    BY <2>2, <2>3
<1>10. NotStarting(prog, Program[prog], pc, at.i) => At(mem', SCS) = At(mem, SCS)
  BY <1>1, <1>2 DEF NoSurprise, NotStarting
<1>11. MainFresh'
  <2>1. SUFFICES ASSUME at.l # << >>, Whole(ma) PROVE Fresh(mem', ma, at.l[1])
    BY <1>2, <1>4 DEF MainFresh, Fresh, Differ
  <2>2. Fresh(mem, ma, at.l[1])
    BY <1>1, <2>1 DEF MainFresh
  <2>3. KeepsPlace(prog, Program[prog], pc, at.i) /\ ma = Code(Program[prog], pc)[at.i]
    BY <1>1, MainText DEF Code, Main
  <2>4. Cell(ma.r)[1] \notin HardwareNames \/ (ma.r = SCS /\ NotStarting(prog, Program[prog], pc, at.i))
    BY <2>1, <2>3 DEF KeepsPlace
  <2> HIDE DEF ma
  <2>5. ma.r = SCS => Load(mem, ma.r) = At(mem, SCS) /\ Load(mem', ma.r) = At(mem', SCS)
    BY DEF Load, Cell, SCS
  <2>6. Load(mem', ma.r) = Load(mem, ma.r)
    BY <1>5, <1>10, <2>4, <2>5
  <2> QED
    BY <2>2, <2>6 DEF Fresh, Differ
<1>12. PulsesEnd'
  <2>1. SUFFICES ASSUME NEW r, NEW b, IsPulsed(r, b)
                 PROVE  At(mem', r) = At(mem, r)
    BY <1>1, <1>2, <1>4 DEF PulsesEnd
  <2>2. r[1] \notin HardwareNames
    BY <2>1 DEF IsPulsed, HardwareNames
  <2> QED
    BY <1>2, <2>2
<1>13. NoSurprise'
  BY <1>1, <1>2, <1>10 DEF NoSurprise, NotStarting
<1> QED
  BY <1>2, <1>3, <1>6, <1>8, <1>9, <1>11, <1>12, <1>13 DEF KeptInv

LEMMA InitKeeps ==
  ASSUME Init, prog \in KeepingTexts
  PROVE  KeptInv
<1>1. IndInv
  BY InitFits DEF KeepingTexts
<1>2. mem = Began(prog) /\ at = Start /\ isr = << >>
  BY DEF Init
<1>3. Holds(mem)
  BY <1>2 DEF Holds, Held, MayHold
<1>4. InContext(mem, Main[pc].code, at) /\ MainFresh
  BY <1>2 DEF InContext, LoadHeld, MaskIs, Unmasks, Start, MainFresh
<1>5. PulsesEnd
  BY <1>2 DEF PulsesEnd, IsPulsed, Pulsed, Start
<1>6. NoSurprise
  <2>1. CASE prog = "warm"
    <3> DEFINE m1 == Put(Reset, <<"PLL0CON", 0>>, {0, 1})
               m2 == Put(m1, <<"PLL0STAT", 0>>, {24, 25, 26})
               m3 == Put(m2, SCS, {5, 6})
    <3>1. NonZero(Reset)
      BY DEF NonZero, Reset
    <3>2. NonZero(m1)
      BY <3>1, PutIs
    <3> HIDE DEF m1
    <3>3. NonZero(m2)
      BY <3>2, PutIs
    <3> HIDE DEF m2
    <3>4. NonZero(m3) /\ At(m3, SCS) = {5, 6}
      BY <3>3, PutIs
    <3> HIDE DEF m3
    <3>5. At(Put(m3, <<"CLKSRCSEL", 0>>, {0}), SCS) = {5, 6}
      BY <3>4, PutIs DEF SCS
    <3>6. mem = Put(m3, <<"CLKSRCSEL", 0>>, {0})
      BY <1>2, <2>1 DEF Began, PllInUse, m1, m2, m3, SCS
    <3> QED
      BY <2>1, <3>5, <3>6 DEF NoSurprise
  <2>2. CASE prog # "warm"
    <3>1. SCS \notin DOMAIN Reset
      BY DEF Reset, SCS
    <3> QED
      BY <1>2, <2>2, <3>1 DEF NoSurprise, Began, At
  <2> QED
    BY <2>1, <2>2
<1> QED
  BY <1>1, <1>2, <1>3, <1>4, <1>5, <1>6 DEF KeptInv

-----------------------------------------------------------------------------
(* What follows from what is kept *)

\* A step of main or of a handler makes one access of its text, and the text says what
\* that access changes.
LEMMA StepIs ==
  ASSUME KeptInv, prog \in KeepingTexts, [Next]_vars, Executes
  PROVE  LET a == Access
         IN /\ a = Here.code[Place.i] /\ a \in Accesses(Program[prog])
            /\ \E may : /\ KeepsBits(Here, Place.i, may, Held(Cell(a.r)))
                        /\ Writes(a) /\ a.r[1] = "ICER" => At(mem, Nvic) \subseteq may
            /\ SetsPins(Here, Place.i) /\ MaskIs(mem, Here.code, Place.i)
            /\ isr # << >> /\ a.op = "modify" /\ Place.l # << >> =>
                 OwnsAll(Here, Cell(a.r)) \/ Differ(mem, a, Place.l[1]) = {}
            /\ \/ mem' = mem /\ (~Writes(a) \/ (a.op = "modify" /\ Place.l = << >>))
               \/ /\ Writes(a) /\ (a.op = "modify" => Place.l # << >>)
                  /\ mem' = Stored(mem, a.r, Value(a, Place.l[1]))
<1>1. MainStep \/ HandlerStep
  <2>1. ASSUME NEW irq \in Handled, Enter(irq) PROVE FALSE
    <3>1. left \in Nat /\ left' = left - 1
      BY <2>1, MaxIrqIsNat DEF KeptInv, IndInv, Enter
    <3> QED
      BY <3>1 DEF Executes
  <2>2. ASSUME Hardware PROVE FALSE
    BY <2>2, HardwareChanges DEF KeptInv, IndInv, NonZero, Executes
  <2> QED
    BY <2>1, <2>2 DEF Next, Blinks, Executes, vars
<1>2. IndInv /\ InMain /\ NonZero(mem) /\ MemoryFits
  BY DEF KeptInv, IndInv, NonZero
<1>3. CASE MainStep
  <2> DEFINE a == Main[pc].code[at.i]
  <2>1. /\ isr = << >> /\ Here = Main[pc] /\ Place = at /\ Access = a
        /\ mem' = Left(Main[pc].code, at, mem) /\ at = [i |-> at.i, l |-> at.l]
    BY <1>2, <1>3 DEF MainStep, Here, Place, Access, InMain
  <2>2. KeepsPlace(prog, Program[prog], pc, at.i) /\ a \in Accesses(Program[prog])
    BY <1>2, MainText
  <2>3. KeepsBits(Main[pc], at.i, Now.may, Held(Cell(a.r))) /\ SetsPins(Main[pc], at.i)
    BY <2>2 DEF KeepsPlace, Held, Now, Main, Code
  <2>4. At(mem, Nvic) \subseteq Now.may
    <3>1. Nvic \in Watched
      BY DEF Watched
    <3> QED
      BY <1>2, <3>1 DEF MemoryFits, Fits
  <2>5. MaskIs(mem, Main[pc].code, at.i)
    BY DEF KeptInv, InContext
  <2>6. \/ mem' = mem /\ (~Writes(a) \/ (a.op = "modify" /\ at.l = << >>))
        \/ /\ Writes(a) /\ (a.op = "modify" => at.l # << >>)
           /\ mem' = Stored(mem, a.r, Value(a, at.l[1]))
    BY <2>1 DEF Left, Writes, Value
  <2> HIDE DEF a
  <2>7. \E may : /\ KeepsBits(Here, Place.i, may, Held(Cell(Access.r)))
                 /\ Writes(Access) /\ Access.r[1] = "ICER" => At(mem, Nvic) \subseteq may
    BY <2>1, <2>3, <2>4
  <2> QED
    BY <2>1, <2>2, <2>3, <2>5, <2>6, <2>7 DEF a
<1>4. CASE HandlerStep
  <2> DEFINE h == isr[1]
             a == Within(h).code[h.at.i]
  <2>1. isr # << >> /\ mem' = Left(Within(h).code, h.at, mem)
    BY <1>4 DEF HandlerStep
  <2>2. /\ Here = Within(h) /\ Place = h.at /\ Access = a /\ InHandler(h)
        /\ h.at = [i |-> h.at.i, l |-> h.at.l]
    BY <1>2, <2>1, HandlerIs DEF InHandler
  <2>3. /\ KeepsBits(Here, h.at.i, {}, Held(Cell(a.r))) /\ SetsPins(Here, h.at.i)
        /\ Writes(a) => a.r[1] # "ICER"
        /\ a.op = "modify" => OwnsAll(Here, Cell(a.r)) \/ Cell(a.r)[1] \notin HardwareNames
        /\ a \in Accesses(Program[prog])
    BY <1>2, <2>1, <2>2, HandlerText
  <2>4. MaskIs(mem, Within(h).code, h.at.i) /\ HandlerFresh(h)
    BY <2>1 DEF KeptInv, InContext
  <2>5. h.at.l # << >> /\ Cell(a.r)[1] \notin HardwareNames => Differ(mem, a, h.at.l[1]) = {}
    BY <2>4 DEF HandlerFresh
  <2>6. \/ mem' = mem /\ (~Writes(a) \/ (a.op = "modify" /\ h.at.l = << >>))
        \/ /\ Writes(a) /\ (a.op = "modify" => h.at.l # << >>)
           /\ mem' = Stored(mem, a.r, Value(a, h.at.l[1]))
    BY <2>1, <2>2 DEF Left, Writes, Value
  <2>7. a = Here.code[Place.i] /\ MaskIs(mem, Here.code, Place.i)
    BY <2>2, <2>4
  <2> HIDE DEF a, h
  <2>8. \E may : /\ KeepsBits(Here, Place.i, may, Held(Cell(Access.r)))
                 /\ Writes(Access) /\ Access.r[1] = "ICER" => At(mem, Nvic) \subseteq may
    BY <2>2, <2>3
  <2> QED
    BY <2>2, <2>3, <2>5, <2>6, <2>7, <2>8
<1> QED
  BY <1>1, <1>3, <1>4

LEMMA KeptIsIsolated ==
  ASSUME KeptInv, prog \in KeepingTexts, [Next]_vars, Executes
  PROVE  Isolated /\ NothingUndone
<1> DEFINE a == Access
           l == Place.l[1]
           held == Held(Cell(a.r))
<1>1. /\ a = Here.code[Place.i] /\ a \in Accesses(Program[prog])
      /\ MaskIs(mem, Here.code, Place.i)
      /\ isr # << >> /\ a.op = "modify" /\ Place.l # << >> =>
           OwnsAll(Here, Cell(a.r)) \/ Differ(mem, a, l) = {}
      /\ \/ mem' = mem
         \/ /\ Writes(a) /\ (a.op = "modify" => Place.l # << >>)
            /\ mem' = Stored(mem, a.r, Value(a, l))
  BY StepIs
<1>2. PICK may : /\ KeepsBits(Here, Place.i, may, held)
                 /\ Writes(a) /\ a.r[1] = "ICER" => At(mem, Nvic) \subseteq may
  BY StepIs
<1>3. NonZero(mem) /\ Holds(mem) /\ MainFresh /\ PulsesEnd
  BY DEF KeptInv, IndInv, NonZero
<1>4. isr = << >> => a = Main[pc].code[at.i] /\ Place = at
  BY DEF Access, Here, Place
<1> HIDE DEF a, l, held
<1>5. Cell(a.r)[1] \notin Loose => At(mem, Cell(a.r)) \subseteq held /\ Puts(a, Cell(a.r)) \subseteq held
  BY <1>1, <1>3 DEF Holds, Held, MayHold, held
<1>6. ASSUME NEW c, NEW b, b \in (At(mem, c) \ At(mem', c)) \union (At(mem', c) \ At(mem, c))
      PROVE  \/ Owns(Here, <<c, b>>)
             \/ isr = << >> /\ a.op = "modify" /\ at.l # << >> /\ c = Cell(a.r) /\ b \in Differ(mem, a, at.l[1])
  <2>1. /\ Writes(a) /\ (a.op = "modify" => Place.l # << >>)
        /\ mem' = Stored(mem, a.r, Value(a, l))
    BY <1>1, <1>6
  <2>2. \/ Owns(Here, <<c, b>>)
        \/ /\ a.op = "modify" /\ c = Cell(a.r) /\ ~OwnsAll(Here, Cell(a.r))
           /\ b \in Differ(mem, a, l)
    <3>1. WithinBits(mem, a, may, held) /\ Changed(mem, mem', c, b)
      BY <1>2, <1>5, <1>6, <2>1 DEF WithinBits, Changed
    <3> QED
      BY <1>1, <1>2, <1>3, <2>1, <3>1, AccessChanges
  <2> QED
    BY <1>1, <1>4, <2>1, <2>2 DEF l
<1>7. Isolated
  <2>1. SUFFICES ASSUME NEW bit \in Diff(mem, mem'), bit \notin Meanwhile
                 PROVE  Owns(Here, bit)
    BY DEF Isolated
  <2>2. PICK c, b : bit = <<c, b>> /\ b \in (At(mem, c) \ At(mem', c)) \union (At(mem', c) \ At(mem, c))
    BY DiffIs
  <2>3. ~(isr = << >> /\ a.op = "modify" /\ at.l # << >> /\ c = Cell(a.r) /\ b \in Differ(mem, a, at.l[1]))
    BY <2>1, <2>2 DEF Meanwhile, Differ, a
  <2> QED
    BY <1>6, <2>2, <2>3
<1>8. NothingUndone
  <2>1. SUFFICES ASSUME a.r # PCR, NEW bit \in Meanwhile
                 PROVE  bit \in {Cell(a.r)} \X (a.clr \union a.set)
    BY DEF NothingUndone, a
  <2>2. /\ isr = << >> /\ a.op = "modify" /\ at.l # << >>
        /\ \E b \in Differ(mem, a, at.l[1]) : bit = <<Cell(a.r), b>>
    BY <2>1 DEF Meanwhile, Differ, a
  <2>3. PICK b \in Differ(mem, a, at.l[1]) : bit = <<Cell(a.r), b>>
    BY <2>2
  <2>4. Fresh(mem, a, at.l[1])
    BY <1>3, <1>4, <2>1, <2>2 DEF MainFresh, Whole
  <2>5. a.r[1] = "TCR" /\ (b \in a.clr \union a.set \/ IsPulsed(a.r, b))
    BY <2>3, <2>4 DEF Fresh
  <2>6. ~IsPulsed(a.r, b)
    <3>1. Load(mem, a.r) = At(mem, a.r)
      BY <2>5 DEF Load, Cell
    <3>2. b \in At(mem, a.r) \/ b \in at.l[1]
      BY <2>3, <3>1 DEF Differ
    <3> QED
      BY <1>3, <1>4, <2>2, <3>2 DEF PulsesEnd
  <2> QED
    BY <2>3, <2>5, <2>6
<1> QED
  BY <1>7, <1>8

LEMMA KeptIsLevel ==
  ASSUME KeptInv, prog \in KeepingTexts, [Next]_vars, Executes,
         Here.dev[1] = "gpio", Access.op = "modify" => Place.l # << >>
  PROVE  LET named == {p[2] : p \in Here.pins}
             level == At(mem', <<"FIOPIN", Access.r[2]>>)
         IN /\ Access.r[1] = "FIOPIN" => level \intersect named = Access.set \intersect named
            /\ Access.r[1] \in {"FIOSET", "FIOCLR"} /\ Cardinality(named) = 1 =>
                 (named \subseteq level <=> Access.r[1] = "FIOSET")
<1> DEFINE a == Access
<1>1. /\ a = Here.code[Place.i] /\ SetsPins(Here, Place.i) /\ MaskIs(mem, Here.code, Place.i)
      /\ Writes(a) => mem' = Stored(mem, a.r, Value(a, Place.l[1]))
  BY StepIs
<1>2. PICK may : KeepsBits(Here, Place.i, may, Held(Cell(a.r)))
  BY StepIs
<1>3. Writes(a) /\ a.r[1] = "FIOPIN" => a.op = "store"
  BY <1>1, <1>2 DEF KeepsBits
<1>4. NonZero(mem)
  BY DEF KeptInv, IndInv, NonZero
<1> HIDE DEF a
<1>5. LevelIsAsked(Here, a, mem')
  BY <1>1, <1>3, <1>4, PinsGetLevel
<1> QED
  BY <1>5 DEF LevelIsAsked, a

-----------------------------------------------------------------------------
\* A program keeps its text.
LEMMA TextStays ==
  prog \in KeepingTexts /\ [Next]_vars => (prog \in KeepingTexts)' /\ prog' = prog
<1>1. [Next]_vars => prog' = prog
  BY DEF Next, vars, MainStep, Enter, HandlerStep, Blinks, Hardware, Match, OscillatorReady, PllLocks,
         Converts, TimePasses, MiimDone, PhyReady, Copied, SetByHardware
<1> QED
  BY <1>1 DEF KeepingTexts, SafeTexts

\* What the registers hold, and what main and the handlers have loaded, stays as the text
\* says, however many interrupts come.
THEOREM KeptIsTrue ==
  Spec => [](prog \in KeepingTexts => KeptInv)
<1>1. Init => (prog \in KeepingTexts => KeptInv)
  BY InitKeeps
<1>2. (prog \in KeepingTexts => KeptInv) /\ [Next]_vars => (prog \in KeepingTexts => KeptInv)'
  <2>1. SUFFICES ASSUME prog \in KeepingTexts => KeptInv, [Next]_vars, prog' \in KeepingTexts PROVE KeptInv'
    BY DEF KeepingTexts, SafeTexts
  <2>2. prog' = prog
    BY <2>1 DEF Next, vars, MainStep, Enter, HandlerStep, Blinks, Hardware, Match, OscillatorReady, PllLocks,
                Converts, TimePasses, MiimDone, PhyReady, Copied, SetByHardware
  <2>3. KeptInv /\ prog \in KeepingTexts
    BY <2>1, <2>2
  <2>4. CASE UNCHANGED vars
    <3>1. IndInv'
      BY <2>3, <2>4 DEF vars, KeptInv, IndInv, InMain, InHandler, MemoryFits, LoadFits, Now, Main, Within,
                        Runs, Handled, Watched, StopFits, SettingTick
    <3>2. /\ \A cell : Held(cell)' = Held(cell)
          /\ \A r, b : IsPulsed(r, b)' = IsPulsed(r, b)
          /\ Main' = Main /\ (isr # << >> => Within(isr[1])' = Within(isr[1])) /\ Access' = Access
      BY <2>4 DEF vars, Held, IsPulsed, Main, Within, Runs, Access, Here, Place
    <3>3. Holds(mem)' /\ InContext(mem, Main[pc].code, at)' /\ MainFresh' /\ NoSurprise'
      BY <2>3, <2>4, <3>2 DEF vars, KeptInv, Holds, InContext, LoadHeld, MaskIs, MainFresh, Fresh, Differ, NoSurprise
    <3>4. isr' # << >> => InContext(mem, Within(isr[1]).code, isr[1].at)' /\ HandlerFresh(isr[1])'
      BY <2>3, <2>4, <3>2 DEF vars, KeptInv, InContext, LoadHeld, MaskIs, HandlerFresh, Differ
    <3>5. PulsesEnd'
      BY <2>3, <2>4, <3>2 DEF vars, KeptInv, PulsesEnd
    <3> QED
      BY <3>1, <3>3, <3>4, <3>5 DEF KeptInv
  <2> QED
    BY <2>1, <2>3, <2>4, MainStepKeeps, EnterKeeps, HandlerStepKeeps, HardwareKeeps DEF Next, Blinks
<1> QED
  BY <1>1, <1>2, PTL DEF Spec

\* A call of a driver changes no bit of another device's, in main or in a handler, and
\* main's "|=" and "&=" undo nothing a handler did (pinconf.c:31-49, timer.c:43-59).
THEOREM OthersAreSafe ==
  Spec => (prog \in KeepingTexts => OthersBitsKept)
<1>1. prog \in KeepingTexts /\ [Next]_vars => (prog \in KeepingTexts)'
  BY TextStays
<1>2. (prog \in KeepingTexts => KeptInv) /\ prog \in KeepingTexts /\ [Next]_vars =>
        [Executes => Isolated /\ NothingUndone]_vars
  BY KeptIsIsolated
<1> QED
  BY <1>1, <1>2, KeptIsTrue, PTL DEF Spec, OthersBitsKept, BitsKept

\* The pins a GPIO call names, in main or in a handler, get the level it asks for
\* (gpio.c:39-102, leds.h:53-101).
THEOREM PinsAreAsAsked ==
  Spec => (prog \in KeepingTexts => PinsAsAsked)
<1> DEFINE Level ==
      Executes /\ Here.dev[1] = "gpio" /\ (Access.op = "modify" => Place.l # << >>) =>
        LET named == {p[2] : p \in Here.pins}
            level == At(mem', <<"FIOPIN", Access.r[2]>>)
        IN /\ Access.r[1] = "FIOPIN" => level \intersect named = Access.set \intersect named
           /\ Access.r[1] \in {"FIOSET", "FIOCLR"} /\ Cardinality(named) = 1 =>
                (named \subseteq level <=> Access.r[1] = "FIOSET")
<1>1. prog \in KeepingTexts /\ [Next]_vars => (prog \in KeepingTexts)'
  BY TextStays
<1>2. (prog \in KeepingTexts => KeptInv) /\ prog \in KeepingTexts /\ [Next]_vars => [Level]_vars
  BY KeptIsLevel
<1>3. LevelsAsAsked <=> [][Level]_vars
  BY DEF LevelsAsAsked
<1> HIDE DEF Level
<1> QED
  BY <1>1, <1>2, <1>3, KeptIsTrue, PTL DEF Spec, PinsAsAsked
=============================================================================
