------------------------------- MODULE Texts --------------------------------
(***************************************************************************)
(* What the text of a program says by itself of what main has set up when  *)
(* it comes to a place, whatever interrupts come and whenever they come.   *)
(*                                                                         *)
(* A place is an access of a call of main.  Known gives for each place     *)
(* what is certain there; a text is safe if every access of main carries   *)
(* what is known on to the places that may follow, and if main at its      *)
(* place, and the handlers that may run there, only use what is known to   *)
(* be ready.  All of this is evaluated without running the program.        *)
(***************************************************************************)
EXTENDS Preempt

Code(t, c) == t.main[c].code

Mask == <<"PRIMASK", 0>>
Tick == <<"CTRL", 0>>
Nvic == <<"ISER", 0>>
Pconp == <<"PCONP", 0>>
Lcr(n) == <<"LCR", n>>
Vector(irq) == <<"VEC", irq>>

Writes(a) == a.op \in {"store", "modify"}
Jumps(a)  == a.op \in {"if", "else"}

\* The interrupts an access enables, and the bits of PCONP and of the vector table it sets.
Enables(a) ==
  IF Writes(a) /\ Cell(a.r) = Nvic /\ a.r[1] = "ISER" THEN a.set
  ELSE IF Writes(a) /\ a.r = Tick /\ 1 \in a.set THEN {-1} ELSE {}
Sets(a) == IF Writes(a) /\ (a.r = Pconp \/ a.r[1] = "VEC") THEN {a.r} \X a.set ELSE {}

\* The UARTs whose divisor latches an access opens and closes.
Opens(a)  == {n \in 0 .. 3 : Writes(a) /\ a.r = Lcr(n) /\ 7 \in a.set}
Closes(a) == {n \in 0 .. 3 : Writes(a) /\ a.r = Lcr(n) /\ 7 \notin a.set /\ (a.op = "store" \/ 7 \in a.clr)}

-----------------------------------------------------------------------------
\* No jump of the code leads over place j.
Straight(code, j) ==
  \A k \in 1 .. (j - 1) : Jumps(code[k]) => k + 1 + code[k].n <= j

\* What is known at place i of call c: bits that are set for good, interrupts that may
\* be enabled, UARTs whose latches may be open, and whether interrupts are masked.
SetFrom(code, last) == UNION {Sets(code[j]) : j \in {k \in 1 .. last : Sets(code[k]) # {} /\ Straight(code, k)}}
EnabledFrom(code, last) == UNION {Enables(code[j]) : j \in 1 .. last}

Known(t, c, i) ==
  LET code == Code(t, c)
      Calls == IF c < t.loop THEN 1 .. (c - 1) ELSE 1 .. Len(t.main)
  IN [sure |-> {Pconp} \X Reset[Pconp] \union SetFrom(code, i - 1)
                 \union UNION {SetFrom(Code(t, k), Len(Code(t, k))) : k \in 1 .. (c - 1)},
      may |-> EnabledFrom(code, i - 1) \union UNION {EnabledFrom(Code(t, k), Len(Code(t, k))) : k \in Calls},
      open |-> {n \in 0 .. 3 : \E j \in 1 .. (i - 1) :
                   n \in Opens(code[j]) /\ \A k \in (j + 1) .. (i - 1) : n \notin Closes(code[k])},
      masked |-> \E j \in 1 .. (i - 1) : code[j] = St(Mask, {0})
                                           /\ \A k \in (j + 1) .. (i - 1) : code[k].r # Mask]

\* The places that may follow place i of call c; a call that is over is followed by the
\* next one, the last by the first of the loop.
Following(t, c, i) ==
  LET code == Code(t, c)
      a == code[i]
      next == IF c = Len(t.main) THEN t.loop ELSE c + 1
      to == CASE a.op = "else" -> {i + 1 + a.n} [] a.op = "if" -> {i + 1, i + 1 + a.n} [] OTHER -> {i + 1}
  IN {IF k > Len(code) THEN <<next, 1>> ELSE <<c, k>> : k \in to}

-----------------------------------------------------------------------------
\* An access carries what is known before it on to what is known after it.
Carries(before, a, after) ==
  /\ \A f \in after.sure :
       \/ f \in Sets(a)
       \/ f \in before.sure /\ (Writes(a) /\ a.r = f[1] => a.op = "modify" /\ f[2] \notin a.clr)
  /\ before.may \union Enables(a) \subseteq after.may
  /\ (before.open \ Closes(a)) \union Opens(a) \subseteq after.open
  /\ after.masked => a = St(Mask, {0}) \/ (before.masked /\ ~(Writes(a) /\ a.r = Mask))

\* The access of a call finds its device powered and the latches of its UART closed.
FindsPower(call, a, known) ==
  LET kind == call.dev[1]
  IN kind \in DOMAIN Supply /\ a.r[1] \in Registers[kind] \union {"PCR", "ADDR", "DMACConfig"}
       => <<Pconp, Supply[kind][call.dev[2] + 1]>> \in known.sure
FindsLatchesClosed(a, known) ==
  a.r[1] \in {"THR", "RBR", "IER"} => a.r[2] \in (0 .. 3) \ known.open

\* The accesses of the handler of an interrupt, with the calls they are of.
HandlerAccesses(t, irq) ==
  UNION {UNION {{<<run[k], run[k].code[i]>> : i \in 1 .. Len(run[k].code)} : k \in 1 .. Len(run)} :
           run \in {t.irqs[irq][r] : r \in DOMAIN t.irqs[irq]}}

\* A handler sets nothing up.
SetsNothingUp(a) ==
  Writes(a) => Cell(a.r)[1] \notin {"PCONP", "VEC", "ISER", "LCR"} /\ (a.r = Tick => 1 \notin a.set)

\* What has to hold at place i of call c.
SafePlace(p, t, c, i) ==
  LET a == Code(t, c)[i]
      known == Known(t, c, i)
  IN /\ \A next \in Following(t, c, i) :
          /\ next[2] \in 1 .. Len(Code(t, next[1]))
          /\ Carries(known, a, Known(t, next[1], next[2]))
     /\ FindsPower(t.main[c], a, known) /\ FindsLatchesClosed(a, known)
     /\ MidLine(Code(t, c), [Start EXCEPT !.i = i]) => known.masked
     /\ \A irq \in known.may \intersect DOMAIN t.irqs :
          /\ <<Vector(irq), 0>> \in known.sure \/ (irq = -1 /\ t.main[c] = rflpc_sys_timer_set_callback)
          /\ \A h \in HandlerAccesses(t, irq) :
               /\ FindsPower(h[1], h[2], known) \/ (p = "timer" /\ c <= 4)
               /\ FindsLatchesClosed(h[2], known)

SafeMain(p, t) ==
  /\ Len(t.main) \in Nat /\ t.loop \in 1 .. Len(t.main)
  /\ ~Known(t, 1, 1).masked /\ Known(t, 1, 1).sure \subseteq {Pconp} \X Reset[Pconp]
  /\ \A c \in 1 .. Len(t.main) :
       /\ Len(Code(t, c)) \in Nat \ {0}
       /\ \A i \in 1 .. Len(Code(t, c)) : SafePlace(p, t, c, i)

SafeHandlers(t) ==
  \A irq \in DOMAIN t.irqs : \A r \in DOMAIN t.irqs[irq] :
    LET run == t.irqs[irq][r]
    IN run # << >> =>
         /\ Len(run) \in Nat \ {0}
         /\ \A k \in 1 .. Len(run) :
              /\ Len(run[k].code) \in Nat \ {0}
              /\ \A i \in 1 .. Len(run[k].code) :
                   /\ SetsNothingUp(run[k].code[i])
                   /\ Jumps(run[k].code[i]) =>
                        i + 1 + run[k].code[i].n \in 1 .. (Len(run[k].code) + 1)

SafeText(p, t) == SafeMain(p, t) /\ SafeHandlers(t)
SafeTexts == {p \in Programs : SafeText(p, Program[p])}

-----------------------------------------------------------------------------
\* Main and the handlers only use what main has set up before, whenever the interrupts
\* come: a device that has power, a UART whose divisor latches are closed, an interrupt
\* whose handler is installed (uart.c:99-184, interrupt.c:137-141), but for a tick that
\* rflpc_sys_timer_set_callback() lets in early and that stops the program there; and
\* the text of the program says so by itself, for any number of interrupts.
ReadyWhenUsed == prog \in SafeTexts /\ SetUpBefore
=============================================================================
