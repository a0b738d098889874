------------------------------ MODULE Preempt ------------------------------
(***************************************************************************)
(* A program that uses the drivers from main and from interrupt handlers.  *)
(*                                                                         *)
(* One access at a time, main makes the calls of its list.  Between any    *)
(* two accesses an enabled interrupt may be taken; its handler runs to its *)
(* end before main goes on, and no other interrupt is taken meanwhile: the *)
(* library leaves all interrupts at the same priority.                     *)
(***************************************************************************)
EXTENDS Samples

CONSTANTS
  Programs, \* the programs, by name
  MaxIrq    \* bound: interrupts taken in one run

ASSUME MaxIrqIsNat == MaxIrq \in Nat

VARIABLES
  prog,    \* the program that runs
  mem,     \* the registers that are not 0
  pc,      \* the call main is at
  at,      \* where main is in it
  isr,     \* << >>, or <<the handler that runs>>: irq, run, call, place
  stopped, \* a handler of the library has stopped the program for good
  left     \* interrupts that may still be taken

vars == <<prog, mem, pc, at, isr, stopped, left>>

Program ==
  [boot |-> Boot, warm |-> Boot, timer |-> TimerSample, pwm |-> PwmSample,
   adc_burst |-> AdcBurstSample, adc_poll |-> AdcPollSample, adc_simple |-> AdcSimpleSample, spi |-> SpiSample,
   ethernet |-> EthernetSample, basic |-> BasicTests, dma |-> DmaSample, uarts |-> UartsSample,
   leds |-> LedsSample, gpio_input |-> GpioInputSample, dac |-> DacSample,
   spi_leds |-> SpiLedsSample, rand |-> RandSample, memcpy |-> MemcpySample, memset |-> MemsetSample,
   i2c |-> I2cSample, lm75b |-> Lm75bSample, two_uarts |-> MultipleUartsSample, link |-> TestEthernet,
   buses |-> Buses]

Main    == Program[prog].main
Handled == DOMAIN Program[prog].irqs
Runs(irq) == Program[prog].irqs[irq]

\* The call a handler is in.
Within(h) == Runs(h.irq)[h.run][h.call]

\* What runs: the call, and the place in it.
Here  == IF isr = << >> THEN Main[pc] ELSE Within(isr[1])
Place == IF isr = << >> THEN at ELSE isr[1].at
Access == Here.code[Place.i]

-----------------------------------------------------------------------------
\* PCONP after a reset: timers 0 and 1, UART 0 and 1, PWM1, I2C0, SPI, RTC, SSP1, I2C1, SSP0, I2C2.
Reset ==
  [r \in {"PCONP", "FLASHCFG", "RICTRL"} \X {0} |->
     CASE r[1] = "PCONP" -> {1, 2, 3, 4, 6, 7, 8, 9, 10, 15, 19, 21, 26}
       [] r[1] = "FLASHCFG" -> {1, 3, 4, 5, 12, 13}
       [] r[1] = "RICTRL" -> {2, 3}]

\* A program the boot loader of the board starts finds the PLL in use.
PllInUse ==
  Put(Put(Put(Put(Reset, <<"PLL0CON", 0>>, {0, 1}), <<"PLL0STAT", 0>>, {24, 25, 26}),
          <<"SCS", 0>>, {5, 6}), <<"CLKSRCSEL", 0>>, {0})
Began(p) == IF p = "warm" THEN PllInUse ELSE Reset

Init ==
  /\ prog \in Programs
  /\ mem = Began(prog)
  /\ pc = 1
  /\ at = Start
  /\ isr = << >>
  /\ stopped = FALSE
  /\ left = MaxIrq

-----------------------------------------------------------------------------
MainStep ==
  /\ isr = << >> /\ ~stopped
  /\ LET code == Main[pc].code
         to == Moved(code, at, mem)
     IN /\ mem' = Left(code, at, mem)
        /\ IF Over(code, to)
             THEN /\ at' = Start
                  /\ pc' = IF pc = Len(Main) THEN Program[prog].loop ELSE pc + 1
             ELSE /\ at' = to
                  /\ UNCHANGED pc
  /\ UNCHANGED <<prog, isr, stopped, left>>

\* A device asks for its interrupt: a timer for a match it holds, the ADC for a
\* result; bytes and frames may come at any time.
Asked(irq) ==
  CASE irq = -1 -> {0, 1} \subseteq At(mem, <<"CTRL", 0>>)
    [] irq \in 1 .. 4 -> \E m \in At(mem, <<"IR", irq - 1>>) : 3 * m \in At(mem, <<"MCR", irq - 1>>)
    [] irq \in 5 .. 8 -> 0 \in At(mem, <<"IER", irq - 5>>)
    [] irq \in 14 .. 15 -> 2 \in At(mem, <<"IMSC", irq - 14>>)
    [] irq = 22 -> \E c \in 0 .. 7 : 31 \in At(mem, <<"ADDR", c>>)
    [] irq = 28 -> At(mem, <<"IntEnable", 0>>) # {}
    [] OTHER -> {2, 3} \subseteq At(mem, <<"RICTRL", 0>>)

\* Taken now: the system tick needs no NVIC enable.
Taken(irq) ==
  /\ At(mem, <<"PRIMASK", 0>>) = {}
  /\ irq = -1 \/ irq \in At(mem, <<"ISER", 0>>)
  /\ Asked(irq)

\* The handler of the sample runs, one of its ways.
TakenBySample(irq) ==
  /\ At(mem, <<"VEC", irq>>) # {}
  /\ isr' \in {<<[irq |-> irq, run |-> r, call |-> 1, at |-> Start]>> :
                r \in {q \in DOMAIN Runs(irq) : Runs(irq)[q] # << >>}}
               \union {<< >> : q \in {q \in DOMAIN Runs(irq) : Runs(irq)[q] = << >>}}
  /\ UNCHANGED stopped

\* The vector table still has the handler of the library: with RFLPC_IRQ_DEBUG_ENABLE, as
\* the library is configured, it blinks the LEDs for ever (what it prints first and the
\* LEDs are left out).
TakenByDefault(irq) ==
  /\ At(mem, <<"VEC", irq>>) = {}
  /\ stopped' = TRUE
  /\ UNCHANGED isr

Enter(irq) ==
  /\ isr = << >> /\ ~stopped
  /\ left > 0
  /\ Taken(irq)
  /\ left' = left - 1
  /\ TakenBySample(irq) \/ TakenByDefault(irq)
  /\ UNCHANGED <<prog, mem, pc, at>>

\* The loop of the default handlers.
Blinks == stopped /\ UNCHANGED vars

HandlerStep ==
  /\ isr # << >>
  /\ LET h == isr[1]
         code == Within(h).code
         to == Moved(code, h.at, mem)
     IN /\ mem' = Left(code, h.at, mem)
        /\ isr' = IF ~Over(code, to) THEN <<[h EXCEPT !.at = to]>>
                  ELSE IF h.call < Len(Runs(h.irq)[h.run])
                         THEN <<[irq |-> h.irq, run |-> h.run, call |-> h.call + 1, at |-> Start]>>
                         ELSE << >>
  /\ UNCHANGED <<prog, pc, at, stopped, left>>

-----------------------------------------------------------------------------
(* The hardware *)

SetByHardware(r, b) ==
  /\ b \notin At(mem, r)
  /\ mem' = Put(mem, r, At(mem, r) \union {b})
  /\ UNCHANGED <<prog, pc, at, isr, stopped, left>>

\* A timer that runs meets a match register that it looks at; timer 3 is the one
\* the samples set matches of.
Match ==
  \E m \in 0 .. 2 :
    /\ 0 \in At(mem, <<"TCR", 3>>)
    /\ 3 * m \in At(mem, <<"MCR", 3>>)
    /\ SetByHardware(<<"IR", 3>>, m)

\* The oscillator and the PLL get ready.
OscillatorReady == 5 \in At(mem, <<"SCS", 0>>) /\ SetByHardware(<<"SCS", 0>>, 6)
PllLocks == 24 \in At(mem, <<"PLL0STAT", 0>>) /\ SetByHardware(<<"PLL0STAT", 0>>, 26)

\* The ADC, powered up, converts a channel in burst mode or when asked to.
Converts(c) ==
  /\ {c, 21} \subseteq At(mem, ADCR)
  /\ {16, 24} \intersect At(mem, ADCR) # {}
  /\ SetByHardware(<<"ADDR", c>>, 31)

\* Timer 0, powered and running, counts.
TimePasses ==
  /\ 0 \in At(mem, <<"TCR", 0>>) /\ 1 \in At(mem, <<"PCONP", 0>>)
  /\ SetByHardware(TC(0), 0)

\* A MIIM cycle ends: the value asked for is in MRDD, or is in the PHY.
MiimDone ==
  /\ At(mem, MIND) # {}
  /\ mem' = Put(IF 2 \in At(mem, MIND) THEN Put(mem, MRDD, At(mem, <<"PHY", 0>>))
                                       ELSE Put(mem, <<"PHY", 0>>, At(mem, <<"MWTD", 0>>)),
                MIND, {})
  /\ UNCHANGED <<prog, pc, at, isr, stopped, left>>

\* The PHY ends its reset.
PhyReady ==
  /\ 15 \in At(mem, <<"PHY", 0>>)
  /\ mem' = Put(mem, <<"PHY", 0>>, At(mem, <<"PHY", 0>>) \ {15})
  /\ UNCHANGED <<prog, pc, at, isr, stopped, left>>

\* A DMA transfer ends.
Copied(ch) ==
  /\ ch \in At(mem, <<"DMACEnbldChns", 0>>)
  /\ mem' = Put(Put(mem, <<"DMACEnbldChns", 0>>, At(mem, <<"DMACEnbldChns", 0>>) \ {ch}),
                <<"Config", ch>>, {})
  /\ UNCHANGED <<prog, pc, at, isr, stopped, left>>

Hardware == Match \/ OscillatorReady \/ PllLocks \/ (\E c \in 4 .. 5 : Converts(c)) \/ Copied(0)
              \/ TimePasses \/ MiimDone \/ PhyReady

Next ==
  \/ MainStep
  \/ \E irq \in Handled : Enter(irq)
  \/ HandlerStep
  \/ Blinks
  \/ Hardware

\* The processor runs, and the devices waited for do their work.
Fairness ==
  /\ WF_vars(MainStep) /\ WF_vars(HandlerStep)
  /\ WF_vars(OscillatorReady) /\ WF_vars(PllLocks)
  /\ \A c \in 4 .. 5 : WF_vars(Converts(c))
  /\ WF_vars(Copied(0)) /\ WF_vars(TimePasses) /\ WF_vars(MiimDone) /\ WF_vars(PhyReady)

Spec == Init /\ [][Next]_vars /\ Fairness

-----------------------------------------------------------------------------
(* What each device may call its own (user manual, p. 56 and p. 63 for the  *)
(* clocks and the power, chapter 8 for the pins, chapter 6 for the          *)
(* interrupts).                                                             *)

PinBits(p) ==
  LET half == 2 * p[1] + p[2] \div 16
      pos == 2 * (p[2] % 16)
  IN {<<r, half>> : r \in {"PINSEL", "PINMODE"}} \X {pos, pos + 1}
       \union {<<r, p[1]>> : r \in {"PINMODE_OD", "FIODIR", "FIOPIN"}} \X {p[2]}
       \union {<<"FIOMASK", p[1]>>} \X Word

\* The fault of rflpc_pin_set(): for a pin of the upper half of a port, it writes the
\* open-drain bit of another pin, the one 16 below (pinconf.c:34-48).
OpenDrainOfOther(p) == {<<<<"PINMODE_OD", p[1]>>, k>> : k \in {p[2] - 16} \intersect Word}

Bits(name, n, bits) == {<<name, n>>} \X bits
Power(b) == Bits("PCONP", 0, {b})
Clock0(pos) == Bits("PCLKSEL0", 0, {pos, pos + 1})
Clock1(pos) == Bits("PCLKSEL1", 0, {pos, pos + 1})
Vectors(irqs) == UNION {Bits("ISER", 0, {q}) \union Bits("VEC", q, {0}) : q \in irqs}
Ram(name) == Bits(name, 0, Word)

SharedBits ==
  [timer |-> <<Power(1) \union Clock0(2) \union Vectors({1}), Power(2) \union Clock0(4) \union Vectors({2}),
               Power(22) \union Clock1(12) \union Vectors({3}), Power(23) \union Clock1(14) \union Vectors({4})>>,
   uart |-> <<Power(3) \union Clock0(6) \union Vectors({5}), {},
              Power(24) \union Clock1(16) \union Vectors({7}), Power(25) \union Clock1(18) \union Vectors({8})>>,
   spi |-> <<Power(21) \union Clock1(10) \union Vectors({14}), Power(10) \union Clock0(20) \union Vectors({15})>>,
   pwm |-> [c \in 1 .. 7 |-> Power(6) \union Clock0(12) \union Bits("PCR", 4, {c - 1, c + 7})
                               \union Bits("MR", 32 + c - 1, {0}) \union Bits("MR", 32 + c - 2, {0})
                               \union Bits("PR", 4, {0}) \union Bits("MCR", 4, {1}) \union Bits("TCR", 4, {0, 1})],
   adc |-> <<Power(12) \union Clock0(24) \union Vectors({22}) \union Ram("enabled_channels") \union Ram("interrupt_handler")
               \union UNION {Bits("ADDR", c, Word) : c \in 0 .. 7}>>,
   dac |-> <<Clock0(22)>>, gpio |-> <<{}>>, irq |-> <<{}>>, clock |-> <<{}>>,
   dma |-> <<Power(29) \union Bits("DMACConfig", 0, {0}) \union Bits("DMACEnbldChns", 0, {0})>>,
   rit |-> <<Power(16) \union Vectors({29})>>, systick |-> <<Vectors({-1})>>, eth |-> <<Power(30) \union Vectors({28})>>,
   i2c |-> <<Power(7) \union Clock0(14), Power(19) \union Clock1(6), Power(26) \union Clock1(20)>>]

Registers ==
  [timer |-> {"TCR", "PR", "PC", "TC", "MCR", "IR", "MR"}, uart |-> {"LCR", "DLL", "DLM", "FDR", "FCR", "IER", "THR", "RBR"},
   spi |-> {"CR0", "CR1", "CPSR", "IMSC", "DR"}, pwm |-> {}, adc |-> {"ADCR", "ADINTEN"}, dac |-> {"DACR"},
   gpio |-> {}, irq |-> {"VTOR"},
   clock |-> {"PLL0CON", "PLL0CFG", "PLL0FEED", "PLL0STAT", "SCS", "CLKSRCSEL", "CCLKCFG", "FLASHCFG"},
   dma |-> {"SrcAddr", "DestAddr", "LLI", "Control", "Config"}, rit |-> {"RIMASK", "RICOMPVAL", "RICTRL"},
   systick |-> {"CTRL", "VAL", "LOAD"}, i2c |-> {"I2SCLL", "I2SCLH", "I2CONCLR", "I2CONSET"},
   eth |-> {"IntEnable", "IntClear", "MAC1", "MAC2", "Command", "IPGT", "IPGR", "CLRT", "SUPP", "MAXF", "MCFG",
            "MADR", "MWTD", "MCMD", "MIND", "MRDD", "SA0", "SA1", "SA2"}]

\* The instance a register belongs to: a timer has 8 numbers for its match registers.
InstanceOf(cell) == IF cell[1] = "MR" THEN cell[2] \div 8 ELSE cell[2]

Owns(call, bit) ==
  \/ bit[1] = <<"PRIMASK", 0>>
  \/ bit[1][1] \in Registers[call.dev[1]] /\ InstanceOf(bit[1]) = call.dev[2]
  \/ bit \in SharedBits[call.dev[1]][call.dev[2] + 1]
  \/ \E p \in call.pins : bit \in PinBits(p) \union OpenDrainOfOther(p)

\* A step of main or of a handler, by what it leaves of the place it is at.
Executes == <<pc, at, isr>>' # <<pc, at, isr>> /\ left' = left

-----------------------------------------------------------------------------
TypeOK ==
  /\ prog \in Programs
  /\ pc \in 1 .. Len(Main)
  /\ at.i \in 1 .. Len(Main[pc].code)
  /\ left \in 0 .. MaxIrq
  /\ stopped \in BOOLEAN
  /\ isr # << >> =>
       /\ isr[1].irq \in Handled
       /\ isr[1].at.i \in 1 .. Len(Within(isr[1]).code)
  /\ \A c \in DOMAIN mem : mem[c] # {}

\* The bits a handler changed since main loaded the register it is about to store.
Meanwhile ==
  IF isr = << >> /\ Access.op = "modify" /\ at.l # << >>
    THEN LET now == Load(mem, Access.r)
         IN {Cell(Access.r)} \X ((now \ at.l[1]) \union (at.l[1] \ now))
    ELSE {}

\* What belongs to another device stays as it is, but for one fault.  A driver call
\* changes the bits of its own device and of the pins it is given, and, for a pin from
\* 16 on, the open-drain bit of the pin 16 below, which may be another device's: in
\* program buses, the SPI turns off the open drain of the I2C bus beside it
\* (pinconf.c:34-48); no other bit of the registers it shares with other devices changes;
\* and what a handler changes in the middle of a "|=" or "&=" of main is not undone by
\* main's store (pinconf.c:31-49, timer.c:43-59).  PCR is
\* the exception: the PWM sample switches outputs from a handler while main switches
\* others on.
Isolated == \A bit \in Diff(mem, mem') \ Meanwhile : Owns(Here, bit)
NothingUndone ==
  Access.r # PCR =>
    Diff(mem, mem') \intersect Meanwhile \subseteq {Cell(Access.r)} \X (Access.clr \union Access.set)
BitsKept == [][Executes => Isolated /\ NothingUndone]_vars

\* A handler is in the vector table by the time its interrupt can be taken; the
\* system tick is the exception: rflpc_sys_timer_set_callback() enables it before it
\* installs the handler (sys_tick_timer.h:69-71), and a tick in between, but no other
\* interrupt anywhere, stops the program in the default handler.
SettingTick == Main[pc] = rflpc_sys_timer_set_callback
HandlerInstalled ==
  /\ \A irq \in Handled : Taken(irq) => At(mem, <<"VEC", irq>>) # {} \/ (irq = -1 /\ SettingTick)
  /\ stopped => SettingTick

\* The registers of a device are used when it has power.  The timer sample is the
\* exception: its serial handler may use timer 3 until call 4 of main has powered it.
Supply == [timer |-> <<1, 2, 22, 23>>, uart |-> <<3, 4, 24, 25>>, spi |-> <<21, 10>>, pwm |-> [c \in 1 .. 7 |-> 6],
           adc |-> <<12>>, dma |-> <<29>>, rit |-> <<16>>, eth |-> <<30>>, i2c |-> <<7, 19, 26>>]
PoweredWhenUsed ==
  LET kind == Here.dev[1]
  IN kind \in DOMAIN Supply /\ Access.r[1] \in Registers[kind] \union {"PCR", "ADDR", "DMACConfig"}
       => \/ Supply[kind][Here.dev[2] + 1] \in At(mem, <<"PCONP", 0>>)
          \/ prog = "timer" /\ isr # << >> /\ pc <= 4

\* The registers of the data and of the interrupt enables of a UART share their
\* addresses with the divisor latches: they are used when LCR bit 7 is 0 only.
DataNotDivisor ==
  Access.r[1] \in {"THR", "RBR", "IER"} => 7 \notin At(mem, <<"LCR", Access.r[2]>>)

\* Main and the handlers only use what main has set up before: a device that has power,
\* a UART whose divisor latches are closed, an interrupt whose handler is installed.
SetUpBefore == TypeOK /\ HandlerInstalled /\ PoweredWhenUsed /\ DataNotDivisor

\* The lines two calls of printf() send are not mixed: when main is between two
\* characters of a line, no handler sends one.
MidLine(code, x) == x.i > 1 /\ code[x.i].r[1] = "THR" /\ code[x.i - 1].r[1] = "THR"
LinesAreWhole ==
  isr # << >> /\ MidLine(Main[pc].code, at) => Within(isr[1]).code[isr[1].at.i].r[1] # "THR"

\* The pins a GPIO call names get the level it asks for.
LevelsAsAsked ==
  [][Executes /\ Here.dev[1] = "gpio" /\ (Access.op = "modify" => Place.l # << >>) =>
       LET named == {p[2] : p \in Here.pins}
           level == At(mem', <<"FIOPIN", Access.r[2]>>)
       IN /\ Access.r[1] = "FIOPIN" => level \intersect named = Access.set \intersect named
          /\ Access.r[1] \in {"FIOSET", "FIOCLR"} /\ Cardinality(named) = 1 =>
               (named \subseteq level <=> Access.r[1] = "FIOSET")]_vars

\* The processor never runs from a PLL without lock or without a source, and the PLL
\* keeps its setting and its source while it is connected, also when the boot loader
\* has left it running (clock.c:66-125).
PllIsSafe ==
  LET stat == At(mem, <<"PLL0STAT", 0>>)
  IN 25 \in stat => {24, 26} \subseteq stat /\ 6 \in At(mem, <<"SCS", 0>>)
PllUsedRight ==
  [][/\ PllIsSafe
     /\ 24 \in At(mem, <<"PLL0STAT", 0>>) =>
          \A r \in {"PLL0CFG", "CLKSRCSEL"} : At(mem', <<r, 0>>) = At(mem, <<r, 0>>)]_vars

\* Every program gets through its set-up and goes round its loop: no wait for a device
\* lasts for ever, and no handler keeps the processor.  A program is left where it is only
\* if an interrupt stopped it in a default handler: by HandlerInstalled a system tick that
\* comes inside rflpc_sys_timer_set_callback(), which only the basic tests call.
LoopGoesOn == (<>stopped) \/ []<>(isr = << >> /\ pc = Len(Main))
=============================================================================
