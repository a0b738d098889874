------------------------------ MODULE Drivers ------------------------------
(***************************************************************************)
(* The driver functions of the library as the register accesses they make, *)
(* and what each device may call its own.                                  *)
(*                                                                         *)
(* Pins are <<port, number>>.  Interrupt n has its vector in <<"VEC", n>>, *)
(* whose value 0 stands for the handler installed; PRIMASK bit 0 masks all *)
(* interrupts.  Timer 4 is the PWM block.  A character sent by a UART      *)
(* leaves no trace in memory, and the wait for a free transmitter is left  *)
(* out: the transmitter always gets free.                                  *)
(***************************************************************************)
EXTENDS Mmio, SequencesExt

\* A call: the device it is for, the pins given to it, the accesses it makes.
Call(dev, pins, code) == [dev |-> dev, pins |-> pins, code |-> code]

\* RFLPC_SET_BIT() and RFLPC_CLR_BIT()
SetBit(r, b) == <<Or(r, {b})>>
ClrBit(r, b) == <<AndNot(r, {b})>>

-----------------------------------------------------------------------------
(* Interrupts and boot *)

rflpc_irq_global_disable == <<St(<<"PRIMASK", 0>>, {0})>>
rflpc_irq_global_enable  == <<St(<<"PRIMASK", 0>>, {})>>
rflpc_irq_enable(irq)      == SetBit(<<"ISER", irq \div 32>>, irq % 32)
rflpc_irq_disable(irq)     == SetBit(<<"ICER", irq \div 32>>, irq % 32)
rflpc_irq_set_handler(irq) == <<St(<<"VEC", irq>>, {0})>>

Installed(irq) == rflpc_irq_set_handler(irq) \o rflpc_irq_enable(irq)

rflpc_irq_init ==
  Call(<<"irq", 0>>, {},
       rflpc_irq_global_disable \o <<St(<<"VTOR", 0>>, {0})>> \o rflpc_irq_global_enable)

FEED == <<St(<<"PLL0FEED", 0>>, {170}), St(<<"PLL0FEED", 0>>, {85})>>

PLL0CON  == <<"PLL0CON", 0>>
PLL0STAT == <<"PLL0STAT", 0>>
SCS      == <<"SCS", 0>>

\* The PLL, when it is in use, is disconnected, then turned off.
DisconnectPll == <<If(PLL0STAT, 24, 3)>> \o ClrBit(PLL0CON, 1) \o FEED
\* Mutant: the PLL is left on.
PllLeftOn == << >>

DisablePll    == ClrBit(PLL0CON, 0) \o FEED

\* The main oscillator, of 12 MHz, becomes the source.
UseOscillator ==
  ClrBit(SCS, 4) \o SetBit(SCS, 5) \o <<Wait(SCS, 6), Change(<<"CLKSRCSEL", 0>>, {0, 1}, {0})>>

PllLocked == <<Wait(PLL0STAT, 26)>>

\* PLL0CFG is 11, CCLKCFG 2, FLASHCFG 0x403A.
rflpc_clock_init ==
  Call(<<"clock", 0>>, {},
       rflpc_irq_global_disable \o DisconnectPll \o DisablePll \o UseOscillator
         \o <<St(<<"PLL0CFG", 0>>, BitsOf(11, 0, 5))>> \o FEED
         \o SetBit(PLL0CON, 0) \o FEED
         \o <<St(<<"CCLKCFG", 0>>, {1})>> \o PllLocked
         \o SetBit(PLL0CON, 1) \o FEED
         \o <<St(<<"FLASHCFG", 0>>, BitsOf(16442, 0, 15))>>
         \o rflpc_irq_global_enable)

-----------------------------------------------------------------------------
(* Pins, GPIO and LEDs *)

\* Mutant: the index is the port, as if a register held the 32 pins of one.
PinSetWholeRegister(p, function, mode, opendrain) ==
  Field(<<"PINSEL", p[1]>>, 2 * (p[2] % 16), 2, function)
    \o Field(<<"PINMODE", p[1]>>, 2 * (p[2] % 16), 2, mode) \o ClrBit(<<"PINMODE_OD", p[1]>>, p[2])

\* The open drain is that of the pin 16 below, when the pin is one of the upper half: pin is
\* still the place in PINSEL, but PINMODE_OD has a bit for each of the 32 pins.
rflpc_pin_set(p, function, mode, opendrain) ==
  LET idx == 2 * p[1] + (IF p[2] >= 16 THEN 1 ELSE 0)
      pin == p[2] % 16
      od == <<"PINMODE_OD", p[1]>>
  IN Field(<<"PINSEL", idx>>, 2 * pin, 2, function) \o Field(<<"PINMODE", idx>>, 2 * pin, 2, mode)
       \o (IF opendrain THEN SetBit(od, pin) ELSE ClrBit(od, pin))

\* Mutant: the mask is stored as given.
MaskedAsGiven(port, mask) == <<St(<<"FIOMASK", port>>, mask)>>

Masked(port, mask) == <<St(<<"FIOMASK", port>>, Word \ mask)>>

Gpio(pins, code) == Call(<<"gpio", 0>>, pins, code)

SetPin(p, val) ==
  Masked(p[1], {p[2]}) \o <<St(<<IF val THEN "FIOSET" ELSE "FIOCLR", p[1]>>, Word)>>

rflpc_gpio_set_pin(p) == Gpio({p}, SetPin(p, TRUE))
rflpc_gpio_clr_pin(p) == Gpio({p}, SetPin(p, FALSE))
rflpc_gpio_get_pin(p) == Gpio({p}, Masked(p[1], {p[2]}))

rflpc_gpio_set_pin_mode_input(p, mode) ==
  Gpio({p}, rflpc_pin_set(p, 0, mode, FALSE) \o ClrBit(<<"FIODIR", p[1]>>, p[2]))

rflpc_gpio_set_pin_mode_output(p, val) ==
  Gpio({p}, rflpc_pin_set(p, 0, 0, FALSE) \o SetPin(p, val) \o SetBit(<<"FIODIR", p[1]>>, p[2]))

OfPort(g, mask) == {<<g, b>> : b \in mask}

rflpc_gpio_set_pins_from_mask(g, mask) ==
  Gpio(OfPort(g, mask), Masked(g, mask) \o <<Or(<<"FIOSET", g>>, mask)>>)
rflpc_gpio_clr_pins_from_mask(g, mask) ==
  Gpio(OfPort(g, mask), Masked(g, mask) \o <<Or(<<"FIOCLR", g>>, mask)>>)

\* The caller gives the mask inverted here.
rflpc_gpio_set_val(g, val, mask) ==
  Gpio(OfPort(g, Word \ mask), <<St(<<"FIOMASK", g>>, mask), St(<<"FIOPIN", g>>, val)>>)

Led == <<18, 20, 21, 23>>
Leds == {Led[k] : k \in 1 .. 4}

rflpc_led_init ==
  Gpio(OfPort(1, Leds), FlattenSeq([k \in 1 .. 4 |-> rflpc_gpio_set_pin_mode_output(<<1, Led[k]>>, FALSE).code]))
rflpc_led_set(l) == rflpc_gpio_set_pins_from_mask(1, l)
rflpc_led_clr(l) == rflpc_gpio_clr_pins_from_mask(1, l)
rflpc_led_val(l) == rflpc_gpio_set_val(1, l, Word \ Leds)
rflpc_led_binary_value(v) == rflpc_led_val({Led[4 - b] : b \in BitsOf(v, 0, 4)})

-----------------------------------------------------------------------------
(* Timers, repetitive timer, system tick, PWM *)

Timer(t, code) == Call(<<"timer", t>>, {}, code)
Powered(t) == IF t < 2 THEN 1 + t ELSE 20 + t

rflpc_timer_enable(t)  == Timer(t, SetBit(<<"PCONP", 0>>, Powered(t)))

rflpc_timer_set_clock(t, divider) ==
  Timer(t, IF t < 2 THEN Field(<<"PCLKSEL0", 0>>, 2 * (t + 1), 2, divider)
                    ELSE Field(<<"PCLKSEL1", 0>>, 2 * (t + 4), 2, divider))
rflpc_timer_set_callback(t) == Timer(t, Installed(1 + t))
rflpc_timer_start(t) == Timer(t, SetBit(<<"TCR", t>>, 0))
rflpc_timer_stop(t)  == Timer(t, ClrBit(<<"TCR", t>>, 0))

rflpc_timer_reset(t) == Timer(t, SetBit(<<"TCR", t>>, 1) \o ClrBit(<<"TCR", t>>, 1))
rflpc_timer_set_pre_scale_register(t) == Timer(t, <<St(<<"PR", t>>, {0})>>)
rflpc_timer_set_pre_scale_counter(t) == Timer(t, <<St(<<"PC", t>>, {0})>>)
\* TC bit 0 stands for "the time waited for has passed".  A wait reads the counter,
\* then reads it again until it has gone on far enough.
TC(t) == <<"TC", t>>
wait == Timer(0, <<St(TC(0), {}), Wait(TC(0), 0)>>)
rflpc_timer_set_match_value(t, m) == Timer(t, <<St(<<"MR", 8 * t + m>>, {0})>>)
rflpc_timer_set_irq_on_match(t, m, options) ==
  Timer(t, Field(<<"MCR", t>>, 3 * m, 3, options))
rflpc_timer_reset_irq(t, m) == Timer(t, <<Or(<<"IR", t>>, {m})>>)

Rit(code) == Call(<<"rit", 0>>, {}, code)
\* Mutant: the power bit of timer 3 for the one of the repetitive timer.
RitEnableWrongBit == Rit(SetBit(<<"PCONP", 0>>, 23))

rflpc_rit_enable == Rit(SetBit(<<"PCONP", 0>>, 16))
rflpc_rit_set_callback ==
  Rit(<<St(<<"RIMASK", 0>>, {}), St(<<"RICOMPVAL", 0>>, {0}), Or(<<"RICTRL", 0>>, {1})>>
        \o Installed(29))
rflpc_rit_clear_pending_interrupt == Rit(SetBit(<<"RICTRL", 0>>, 0))

SysTick(code) == Call(<<"systick", 0>>, {}, code)
rflpc_sys_timer_init == SysTick(SetBit(<<"CTRL", 0>>, 0) \o SetBit(<<"CTRL", 0>>, 2))
rflpc_sys_timer_set_tick_period ==
  SysTick(ClrBit(<<"CTRL", 0>>, 0) \o <<St(<<"VAL", 0>>, {0}), St(<<"LOAD", 0>>, {0})>>
            \o SetBit(<<"CTRL", 0>>, 0))
rflpc_sys_timer_stop == SysTick(ClrBit(<<"CTRL", 0>>, 0))
rflpc_sys_timer_set_callback == SysTick(SetBit(<<"CTRL", 0>>, 1) \o rflpc_irq_set_handler(-1))

\* The channel of a pin, and the pin function that gives it.
PwmPins ==
  <<{<<1, 18>>, <<2, 0>>}, {<<1, 20>>, <<2, 1>>, <<3, 25>>}, {<<1, 21>>, <<2, 2>>, <<3, 26>>},
    {<<1, 23>>, <<2, 3>>}, {<<1, 24>>, <<2, 4>>}, {<<1, 26>>, <<2, 5>>}>>
PwmChannel(p) == CHOOSE c \in 1 .. 6 : p \in PwmPins[c]
PwmFunction(p) == [port \in 1 .. 3 |-> <<2, 1, 3>>[port]][p[1]]

Pwm(p, code) == Call(<<"pwm", PwmChannel(p)>>, {p}, code)
PCR == <<"PCR", 4>>
MR(m) == <<"MR", 32 + m>>

rflpc_pwm_init(p) ==
  Pwm(p, SetBit(<<"PCONP", 0>>, 6) \o Field(<<"PCLKSEL0", 0>>, 12, 2, 3)
           \o rflpc_pin_set(p, PwmFunction(p), 0, FALSE)
           \o <<St(<<"PR", 4>>, {0})>> \o SetBit(<<"MCR", 4>>, 1))
rflpc_pwm_enable(p)  == Pwm(p, SetBit(PCR, 8 + PwmChannel(p)))
rflpc_pwm_disable(p) == Pwm(p, ClrBit(PCR, 8 + PwmChannel(p)))

\* Channel 1 is always single edge.
rflpc_pwm_single_edge(p) ==
  LET c == PwmChannel(p)
  IN Pwm(p, (IF c = 1 THEN << >> ELSE ClrBit(PCR, c)) \o <<St(MR(c), {0})>>)
rflpc_pwm_double_edge(p) ==
  LET c == PwmChannel(p)
  IN Pwm(p, IF c = 1 THEN << >>
                     ELSE SetBit(PCR, c) \o <<St(MR(c - 1), {0}), St(MR(c), {0})>>)

PwmTimer(code) == Call(<<"pwm", 0>>, {}, code)
rflpc_pwm_start == PwmTimer(rflpc_timer_start(4).code)
rflpc_pwm_set_period ==
  LET period == <<St(MR(0), {0})>>
      running == rflpc_timer_stop(4).code \o period \o rflpc_timer_reset(4).code
                   \o rflpc_timer_start(4).code
  IN PwmTimer(<<If(<<"TCR", 4>>, 0, Len(running) + 1)>> \o running \o <<Else(Len(period))>> \o period)

-----------------------------------------------------------------------------
(* UART, SPI, ADC, DAC, DMA, I2C *)

UartPower(n) == CASE n = 0 -> 3 [] n = 2 -> 24 [] n = 3 -> 25
UartPins(n)  == CASE n = 0 -> {<<0, 2>>, <<0, 3>>} [] n = 2 -> {<<0, 10>>, <<0, 11>>}
                  [] n = 3 -> {<<0, 0>>, <<0, 1>>}
Rxd(n) == CASE n = 0 -> <<0, 3>> [] n = 2 -> <<0, 11>> [] n = 3 -> <<0, 1>>
Txd(n) == CASE n = 0 -> <<0, 2>> [] n = 2 -> <<0, 10>> [] n = 3 -> <<0, 0>>

Uart(n, code) == Call(<<"uart", n>>, UartPins(n), code)

\* At 96 MHz, with any divisors.  UART1 is refused.
rflpc_uart_init_ex(n) ==
  LET clock == CASE n = 0 -> Or(<<"PCLKSEL0", 0>>, {6, 7})
                 [] n = 2 -> Or(<<"PCLKSEL1", 0>>, {16, 17})
                 [] n = 3 -> Or(<<"PCLKSEL1", 0>>, {18, 19})
      function == IF n = 3 THEN 2 ELSE 1
  IN Uart(n, SetBit(<<"PCONP", 0>>, UartPower(n))
               \o <<clock, St(<<"LCR", n>>, {0, 1, 7}), St(<<"DLL", n>>, {0}), St(<<"DLM", n>>, {0}),
                    St(<<"FDR", n>>, {0}), St(<<"FCR", n>>, {0, 1, 2})>>
               \o rflpc_pin_set(Rxd(n), function, 0, FALSE)
               \o rflpc_pin_set(Txd(n), function, 0, FALSE)
               \o ClrBit(<<"LCR", n>>, 7))

rflpc_uart_init(n) == rflpc_uart_init_ex(n)
rflpc_uart_set_rx_callback(n) == Uart(n, Installed(5 + n) \o SetBit(<<"IER", n>>, 0))
rflpc_uart_putchar(n) == Uart(n, <<St(<<"THR", n>>, {})>>)
\* Called when a byte is there; the read takes it.
rflpc_uart_getchar(n) == Uart(n, <<St(<<"RBR", n>>, {})>>)

\* Mutant: the interrupts are not masked.
printfUnmasked == Uart(0, rflpc_uart_putchar(0).code \o rflpc_uart_putchar(0).code)

\* A format whose characters are two; UART0 is the default output.
printf == Uart(0, rflpc_irq_global_disable \o rflpc_uart_putchar(0).code \o rflpc_uart_putchar(0).code
                    \o rflpc_irq_global_enable)

SpiPins(port) == IF port = 0 THEN <<<<0, 15>>, <<0, 17>>, <<0, 18>>, <<0, 16>>>>
                             ELSE <<<<0, 7>>, <<0, 8>>, <<0, 9>>, <<0, 6>>>>
Spi(port, code) == Call(<<"spi", port>>, {SpiPins(port)[k] : k \in 1 .. 4}, code)

rflpc_spi_init(port, master, divider, size, polarity_phase) ==
  LET cr0 == <<"CR0", port>>
      clock == IF port = 0
                 THEN SetBit(<<"PCONP", 0>>, 21) \o Field(<<"PCLKSEL1", 0>>, 10, 2, divider)
                 ELSE SetBit(<<"PCONP", 0>>, 10) \o Field(<<"PCLKSEL0", 0>>, 20, 2, divider)
  IN Spi(port,
       clock \o FlattenSeq([k \in 1 .. 4 |-> rflpc_pin_set(SpiPins(port)[k], 2, 0, FALSE)])
         \o <<St(cr0, BitsOf(size - 1, 0, 4))>>
         \o (IF polarity_phase % 2 = 1 THEN SetBit(cr0, 7) ELSE << >>)
         \o (IF polarity_phase >= 2 THEN SetBit(cr0, 6) ELSE << >>)
         \o <<St(<<"CR1", port>>, {1})>>
         \o (IF master THEN <<St(<<"CPSR", port>>, {0})>> \o Field(cr0, 8, 8, 1)
                       ELSE SetBit(<<"CR1", port>>, 2)))
\* The queues of the block are not modelled: one word is written, one is there.
rflpc_spi_write(port) == Spi(port, <<St(<<"DR", port>>, {})>>)
rflpc_spi_read(port)  == Spi(port, <<St(<<"DR", port>>, {})>>)
rflpc_spi_set_rx_callback(port) == Spi(port, Installed(14 + port) \o SetBit(<<"IMSC", port>>, 2))

AdcPins == <<<<0, 23>>, <<0, 24>>, <<0, 25>>, <<0, 26>>, <<1, 30>>, <<1, 31>>, <<0, 3>>, <<0, 2>>>>
pin_to_channel(p) == CHOOSE c \in 0 .. 7 : AdcPins[c + 1] = p
ADCR == <<"ADCR", 0>>
Adc(pins, code) == Call(<<"adc", 0>>, pins, code)

AdcClock(divider) ==
  SetBit(<<"PCONP", 0>>, 12) \o Field(<<"PCLKSEL0", 0>>, 24, 2, 3) \o Field(ADCR, 8, 8, divider)

rflpc_adc_init(p, divider) ==
  Adc({p}, rflpc_pin_set(p, 3, 0, FALSE) \o AdcClock(divider) \o SetBit(ADCR, pin_to_channel(p))
             \o SetBit(ADCR, 21))
\* rflpc_adc_burst_control.interrupt_handler: bit 0 stands for a handler
BurstHandler == <<"interrupt_handler", 0>>
rflpc_adc_burst_init(divider, handler) ==
  Adc({}, AdcClock(divider)
            \o (IF handler THEN <<St(BurstHandler, {0})>> \o Installed(22) ELSE << >>)
            \o <<St(<<"enabled_channels", 0>>, {})>>)
\* The number of the channel is added to the mask, not its bit.
rflpc_adc_burst_enable(p) ==
  Adc({p}, rflpc_pin_set(p, 3, 0, FALSE) \o SetBit(ADCR, pin_to_channel(p))
             \o <<Or(<<"enabled_channels", 0>>, BitsOf(pin_to_channel(p), 0, 8))>>)

\* The search looks at bits 7, 5, 3 and 1 for the channels 7, 6, 5 and 4; the
\* mask is then 0, which ends it at 3.
rflpc_adc_burst_start ==
  LET mask == <<"enabled_channels", 0>>
      found(c) == SetBit(<<"ADINTEN", 0>>, c)
      search == <<If(mask, 7, 2)>> \o found(7) \o <<Else(10), If(mask, 5, 2)>> \o found(6)
                  \o <<Else(7), If(mask, 3, 2)>> \o found(5) \o <<Else(4), If(mask, 1, 2)>> \o found(4)
                  \o <<Else(1)>> \o found(3)
  IN Adc({}, <<If(BurstHandler, 0, Len(search))>> \o search \o SetBit(ADCR, 21) \o SetBit(ADCR, 16))

\* Mutant: the START field gets "no start".
AdcSampleStopped == Adc({}, Field(ADCR, 24, 3, 0))

rflpc_adc_sample == Adc({}, Field(ADCR, 24, 3, 1))
\* Waits for a result; reading it clears DONE.
rflpc_adc_read(p) ==
  LET data == <<"ADDR", pin_to_channel(p)>>
  IN Adc({p}, <<Wait(data, 31), St(data, {})>>)

rflpc_dac_init(divider) ==
  Call(<<"dac", 0>>, {<<0, 26>>}, rflpc_pin_set(<<0, 26>>, 2, 0, FALSE) \o Field(<<"PCLKSEL0", 0>>, 22, 2, divider))
rflpc_dac_write(value) == Call(<<"dac", 0>>, {}, Field(<<"DACR", 0>>, 6, 10, value))

Dma(ch, code) == Call(<<"dma", ch>>, {}, code)
\* A register of one of the eight channels.
Chan(name, ch) == <<name, ch>>
rflpc_dma_init == Dma(0, SetBit(<<"PCONP", 0>>, 29) \o <<St(<<"DMACConfig", 0>>, {0})>>)
rflpc_dma_set_channel_control(ch) == <<St(Chan("Control", ch), {0, 26, 27})>>
rflpc_dma_set_channel_config(ch)  == <<St(Chan("Config", ch), {0})>>
rflpc_dma_set_channel_lli(ch)     == <<St(Chan("LLI", ch), {})>>

\* A busy channel is left alone.
rflpc_dma_start(ch) ==
  LET set_up == <<St(Chan("SrcAddr", ch), {0}), St(Chan("DestAddr", ch), {0}),
                  Or(<<"DMACIntTCClear", 0>>, {ch}), Or(<<"DMACIntErrClr", 0>>, {ch})>>
                  \o rflpc_dma_set_channel_lli(ch) \o rflpc_dma_set_channel_control(ch)
                  \o rflpc_dma_set_channel_config(ch)
  IN Dma(ch, <<If(<<"DMACEnbldChns", 0>>, ch, 1), Else(Len(set_up))>> \o set_up)

\* _config: the pins of each port and their function, its clock and power bits.
I2cConfig ==
  <<[sda |-> <<0, 27>>, scl |-> <<0, 28>>, function |-> 1, pclksel |-> <<"PCLKSEL0", 0>>, pclk |-> 14, pconp |-> 7],
    [sda |-> <<0, 0>>, scl |-> <<0, 1>>, function |-> 3, pclksel |-> <<"PCLKSEL1", 0>>, pclk |-> 6, pconp |-> 19],
    [sda |-> <<0, 10>>, scl |-> <<0, 11>>, function |-> 2, pclksel |-> <<"PCLKSEL1", 0>>, pclk |-> 20, pconp |-> 26]>>

I2c(port, code) ==
  Call(<<"i2c", port>>, {I2cConfig[port + 1].sda, I2cConfig[port + 1].scl}, code)

\* At 96 MHz; not as a slave.
rflpc_i2c_init(port) ==
  LET c == I2cConfig[port + 1]
  IN I2c(port, SetBit(<<"PCONP", 0>>, c.pconp) \o Field(c.pclksel, c.pclk, 2, 3)
                 \o <<St(<<"I2SCLL", port>>, {60}), St(<<"I2SCLH", port>>, {60})>>
                 \o rflpc_pin_set(c.sda, c.function, 2, TRUE) \o rflpc_pin_set(c.scl, c.function, 2, TRUE)
                 \o <<St(<<"I2CONCLR", port>>, Word), St(<<"I2CONSET", port>>, {6})>>)

-----------------------------------------------------------------------------
(* The Ethernet block *)

EthPins == {<<1, n>> : n \in {0, 1, 4, 8, 9, 10, 14, 15, 16, 17}}
Eth(code) == Call(<<"eth", 0>>, EthPins, code)

_eth_setup_pins ==
  FlattenSeq([k \in 1 .. 10 |-> rflpc_pin_set(<<1, <<0, 1, 4, 8, 9, 10, 14, 15, 16, 17>>[k]>>, 1, 0, FALSE)])

\* The PHY has address 1; its register of number r is asked for by MADR.
MADR(r) == <<St(<<"MADR", 0>>, {8} \union BitsOf(r, 0, 5))>>
MIND == <<"MIND", 0>>
MRDD == <<"MRDD", 0>>

_write_to_phy_register(r, v) == MADR(r) \o <<St(<<"MWTD", 0>>, v), WaitOff(MIND, 0)>>
_read_from_phy_register(r) ==
  MADR(r) \o <<St(<<"MCMD", 0>>, {0}), WaitOff(MIND, 0), WaitOff(MIND, 2), St(<<"MCMD", 0>>, {})>>

\* The MAC, with its registers: 100 Mbps, full duplex, the MIIM clock divided by 40.
EthMac ==
  <<St(<<"MAC1", 0>>, {15}), St(<<"Command", 0>>, {3}), St(<<"MAC1", 0>>, {}), St(<<"MAC2", 0>>, {0, 4, 5}),
    St(<<"IPGT", 0>>, BitsOf(21, 0, 7)), St(<<"IPGR", 0>>, BitsOf(18, 0, 7) \union BitsOf(12, 8, 7)),
    St(<<"CLRT", 0>>, BitsOf(15, 0, 4) \union BitsOf(55, 8, 6)), St(<<"SUPP", 0>>, {8}), St(<<"MAXF", 0>>, {0}),
    St(<<"MCFG", 0>>, BitsOf(9, 2, 4) \union {15})>>
    \o ClrBit(<<"MCFG", 0>>, 15) \o <<St(<<"Command", 0>>, {7, 9, 10})>>

\* Reset, then read until the reset bit of the control register, 0, falls.
EthPhy ==
  LET read == _read_from_phy_register(0)
  IN _write_to_phy_register(0, {15}) \o read \o <<If(MRDD, 15, 1), Else(-(Len(read) + 2))>>

rflpc_eth_init == Eth(_eth_setup_pins \o SetBit(<<"PCONP", 0>>, 30) \o EthMac \o EthPhy)

rflpc_eth_set_mac_address == Eth(<<St(<<"SA0", 0>>, {0}), St(<<"SA1", 0>>, {0}), St(<<"SA2", 0>>, {0})>>)

rflpc_eth_set_irq_handler == Eth(rflpc_irq_disable(28) \o Installed(28))

rflpc_eth_irq_enable_set(irqs) == Eth(<<St(<<"IntEnable", 0>>, irqs)>>)
rflpc_eth_irq_clear == Eth(<<St(<<"IntClear", 0>>, {})>>)
=============================================================================
