------------------------------ MODULE Samples ------------------------------
(***************************************************************************)
(* The sample programs as the driver calls they make: main, up to the loop *)
(* it ends in, and for each interrupt the runs its handler can make.       *)
(***************************************************************************)
EXTENDS Drivers, TLC

\* A program goes on at call number loop when it has made its last call.
Of(main, loop, irqs) == [main |-> main, loop |-> loop, irqs |-> irqs]

\* wfi, a delay, a loop whose body does nothing with the devices
Idle == Call(<<"irq", 0>>, {}, <<Else(0)>>)

NoIrq == << >>

\* A handler that reads the character received, then makes one of the given calls,
\* or none for the characters it does not know.
OnCharacter(calls) ==
  5 :> <<<<rflpc_uart_getchar(0)>>>> \o [k \in 1 .. Len(calls) |-> <<rflpc_uart_getchar(0)>> \o calls[k]]

\* _start()
Boot == Of(<<rflpc_clock_init, rflpc_irq_init, Idle>>, 3, NoIrq)

\* samples/timer: a match of register m
OnMatch(m) ==
  LET served == printf.code \o rflpc_timer_reset_irq(3, m).code
  IN <<If(<<"IR", 3>>, m, Len(served))>> \o served

TimerSample ==
  Of(<<rflpc_uart_init(0), rflpc_uart_set_rx_callback(0), printf,
       rflpc_timer_enable(3), printf, rflpc_timer_set_clock(3, 1), printf,
       rflpc_timer_set_pre_scale_register(3), printf, rflpc_timer_set_callback(3),
       rflpc_timer_set_match_value(3, 0), rflpc_timer_set_irq_on_match(3, 0, 3),
       rflpc_timer_set_match_value(3, 1), rflpc_timer_set_irq_on_match(3, 1, 1),
       rflpc_timer_set_match_value(3, 2), rflpc_timer_set_irq_on_match(3, 2, 4),
       printf, rflpc_timer_start(3), printf>>, 19,
     OnCharacter(<<<<rflpc_timer_stop(3)>>, <<rflpc_timer_start(3)>>, <<rflpc_timer_reset(3)>>>>)
       @@ 4 :> <<<<Timer(3, OnMatch(0) \o OnMatch(1))>>>>)

\* samples/pwm-test
PWM_PIN1 == <<1, 20>>
PWM_PIN2 == <<1, 21>>
PWM_PIN3 == <<2, 5>>
PwmSample ==
  Of(<<rflpc_uart_init(0), rflpc_uart_set_rx_callback(0), printf,
       rflpc_gpio_set_pin_mode_output(<<1, 18>>, FALSE),
       rflpc_pwm_init(PWM_PIN1), rflpc_pwm_init(PWM_PIN2), rflpc_pwm_init(PWM_PIN3),
       rflpc_pwm_single_edge(PWM_PIN1), rflpc_pwm_single_edge(PWM_PIN2),
       rflpc_pwm_double_edge(PWM_PIN3), rflpc_pwm_set_period,
       rflpc_pwm_enable(PWM_PIN1), rflpc_pwm_enable(PWM_PIN2), rflpc_pwm_enable(PWM_PIN3),
       rflpc_pwm_start,
       rflpc_gpio_set_pin(<<1, 18>>), rflpc_gpio_clr_pin(<<1, 18>>)>>, 16,
     OnCharacter(<<<<rflpc_pwm_single_edge(PWM_PIN1), rflpc_pwm_single_edge(PWM_PIN2)>>,
                   <<rflpc_pwm_enable(PWM_PIN1)>>, <<rflpc_pwm_disable(PWM_PIN1)>>,
                   <<rflpc_pwm_enable(PWM_PIN2)>>, <<rflpc_pwm_disable(PWM_PIN2)>>>>))

\* samples/adc-test: by interrupts, and the two tests that main leaves out
ADC_TEST_PIN1 == <<1, 30>>
ADC_TEST_PIN2 == <<1, 31>>
AdcBurstSample ==
  Of(<<rflpc_uart_init(0), rflpc_adc_burst_init(1, TRUE), rflpc_adc_burst_enable(ADC_TEST_PIN1),
       rflpc_adc_burst_enable(ADC_TEST_PIN2), rflpc_adc_burst_start, Idle>>, 6,
     22 :> <<<<rflpc_adc_read(ADC_TEST_PIN1), rflpc_adc_read(ADC_TEST_PIN2), printf>>>>)
AdcPollSample ==
  Of(<<rflpc_uart_init(0), rflpc_adc_burst_init(1, FALSE), rflpc_adc_burst_enable(ADC_TEST_PIN1),
       rflpc_adc_burst_enable(ADC_TEST_PIN2), rflpc_adc_burst_start,
       rflpc_adc_read(ADC_TEST_PIN1), rflpc_adc_read(ADC_TEST_PIN2), printf>>, 6, NoIrq)
AdcSimpleSample ==
  Of(<<rflpc_uart_init(0), rflpc_adc_init(ADC_TEST_PIN1, 3), rflpc_adc_sample,
       rflpc_adc_read(ADC_TEST_PIN1), printf>>, 3, NoIrq)

\* configure_timer(): timer 0, whose prescaler is for microseconds at divider 3
configure_timer(divider) ==
  <<rflpc_timer_enable(0), rflpc_timer_set_clock(0, divider), rflpc_timer_set_pre_scale_register(0),
    rflpc_timer_start(0)>>

\* samples/spi-simple: a handler prints each value received.
SpiSample ==
  Of(<<rflpc_uart_init(0)>> \o configure_timer(3) \o
     <<printf, rflpc_spi_init(0, TRUE, 3, 8, 0), rflpc_spi_init(1, FALSE, 3, 8, 0),
       rflpc_spi_set_rx_callback(0), rflpc_spi_set_rx_callback(1),
       printf, rflpc_spi_write(1), printf, rflpc_spi_write(0), wait>>, 11,
     14 :> <<<<rflpc_spi_read(0), printf>>>> @@ 15 :> <<<<rflpc_spi_read(1), printf>>>>)

\* samples/spi-leds: RFLPC_CCLK/8 is 0.  A picture is 64 words.
led_matrix_display_buffer == <<rflpc_spi_write(1), rflpc_spi_write(1)>>
SpiLedsSample ==
  LET show == led_matrix_display_buffer \o <<wait>>
      main == <<rflpc_uart_init(0)>> \o configure_timer(0)
                \o <<printf, printf, wait, printf, printf, rflpc_spi_init(1, TRUE, 3, 8, 0)>>
                \o show \o show \o show
  IN Of(main \o show, Len(main) + 1, NoIrq)

\* samples/rand
RandSample ==
  Of(<<rflpc_uart_init(0)>> \o configure_timer(3) \o <<printf, printf, printf, wait, printf, printf, wait, Idle>>,
     13, NoIrq)

\* samples/memcpy and samples/memset: the tests themselves are in memory.
init_timer ==
  <<rflpc_timer_set_clock(0, 1), rflpc_timer_set_pre_scale_counter(0), rflpc_timer_enable(0), rflpc_timer_start(0)>>
MemcpySample == Of(<<rflpc_uart_init(0)>> \o init_timer \o <<printf, Idle>>, 7, NoIrq)
MemsetSample == Of(<<rflpc_uart_init(0), printf, printf, Idle>>, 4, NoIrq)

\* samples/i2c-test, as a master; samples/i2c-test-mbed-board; samples/multiple_uarts.
\* The transfers are of module I2c.
I2cSample == Of(<<rflpc_led_init, rflpc_i2c_init(2), Idle, rflpc_led_binary_value(5)>>, 3, NoIrq)
Lm75bSample == Of(<<rflpc_uart_init(0), rflpc_i2c_init(2), Idle, printf>>, 3, NoIrq)
\* No sample: a program that uses the open drain, on both halves of a port.
Buses == Of(<<rflpc_i2c_init(0), rflpc_i2c_init(1), rflpc_spi_init(0, TRUE, 1, 8, 0), Idle>>, 4, NoIrq)
MultipleUartsSample ==
  Of(<<rflpc_uart_init(0), rflpc_uart_init_ex(2), printf, rflpc_uart_putchar(2), rflpc_uart_putchar(2)>>, 3, NoIrq)

\* samples/ethernet, when the link is up: the link handler runs on the repetitive
\* timer, the frame handler shows a LED while it works.  The negotiation is of module
\* EthLink, the rings of EthTx and EthRx.
EthernetSample ==
  Of(<<rflpc_uart_init(0), rflpc_led_init, printf, rflpc_eth_init, rflpc_eth_set_mac_address, printf,
       rflpc_led_val({}), printf, rflpc_eth_set_irq_handler, rflpc_eth_irq_enable_set({3}),
       rflpc_rit_enable, rflpc_rit_set_callback, printf, rflpc_uart_set_rx_callback(0), printf>>, 15,
     OnCharacter(<<>>)
       @@ 28 :> <<<<rflpc_led_set({20}), printf, rflpc_led_clr({20}), rflpc_eth_irq_clear>>,
                  <<rflpc_eth_irq_clear>>>>
       @@ 29 :> <<<<rflpc_rit_clear_pending_interrupt, rflpc_led_set({18})>>,
                  <<rflpc_rit_clear_pending_interrupt, rflpc_led_clr({18})>>>>)

\* samples/basic_tests, with the tests main leaves out.
\* The checks of the data sections pass.
TestDataBss ==
  <<rflpc_led_set(Leds), rflpc_led_clr(Leds)>> \o [k \in 1 .. 4 |-> rflpc_led_set({Led[k]})]
    \o <<rflpc_led_val({18, 23})>>
TestUart == <<rflpc_uart_putchar(0), rflpc_uart_putchar(0)>>
TestLed == [k \in 1 .. 4 |-> rflpc_led_set({Led[k]})] \o <<rflpc_led_binary_value(0), rflpc_led_binary_value(15)>>

\* From here on printf() sends each character through my_silly_putchar().
my_silly_putchar == rflpc_uart_putchar(0).code \o rflpc_uart_putchar(0).code
SillyPrintf ==
  Uart(0, rflpc_irq_global_disable \o my_silly_putchar \o my_silly_putchar \o rflpc_irq_global_enable)
TestPrintf == <<SillyPrintf, SillyPrintf>>
TestEcho == <<SillyPrintf, rflpc_uart_getchar(0), SillyPrintf>>
TestEchoIrq == <<SillyPrintf, rflpc_uart_set_rx_callback(0)>>
TestRit == <<rflpc_rit_enable, rflpc_rit_set_callback>>
TestSysTimer ==
  <<rflpc_sys_timer_init, rflpc_sys_timer_set_tick_period, rflpc_sys_timer_set_callback>>
OnRit == <<SillyPrintf, rflpc_rit_clear_pending_interrupt>>
\* Nine ticks in ten are silent; the hundredth stops the timer.
OnSysTick == <<<<>>, <<SillyPrintf>>, <<SillyPrintf, rflpc_sys_timer_stop>>>>

BasicTests ==
  LET main == TestLed \o TestDataBss \o <<rflpc_uart_init(0)>> \o TestUart \o <<printf>> \o TestPrintf
                \o TestEcho \o TestEchoIrq \o TestRit \o TestSysTimer \o <<rflpc_led_val({18}), rflpc_led_val({20})>>
  IN Of(main, Len(main) - 1, OnCharacter(<<<<SillyPrintf>>>>) @@ 29 :> <<OnRit>> @@ -1 :> OnSysTick)

\* test_ethernet() of the same program, in its place: the link is looked at in main.
TestEthernet ==
  Of(<<rflpc_uart_init(0), rflpc_led_init, rflpc_eth_init, rflpc_led_val({}), printf,
       rflpc_uart_set_rx_callback(0), printf, rflpc_led_set({18}), printf, rflpc_led_clr({18})>>, 7,
     OnCharacter(<<>>))

\* samples/dma: the second copy waits for the end of the first.
DmaSample ==
  LET copied == Dma(0, <<WaitOff(<<"DMACEnbldChns", 0>>, 0)>>)
  IN Of(<<rflpc_uart_init(0), rflpc_dma_init, printf, rflpc_dma_start(0), printf, copied, printf>>, 4, NoIrq)

\* samples/test-uarts: what printf sends goes to the three UARTs.
Broadcast ==
  Uart(0, rflpc_irq_global_disable
            \o FlattenSeq([k \in 1 .. 2 |-> rflpc_uart_putchar(0).code \o rflpc_uart_putchar(2).code
                                             \o rflpc_uart_putchar(3).code])
            \o rflpc_irq_global_enable)
UartsSample ==
  Of(configure_timer(3) \o
     <<rflpc_uart_init(0), rflpc_uart_init(2), rflpc_uart_init(3),
       rflpc_uart_set_rx_callback(0), rflpc_uart_set_rx_callback(2), rflpc_uart_set_rx_callback(3),
       Broadcast, wait>>, 11,
     5 :> <<<<rflpc_uart_getchar(0), Broadcast>>>> @@ 7 :> <<<<rflpc_uart_getchar(2), Broadcast>>>>
       @@ 8 :> <<<<rflpc_uart_getchar(3), Broadcast>>>>)

\* samples/leds, gpio_input and dac-test
LedsSample ==
  Of(<<rflpc_led_init, rflpc_led_set({18}), rflpc_led_clr({18}), rflpc_led_binary_value(5)>>, 2, NoIrq)
GpioInputSample ==
  Of(<<rflpc_uart_init(0), printf, rflpc_gpio_set_pin_mode_input(<<0, 16>>, 3),
       rflpc_gpio_get_pin(<<0, 16>>), printf>>, 4, NoIrq)
DacSample == Of(<<rflpc_dac_init(3), rflpc_dac_write(0), rflpc_dac_write(1023)>>, 2, NoIrq)
=============================================================================
