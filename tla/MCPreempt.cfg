SPECIFICATION Spec
CONSTANTS
  Programs = {"boot", "warm", "timer", "pwm", "adc_burst", "adc_poll", "adc_simple", "spi", "ethernet", "basic", "dma", "uarts", "leds", "gpio_input", "dac", "spi_leds", "rand", "memcpy", "memset", "i2c", "lm75b", "two_uarts", "link", "buses"}
  MaxIrq = 4
INVARIANTS
  ReadyWhenUsed
  LinesAreWhole
PROPERTIES
  OthersBitsKept
  PinsAsAsked
  PllUsedRight
  LoopGoesOn
