# A verification project for rflpc

rflpc is a small C library for bare-metal programs on the NXP LPC1768 (Cortex-M3): boot code,
drivers for the peripherals of the chip, a C library of a few functions, and samples. There is no
operating system. A program is a `main()` and the interrupt handlers it installs, and what
is hard about it comes from three kinds of concurrency:

* **software against hardware**: the DMA engines of the Ethernet MAC, a PHY behind a management bus,
  the flash ROM routines, FIFOs, buses with other devices. They move between any two register accesses;
* **main program against handlers**: handlers share registers and variables with `main()`, and
  the library has no lock but the global interrupt mask;
* **time and power**: a reset may come between two steps of a flash update, frames are lost on a network.

The rest is sequential code whose edges are hard to test: copies by words, conversions, headers built over
old frames.

This directory holds TLA+ modules of these parts, TLC configurations that check
small instances, and TLAPS proofs that hold for every instance. `PROJECT.json` maps each
definition to the lines it models.

## Inventory

| component | state | operations | who shares it | what makes it correct | module |
|---|---|---|---|---|---|
| Ethernet transmit ring (`drivers/ethernet.[ch]`) | TxProduceIndex, TxConsumeIndex, descriptors | set_tx_base_addresses, get_current_tx_packet_descriptor, set_tx_control_word, done_process_tx_packet, get_last_sent_packet_idx | software and MAC DMA, no lock | a FIFO: nothing overwritten, skipped, sent twice or dropped | `EthTx` |
| Ethernet receive ring | RxProduceIndex, RxConsumeIndex, descriptors | set_rx_base_addresses, rx_available, get_current_rx_packet_descriptor, done_process_rx_packet | MAC DMA and software | a FIFO; a held buffer is stable | `EthRx` |
| Ethernet interrupt | IntStatus, IntClear | irq_get_status, irq_clear, `eth_handler()` | MAC, handler | no frame is forgotten for good | `EthRxIrq` |
| Ethernet link, MIIM | PHY registers, MADR/MRDD, MAC mode bits | init, link_state, auto_negociate, set_link_mode, get_link_mode | main, timer handler, PHY, cable | MAC and PHY agree; PHY never disabled; the wait ends | `EthLink`, `Drivers` |
| link loops of `samples/ethernet` and `samples/basic_tests` | request_autoneg, autoneg_mode | serial handler, timer handler, loop | main, handlers | no request lost | `AutonegSample` |
| Flash programming (`iap.[ch]`), `samples/test-flash` | flash, iap_sector_buffer, the ROM's prepared sectors | write_buffer, write_to_sector, write_buffer_to_sector, transfert_4ks_to_32k | ROM errors, resets | what is written, what may be lost | `Iap`, `FlashSample` |
| I2C (`i2c.[ch]`) | I2STAT, I2DAT, CONSET flags, `_mode` | init, read, write, set_slave_transmitter_config | bus, other devices | every call ends; bytes delivered in order, counted right | `I2c` |
| Interrupt control (`interrupt.[ch]`) | NVIC enables, vector table, global mask | irq_init, irq_enable, irq_disable, set_handler | everybody | a handler is there when its interrupt comes | `Drivers`, `Preempt` |
| Clock, boot | PLL, oscillator, flash timing | clock_init, `_start` | boot loader, PLL | the order of steps; every wait ends | `Drivers`, `Preempt` |
| GPIO, pin configuration, LEDs | FIOMASK, FIOSET/CLR/PIN, PINSEL, PINMODE | set_pin, set_val, pin_set... | main, handlers | only the named pins change | same |
| Timers, PWM, RIT, SysTick | match, prescale and control registers, PCONP, PCLKSEL | enable, set_clock, set_match_value, pwm_init... | main, handlers | powered when used; others' bits kept | same |
| UART, SPI, ADC, DAC, DMA | their registers | init, callbacks, read, write, start | main, handlers, devices | same; waits end | same |
| printf, memcpy, memset | global mask, output | one call each | main, handlers | lines are not mixed; digits and bytes are right | `Drivers`, `Formats`, `MemOps` |
| `samples/dhcp`, `simple_net` | TX ring, `_rx_callback`, buffers | get_tx_buffer, emit_buffer, discover, request | main and handler both send; servers, network | frames are not mixed; a lease unless something is lost | `Dhcp`, `DhcpFrames` |
| `samples/simple_udp` | both rings | process_packet | MAC | a service: answers in order | `UdpEcho` |
| protocol headers | a buffer with an older frame | mangle, demangle, checksum, process_packet | - | each reply is well formed, byte by byte | `Headers`, `Replies` |
| serial LCD, LED matrix, LM75B | FIFO, A0 and CS lines; a picture; a register | display_buffer, display_text, get_temp | display | what is shown is what was given | `Lcd`, `Scroller` |
| debug and profiling macros, vendor headers, build | - | - | - | - | not modelled |

How they interact: samples call drivers from `main()` and from handlers. Link functions,
DMA rings and handlers share the MAC's registers; all drivers share PINSEL, PCONP and PCLKSEL. `printf` sits on the UART. `iap.c` needs the
system clock and nothing else. Every handler is reached through the vector table of
`interrupt.c`.

## Modules

| module | extends | models |
|---|---|---|
| `FrameQueue` | - | abstract specification: a bounded FIFO with its history |
| `EthTx`, `EthRx` | - | the two rings; each implements `FrameQueue` |
| `EthRxIrq` | `EthRx` | the ring drained by the interrupt handler |
| `EchoService` | - | abstract specification: what the UDP echo promises the network |
| `UdpEcho` | `EthRx`, instance of `EthTx` | the echo sample over both rings; implements `EchoService` |
| `Dhcp` | `EthRxIrq` | the DHCP client, `simple_net.c`, servers and a faulty network |
| `EthLink` | - | link functions, MIIM, PHY and cable |
| `AutonegSample` | `EthLink` | the main loops over them, with their handlers |
| `Iap`, `FlashSample` | -, `Iap` | flash programming over the ROM, with errors and resets; the tests that use it |
| `I2c` | - | the status loop of the I2C driver, as master and as slave |
| `Mmio` | - | registers, and the loads and stores a C statement makes |
| `Drivers` | `Mmio` | the driver functions as sequences of accesses |
| `Samples` | `Drivers` | the sample programs as calls, in main and in handlers |
| `Preempt` | `Samples` | a processor that runs one of them, access by access, with interrupts |
| `MemOps`, `Formats` | - | memcpy and memset; printf's conversions |
| `Headers`, `Replies`, `DhcpFrames` | each the one before | the bytes of headers, of ARP, ICMP and UDP answers, of DHCP messages |
| `Lcd`, `Scroller` | - | the display behind its FIFO; the LED text and the sensor |
| `Library` | the seven above | each behaviour is of one of them |
| `Parts` | `Library`, `EthTx` | each behaviour is of one part of `Library`, or of the transmit ring: one run checks them all |
| `Texts` | `Preempt` | what the text of a program alone says of what is set up at each place of it |
| `TextBits` | `Texts` | what it says of the bits each access may change |
| `EthTxProofs` | `EthTx` | proofs about the transmit ring |
| `EthRxProofs` | `EthRxIrq`, `UdpEcho`, instance of `EthTxProofs` | proofs about the receive ring, alone, under the handler and under the echo program |
| `DhcpProofs`, `AutonegProofs`, `IapProofs`, `I2cProofs`, `LibraryProofs`, `PreemptProofs` | `Dhcp`, `AutonegSample`, `FlashSample`, `I2c`, `Library`, `TextBits` | proofs about them |
| `MC*` | one each | small instances for TLC |

Definitions named "Mutant" in a comment are plausible wrong versions of the definition that
follows. Nothing uses them; they show that a property can fail.

### EthTx, the transmit ring

Software owns TxProduceIndex (`P`), the MAC owns TxConsumeIndex (`C`). The driver functions are
cut at each read of `C`, because the MAC may move it there: the test for a full ring
(`ethernet.h:282-283`) reads it twice, once for each half of `||`. A frame is a sequence of fragments
the caller collects one descriptor at a time (`GetTest1`, `GetTest2`, `Fill`), then hands over with one
store (`DonePublish`). `handed` and `wire` are histories. `Init` lets the ring start at any index,
as `rflpc_eth_set_tx_base_addresses()` does when the hardware had stopped anywhere.

The caller is disciplined: it asks for descriptors 0, 1, 2... in order, and fills only what it was
granted. All callers in `samples/` do so. This is an assumption, and a necessary one: the full
test compares the index asked for with one position only, so it does not refuse an index
beyond it, whatever `ethernet.h:269-275` suggests.

* `RingMirrorsQueue`: the two registers and the descriptors between them are exactly the fragments handed
  over and not sent. It fails if the producer ever laps the consumer.
* `GrantedSlotIsFree`: a granted descriptor is never hardware's, although the test reads `C` twice.
* `LastSentStillReadable`: `get_last_sent_packet_idx()` names a descriptor that still holds the last
  fragment sent.
* `NoUnderrun`: the MAC never meets the end of the ring in the middle of a frame.
* `ImplementsQueue`: refinement of `FrameQueue` with capacity `N - 1`.
* `HandedIsSent`, `GetTerminates`: liveness. A frame counts as handed over from the call of `done_process_tx_packet()` on, so that one its silent return drops violates it.
* `DoneNeverDrops` (proved, in no run): the silent return of `done_process_tx_packet()` is not taken by a caller that
  was granted its descriptors.

### EthRx, EthRxIrq, the receive ring

The MAC writes a buffer, then publishes it (two actions); software gets, uses and releases it. `EthRx` is
read by a loop, as in `samples/simple_udp/main.c`. In `EthRxIrq` the same actions run inside
`eth_handler()`, and IntStatus is read and cleared after the loop. A frame published between the
last look at the ring and the clear loses its interrupt: `StrandedOnlyInWindow` says these
are the only ones that wait, `PendingIrqDrains` that the next interrupt takes them too. If no further
frame arrives they wait for ever; this is what the code does, stated as it is.

### UdpEcho, EchoService

The program of `samples/simple_udp` holds a request in its receive buffer, reads it by the filters, asks the
transmit ring for a descriptor, reads the request again to address the reply, hands over, and only then gives the
buffer back. Both halves of the MAC move at any step. `ImplementsEchoService`: it refines a service that has no
rings, where requests are answered in order, each once, to whoever sent them, and given up only when the transmit
ring is full at that moment. `AllIsServed`: every frame is served and every reply sent.

### Dhcp, the DHCP client

`main()` sends the discover; the handler sends a request for each offer, through the same ring and with the same
`simple_net_get_tx_buffer()`, write, `simple_net_emit_buffer()`. The handler may run between these three, and inside the last one: between the descriptor it gets,
the test for a full ring, and the read and the store of TxProduceIndex. `emit_buffer()` does not wait and does not look at its descriptor: when the handler has filled the
ring meanwhile it is NULL, and `main()` stores through it (`WriteThroughNull`). This has no effect or ends in the handler of a fault, which never returns; after it the discover is dropped
without a word (`DoneProcess`). What the stores may overwrite is left out. The network
delays and reorders at will, loses or repeats frames (`MaxFaults`) and carries those of other clients.
Two things in the code shape the model. `rxbuffers` and `txbuffers` are indexed by descriptor where they are
declared the other way round (`simple_net.c:35-36`), so buffers lie 8 bytes apart and a frame spoils
the ones near it. And the transaction number is never compared, so every offer and acknowledgement counts.

* `HandlerFindsARing`: interrupts are enabled before the descriptors are installed and before the callback is set. The receiver, still off,
  keeps the handler away till the ring is there. It does not keep it away till the callback is: a handler without one finds frames and drops them, and no offer is taken or answered.
* `SentAsBuilt`: what is sent is what was built, unless a packet was built while another was not yet sent, or the handler sent inside main's get, write and emit. This
  exception is real: two offers in a row spoil the first request, and the discover may be spoilt or dropped.
* `ExchangeInOrder`: each request answers one offer with its own server and address; the lease printed was committed
  by its server to this client, unless the acknowledgement was another client's. That a request answers *one* offer is
  stated by counting from the end: as many requests come after a request as offers after its offer.
* `LeaseUnlessLoss`: a lease comes unless a frame was lost, spoilt or left in the ring. The client never asks twice.

### EthLink, AutonegSample

A PHY register is read in three accesses and written in two. `pc` names the register access of the C
function in progress and `io` its stage. `NextOf`, `ReadFrom` and `WriteTo` are the order of the accesses in the
code. The PHY negotiates, and the cable may be unplugged and plugged to another partner, at any
step. `AutonegSample` has three users of these functions in one specification: a program without interrupts that calls
any of them in any order, the loop of `samples/ethernet` with its serial handler and a timer handler that does a whole read between any
two accesses, and the loop of `test_ethernet()`, which polls in the loop instead. `polls` tells them apart.

* `MacMatchesPhyAlone`: a negotiation that returned 0 over an untouched cable leaves MAC and PHY in one mode, and every read
  returns the register it asked for.
* `PhyStaysUpAlone`: no read-modify-write ever resets, isolates or powers down the PHY.
* `ReadsAskedRegister` fails when the timer polls (run `link_shared_reads`): `_rit_handler()` overwrites the address or the value.
* `StatusReadsAreSafe`: with the timer polling, reads of the status register stay right, because that is the register
  the handler reads too.
* `StaleOnlyIfLate`: a key pressed during the negotiation is forgotten by `request_autoneg = 0` (`main.c:315`), although
  line 285 promises "'s' to toggle speed"; and only such a key.
* `CallReturnsAlone`: a link function returns unless the cable stays unplugged.

### Iap, FlashSample

The flash is a function from addresses to bytes; a byte is the pair of a call and an index in its buffer, so that a
byte of another call or place is told apart. Each ROM call is one action, which may report an
error. `Reset` strikes between any two: `.bss` is cleared, the flash stays. The ROM erases and programs prepared
sectors only and refuses lengths it does not know (`CopyLengths`, from `iap.h:77`). `FlashSample` adds the
programs of `samples/test-flash` as call lists that stop at the first failure and start again after a reset.

The sector is patched with the library's own `memcpy()` (`iap.c:28`), which moves 32 bytes more when it is asked for one
to three bytes from a word's boundary to a word's boundary (`Short`, `Moves`; run `memory_short`). Only the last piece of a
write can be so (lemma `Accepted`). `Behind` is what it burns behind the target, `Spill` how many bytes it overwrites behind
`iap_sector_buffer` when the sector ends first. They are counted (`spilled`); what the linker puts there, and so what happens to the
program, is not modelled. `iap_sector_buffer` is taken to lie at a word's boundary, where the ROM wants it (`iap.h:77`).
The sizes the samples write are never short.

* `AnswerIsTrue`: 0 means that the target is written and the rest of its sectors restored, all but the bytes `Behind` a last piece that is short;
  these are overwritten although the call succeeds. A range that is refused was not touched.
* `LossIsBounded`: after any error or reset, what is lost outside the target is in one erased sector, or `Behind`; a byte of the target
  is old, new or erased, and no byte is programmed without an erase.
* `TestReadsBack`: when a test's calls have all succeeded, the flash holds what every one of them wrote, the earlier ones included.
* `CallReturns`: the loop of `write_buffer()` ends.
* `DocMultipleSectors` (run `iap_multi`) fails: a full sector is written less one byte (`iap.c:238`), so a range that
  covers a whole sector between two others is given up after a partial write.

In the same module one can see that `write_buffer_to_sector()` never succeeds on a large sector: it asks the
ROM for 32768 bytes, which `iap.h:77` excludes, after the erase.

### I2c, the I2C driver

`pc` goes round the loop of `i2c.c`: "look" reads I2STAT, "act" is the case of that status, "wait" the wait for SI. The
block and the bus step in between; while SI is set the block holds the clock, so a case is one action, but a
START or an address may come between the look that saw 0xF8 and the STA it sets. `Go` is what every case ends
with: flags set and cleared, then SI. `last` is the status the block goes on from. A byte is its place in
the buffer, or in what the other device sends. The actions under `Bus` are the block and the
other devices: they refuse or take an address or a byte, win arbitration, address the slave, stop at
any byte, or break the bus.

The counts are bytes: `realnbytes` is a `uint8_t` (`i2c.c:173`), so they are kept modulo `Byte`, 256 in the code. A caller asks for
at most 255, but a transfer with the exception below, or a slave that is asked for more and more, goes round; the properties compare counts modulo `Byte`.

* `WritesAreRight`: what a write reports is what the other device got, from the first byte on, each once. The exception is a write that
  lost arbitration on a byte: the new attempt goes on behind it (`i2c.c:286`) and reports all as sent, although `i2c.h:85` speaks of
  "the effective number of bytes transmitted". A slave reports as many bytes as were taken; they are not the whole buffer, since case 0xB8
  does not advance `data` (from the third byte on it repeats the second).
* `ReadsAreRight`: what a read stores is what was sent, at its place, and never past its buffer. Both rest on
  the AA flag being cleared one byte early, and on `rflpc_i2c_init()` clearing it when the mode changes, because a
  read of one byte does not.
* `BusIsShared`: a slave never asks for the bus; a master gives it back but in the cases listed. A refused address is one: STO is set, but so is the STA of
  0xF8, and the block starts again after the STOP (the TODO of `i2c.c:432`).
* `CallReturns`: every call of a master, and of a slave that was addressed, returns, unless a read loses arbitration: read() has no
  case 0x38 and waits with SI set for ever.

A read is of one byte or more: `rflpc_i2c_read()` does not test `nbytes`, and stores a byte for 0.

### Mmio, Drivers, Samples, Preempt, Texts, TextBits

A driver function is a sequence of accesses: a store, a load followed by a store for `|=` and `&= ~`, a test, a wait. `Mmio` says what a store does:
some registers clear or set the bits written as 1, ports let through what FIOMASK lacks, a PLL register takes effect after two feeds. `Drivers`
writes the functions down in these terms; `Samples` writes each sample as the calls of `main()` and of each run its handlers can make. In `Preempt` the processor makes
one access per step; an enabled and asked interrupt may be taken between any two, and the handler runs to its end, since all have one priority. Devices finish
when they like. The model has no clock: a device may be done at once or late, a tick may come right after it is enabled.
An interrupt whose vector is still the library's stops the program (`TakenByDefault`): with `RFLPC_IRQ_DEBUG_ENABLE`, as shipped (`config.h:67`), the default handlers end in an endless loop (`interrupt.c:42-120`).
One program, `buses`, is not a sample: two I2C ports and SPI, whose pins lie in both halves of port 0.

* `OthersBitsKept`: a call changes the bits of its own device and pins only (`SharedBits`, `Registers` and `PinBits` say what is whose), and no store of main undoes what a handler did
  since main's load. The exception is a fault: for a pin of 16 or more `rflpc_pin_set()` writes the open-drain bit of the pin 16 below (`pinconf.c:34-48`), though `pinconf.h:171` speaks of one pin.
  `OpenDrainOfOther` is this bit, and `buses` meets it: setting up I2C 0 makes pins 0.11 and 0.12 open drain in place of its own, and setting up SPI 0 takes it from the pins of I2C 1. PCR is another exception: `samples/pwm-test` switches outputs in a handler while main switches others.
* `PinsAsAsked`: the pins a GPIO call names get the level it asks for, though it takes two stores and handlers use the port too. Both also say that the text keeps to its bits (`KeepingTexts` of `TextBits`), which their proofs rest on.
* `ReadyWhenUsed`: a handler is in the table before its interrupt can be taken, a device has power when it is used, a UART's divisor latches are closed. The exceptions:
  `sys_tick_timer.h:69` sets the enable before the handler, and `samples/timer/main.c:65` installs a handler that uses timer 3 before line 69 powers it.
  The first of these stops the program for good when a tick comes between lines 69 and 71; `stopped` says so, and nothing else may.
  It also says that the program's text is safe (`SafeTexts` of `Texts`), which is what the proof for any number of interrupts rests on.
* `LinesAreWhole`: lines of two `printf()` calls are never mixed.
* `PllUsedRight`: the PLL is connected only with lock and source, and neither its setting nor its source changes while it is.
* `LoopGoesOn`: each program gets through its set-up and goes round its loop for ever, or was stopped in a default handler. By `ReadyWhenUsed` the latter befalls only the basic tests,
  inside `rflpc_sys_timer_set_callback()`.

### Library and its seven parts

These parts share nothing and no interrupt matters to them: `Library` picks one and runs it. The transmit ring shares nothing with them either, so `Parts` lets one run check it too.

* `MovesWhatIsAsked` (`MemOps`): Duff's devices move exactly the bytes asked for, for every alignment, except that what is less than a word once
  the address is aligned takes 32 bytes more (`memset.c:59`, `memcpy.c:64`; run `memory_short`, against `memset.h:33`).
  The samples' own tests are run on every result: that of `samples/memset` sees the bytes too many, that of `samples/memcpy` compares only the bytes asked for and cannot.
* `PrintsItsArguments` (`Formats`): decimal numbers are whole, the lowest negative one included, and the count is right. The width of a `%x` is not what `printf.h:37` promises ("%0?X can also be
  used, where ? is a digit [1-9]"), and the property says what it is: 2 and 3 give two digits, 4 gives four (`printf.c:107`); 1 and 5 to 9 take the argument for themselves and print the type's letter,
  so that `%08X` prints "X". A size stays for the `%x` that follow; `%0` lasts until the next `%x`.
* `FramesAreRight` (`Headers`, `Replies`, `DhcpFrames`): each answer to ARP, echo and UDP requests is a right answer, byte by byte, although it is written in a buffer that holds an
  older frame, and the MAC sends it as it was built. In `samples/ethernet` the buffers are declared the other way round (`main.c:122-123`) and lie 8 bytes apart: a frame that comes before the handler has looked at the last one
  overwrites it, and it is ignored; an answer built before the last one was sent goes over it from the ninth byte on, and the property says which bytes are then sent. The opcode of an ARP packet is not looked at
  (`main.c:146`): an ARP answer is answered too. The options of an IP header in an echo reply are those of an older frame.
  The DHCP discover and request are whole messages; the options found are those before END, wherever they are. Without an END, or behind a lone pad, the client reads on (`dhcp/main.c:120, 218`, `<=` for `<`):
  an option that starts at the first byte behind the 60 is taken for one of the frame's, none further is. A server identifier that is not there reads as 255.0.0.0.
  The handler deals with a frame in one step; what the MAC writes while it copies is left out, and so are the frames shorter than their header says. As many frames come as there are descriptors, or less, so the ring does not wrap.
* `DevicesAgree` (`Lcd`, `Scroller`): the display shows the caller's buffer however slow its FIFO, the matrix the text at every position, and a temperature of 0 or more is the sensor's.
* `DocNegativeIsRead` (run `lm75b_negative`) fails: a temperature below 0 comes 8192 too high (`lm75b.c:54`), since the shift loses the sign the line before has extended, against the comment at 44-52.

## Runs

| run | instance | shows | distinct states |
|---|---|---|---|
| `rx_irq` | N = 4, 6 frames of 2 contents | the ring and the window of the handler | 107 284 |
| `udp_echo` | both rings of 3, 2 clients, 4 frames | refinement of `EchoService`, liveness | 101 031 |
| `dhcp` | receive ring of 3, transmit ring of 2, 2 servers, 5 frames, 1 fault | all properties of `Dhcp` | 182 387 |
| `link` | 2 calls, 1 unplugging, 3 keys, with and without the polling timer | the link functions and their loops | 415 325 |
| `iap` | 3 sectors of 6 bytes and 2 of 12, words and overruns of 2 bytes, 2 calls of any program or the tests of the sample, 1 error or reset | all properties of `Iap` and `FlashSample` | 325 419 |
| `i2c` | buffers of up to 3 bytes, counts modulo 4, up to 6 bytes on the wire, 3 calls, bus taken twice, 1 bus error | all properties of `I2c` | 535 277 |
| `drivers` | 24 programs, 4 interrupts | all properties of `Preempt` | 58 717 |
| `library` | transmit ring: N = 4, frames of 1 to 3 fragments, 6 fragments, 2 payloads; the others: see below | safety, refinement and liveness of `EthTx`, all properties of `Library` | 224 787 |
| `link_shared_reads`, `iap_multi`, `memory_short`, `lm75b_negative` | smaller, or the same | each finds its property violated by what the code does | - |

Why the bounds are enough. Both rings start at every index and wrap at least once within the bound, with a full
ring, an empty one and frames as long as the ring holds; the ring properties are also proved
for every size. Rings of 3 under `UdpEcho`, and the receive ring of 3 under `Dhcp`, hold two frames, which is what it takes to have one
in use, one waiting and none free. The transmit ring of `Dhcp` has 2 descriptors and is full with one packet, so that one repeated offer is enough to fill it under `main()`. The link functions keep no state from one call to the next but that of PHY and
MAC, so two calls show what one leaves to the other; one unplugging can fall at every step. Writes to flash fall on each
kind of range: inside a sector, a whole one, none, over a boundary, over two, into a large sector,
inside one. Two calls let the second one meet the flash and the buffer the first left half written.
Sectors of 6 and 12 bytes and words of 2 keep "first, inside, last byte of a sector", "aligned or not" and "what follows the target ends in its sector or behind it" apart; addresses are computed as in the code
with the sizes as parameters. The caller's buffer begins at a word's boundary or behind it. The tests of the flash sample write objects of 6 bytes by pieces of 4: a full piece and a rest.

Buffers of 3 bytes have a first, an inner and a last byte, which are the cases of the I2C switch; three calls allow a slave that
becomes a master again, or a write that keeps the bus followed by a read; the bus taken twice allows
arbitration lost, tried again and lost. Six bytes on the wire, counted modulo 4, are enough for a count to wrap.

Four interrupts in a run: two to fall between the accesses of one statement, two more to be taken in the calls around it.
Handlers do not nest, so more would repeat; `ReadyWhenUsed`, `LinesAreWhole`, `OthersBitsKept` and `PinsAsAsked` are also proved for any number. A program's delay is one wait, and loops over equal calls are cut to two.

The inputs of `library`: copies of 0 to 41 bytes, which is more than twice round Duff's device by bytes and once by words, from and to every alignment;
two conversions in a row of 10 arguments and every digit the code tells apart, with integers of 3 bytes (TLC's own have 4) around powers of ten and of two and at the ends; two frames of every kind, right and wrong, so that the second
may come before the first is handled and be answered before the first answer is sent; options in every order, up to three before the END, with pads; without END up to two, with three kinds of bytes behind them; a FIFO of 2 frames for one of 8 before a display of 2 pages of 3 columns; every position of the text of
12 letters; 9 temperatures, from one end of the range to the other.

Every property of a passing run has a mutant: a changed definition under which TLC finds it violated.

Deadlock is checked in `drivers`, whose programs never end (a default handler loops for ever). In the other models the environment or the program may stop (no more frames, calls or keys).

### Fairness

* `EthTx`: code that has entered the driver runs on, and the MAC keeps sending. Nothing obliges a
  program to start a frame. A handler may delay software, not stop it.
* `EthRxIrq`: a pending interrupt is taken and the handler runs on; a frame the MAC began is published. Frames need not arrive.
* `UdpEcho`: the loop runs for ever, and both halves of the MAC end what they began.
* `Dhcp`: the processor runs, the MAC sends and receives, servers answer what reaches them. Nothing is lost or repeated of necessity.
* `AutonegSample`: a called function runs on, and the PHY ends a negotiation while the cable is plugged. Nobody need plug it:
  `CallReturnsAlone` assumes it stays plugged in the end, since the wait of `ethernet.c:206` has no other exit.
* `I2c`: a call runs on, and a transfer goes on: the bus is clocked by whoever is its master, and another master ends its transfer. Nobody need
  address the slave, take the bus or break it.
* `Iap`: a call that was made runs on. Errors and resets are not fair.
* `Parts`: that of `EthTx`; the parts of `Library` have no liveness to show.
* `Preempt`: the processor runs, and the devices waited for do their work: oscillator, PLL, a conversion that was started, a DMA transfer, a timer that is powered, a MIIM cycle, the PHY's reset.
  Interrupts are not fair: no program may count on one.

## Proofs

The theorems hold for every value of the constants: every size of rings, sectors and buffers, every number of calls, frames, servers, errors and
resets. The runs show the same properties on one instance. Those about `Library` and `EthTx` are of each specification by itself; the run `library` checks the two side by side, in `Parts`.

| theorem | module | states |
|---|---|---|
| `TypeCorrect`, `RingIsQueue` | `EthTxProofs`, `EthRxProofs` | `TypeOK`, `RingMirrorsQueue` |
| `GrantIsSafe`, `LastSentIsStable`, `FramesAreWhole`, `NoSilentDrop` | `EthTxProofs` | `GrantedSlotIsFree`, `LastSentStillReadable`, `NoUnderrun`, `DoneNeverDrops` |
| `HeldIsStable`, `IrqHeldIsStable` | `EthRxProofs` | `HeldFrameIsStable`, of the loop and under the handler |
| `Refinement` (both), `IrqRefinement` | `EthTxProofs`, `EthRxProofs` | `ImplementsQueue`, of each ring and under the handler |
| `HandlerKeepsRing` | `EthRxProofs` | `SpecIrq => Spec`: a ring under the handler is a ring |
| `StrandedInWindow` | `EthRxProofs` | `StrandedOnlyInWindow` |
| `EchoRefinement` | `EthRxProofs` | `ImplementsEchoService` |
| `NoInterruptTooSoon`, `BuiltIsSent`, `OrderOfExchange` | `DhcpProofs` | `HandlerFindsARing`, `SentAsBuilt`, `ExchangeInOrder` |
| `MacFollowsPhy`, `PhyIsNeverHarmed`, `StatusIsRead`, `StaleIsLate` | `AutonegProofs` | `MacMatchesPhyAlone`, `PhyStaysUpAlone`, `StatusReadsAreSafe`, `StaleOnlyIfLate` |
| `AnswersAreTrue`, `LossesAreBounded`, `TestsReadBack` | `IapProofs` | `AnswerIsTrue`, `LossIsBounded`, `TestReadsBack` |
| `SendingIsRight`, `ReadingIsRight`, `BusIsGivenBack` | `I2cProofs` | `WritesAreRight`, `ReadsAreRight`, `BusIsShared` |
| `BytesAreMoved` | `LibraryProofs` | `MovesWhatIsAsked` |
| `TextGoesBy`, `TemperatureRead` | `LibraryProofs` | `MatrixShowsText` and `TemperatureIsRead`, two of the three parts of `DevicesAgree`, the second for temperatures not below 0 |
| `KnownIsTrue`, `UsesWhatIsReady`, `LinesStayWhole` | `PreemptProofs` | what is known is true; `ReadyWhenUsed`, `LinesAreWhole`, of every program with a safe text |
| `KeptIsTrue`, `OthersAreSafe`, `PinsAreAsAsked` | `PreemptProofs` | what registers may hold and what handlers leave alone is true; `OthersBitsKept`, `PinsAsAsked`, of every program whose text keeps to its bits |

`TypeOK` and `RingMirrorsQueue` of the receive ring, and `TypeOK` and `DoneNeverDrops` of the transmit ring, are proved and in no run.

### Assumptions

Each is an `ASSUME` of the module that declares the constants, and TLC evaluates it in the runs of that module.

* `EthTx`, `EthRx`: `SizeAssumption`, rings of two or more descriptors, frames of at most `N - 1` fragments, register modulus larger than `N`; the "no fragment" and
  "no frame" values (`NoFragAssumption`, `NoFrameAssumption`) are no payloads. `UdpEcho` and `Dhcp` assume the same of their transmit ring (`TxAssumption`), `UdpEcho` that `Frames` are frames.
* `EthLink`: the bounds on calls and unpluggings are numbers.
* `Iap`, `FlashSample`: sectors have sizes, a small one a whole number of words with room for a word and an overrun, a large one a whole number of small ones, the ROM copies a small sector at once and no large one; writes are inside the flash; the sample's objects fit the sectors they are tested in.
* `I2c`: a buffer is shorter than a byte counts.
* `MemOps`: the blocks copied do not overlap and leave room for the 32 bytes too many. `Scroller`: a text has a letter, a temperature is of 11 bits.

### The arguments

Hardly any of these properties is inductive as it stands. What had to be added, and why:

*Transmit ring.* `IndInv` adds `Reservation`: hardware-owned
and already filled descriptors leave at least one free, and two where a grant was given. Between the two halves of the full test the
reservation depends on `C`: if the first half ran with `C # 0` it was decisive, and if `C` has moved to 0
since, the MAC has freed a descriptor. The rest says that the descriptors past `P` hold the frame
being built (`BatchInRing`), that the MAC sends what is at `C` (`DmaInRing`), in order
(`SentInOrder`), and that the last thing handed over ends a frame (`WholeFrames`). Arithmetic modulo `N` is confined to `ModWrap` and `RingIndex`.

*Receive ring.* `IndInv` adds that the MAC only writes when it may publish (`MacHasRoom`) and that software holds the
oldest descriptor from get to done (`HoldsOldest`).

*Handler.* `IrqStepIsRingStep`: each step of the handler is a step of the loop or none, so all theorems of the ring carry over. What waits without an interrupt is bounded by `IrqInv`:
when the handler leaves its loop all it found is processed (`LoopLeftDone`), it only starts with RX_DONE raised (`RaisedOnEntry`), and while none is pending nothing was
published since it returned (`NothingSinceReturn`).

*Refinements.* Each step of a ring maps to a step of `FrameQueue` or a stutter; `IndInv` gives the capacity and the order. The echo program's steps are steps of both rings,
or leave one alone (`BothRingsStep`), so `EthTxProofs`, instantiated for its transmit ring, and `EthRxProofs` give their invariants; `Answering` joins them: while the transmit driver is at
work the receive ring holds the request that is answered, and the frame filled is the reply to it. Without it a request might have been overwritten between the filter and the reply. That
the service gives up only when the ring is full comes from the reservation again (`RefusedIsFull`).

*DHCP.* The types come first, since frames pass from set to set (`Typed`). The receiver is off until the ring is there, and until the callback is set no offer is taken up and nothing is built (`Quiet`). As long as nothing is disturbed, at most one packet is in the transmit
ring, and it is the last one built (`OneInFlight`). Everything on its way to the client is an answer of a server to what it has seen, or another client's (`AllGenuine`). An offer in hand is the last
one read (`InHand`); with the reformulation above, `RequestsAnswerOffers` is then preserved by one lemma about places in a sequence that grows (`OneMorePlace`).

*Link.* `LinkInv` follows a call from access to access: the MIIM cycle under way is the one the function asked for, and the word it holds came from that register. It is a statement per place of the code,
because what is written to BMCR was read two accesses before. `PollInv` is what is left of it when the timer asks for the status register between any two accesses. `Stale` says of every place in the
loop which key presses are already late.

*Flash.* A write is followed byte by byte: `Intended(a, k)` is what address `a` is to hold when `k` bytes of the caller's buffer are behind us. `WriteInv` says which bytes hold it: all those outside the sector
under way, and those inside it before the erase; in between they are blank and `job.image` holds them. `TransferInv` is the same for the copy of small sectors to a large one, `SampleInv` what a test can rely on
from one of its calls to the next. `Edges` says that every piece but the first begins at the first or the last byte of a sector: hence a piece that is short is the last, which is what `Behind` and `Spills` speak of. Division of addresses into sectors is confined to `SectorBytes`, `OneSector` and `BlockOfByte`.

*I2C.* What a call returns is decided many bus steps after it began, so the invariant says of each status, and of each the block may go on from, what counts, place and wire are: `WritingInv`, `ReadingInv`, `SlaveInv`. It is
inductive only with what one call leaves to the next: no half of a transfer (`IdleBus`), no acknowledge bit (`Flags`). One lemma per case of the switch and per action of the bus.

*Library.* A call of `memcpy()` or `memset()` moves one run of bytes (`CalledOnce`), of the length asked for or of 32 more: `DuffMoves` and `WordsThenBytes` are about Duff's device, one by one for its eight entries.
The picture is a function of the position it was drawn for (`ScrollerInv`), `LetterDrawn` says what one letter leaves of it, `TextDrawn` what two do.

*Interrupts.* The programs of `Preempt` are fixed texts, but interrupts come when and as often as they like. `Known` of `Texts` goes through a text without running it and says of each place which bits of PCONP and of the
vector table are set for good, which interrupts may be enabled, which UARTs may have their latches open, and whether interrupts are masked. A text is safe if each access of main carries this on to the places that may follow, if main
and the handlers that may run there use only what is known to be ready, and if no handler sets anything up. TLC finds all 24 texts safe. The theorems say what follows for as many interrupts as there may be: what is known of main's
place is true of the registers (`MemoryFits`), and of a value that main or a handler has loaded and is about to store (`LoadFits`): without this a `|=` that an interrupt cuts in two might write back what no longer holds.

A text keeps to its bits (`KeepingTexts`) if each access, with what its register can hold by the accesses of the whole text, changes bits of its call's own device and pins only, and if no handler that may run at a place of main
disturbs what main has loaded there or the port mask main has just set. TLC finds that all 24 do. The invariant `KeptInv` says that this is so when they run: a register holds what the text can put there (`Holds`), a mask is as last
stored, and what main has loaded is still in the register but for bits main writes anyway (`MainFresh`). Two things made it harder than that. A handler sets the reset bit of a timer's TCR and clears it at once: such bits are clear whenever no handler is
between the two (`PulsesEnd`). The hardware sets the oscillator's ready bit in SCS, which main writes with `|=`: it can only do so when main has started the oscillator, or it is ready from the start (`NoSurprise`).

### Only model-checked

* Liveness (`HandedIsSent`, `GetTerminates`, `PendingIrqDrains`, `AllIsServed`, `LeaseUnlessLoss`, `CallReturns` of two modules, `CallReturnsAlone`, `LoopGoesOn`): it needs fairness, and ENABLED is out of the prover's reach.
* `PrintsItsArguments`, `FramesAreRight` and `LcdShowsBuffer`: their models compute with recursive functions and folds over data of any length (the digits of a number, the checksum, the commands of a display), and induction over data is out of reach. No module
  declares a recursive operator.
* `PllUsedRight` of `Preempt`: the set-up of the clock is one text, which TLC walks through. That a given text is safe, and keeps to its bits, is evaluated by TLC too, for each of the 24: texts are built by folds.

## Plan

What a next round would do, in this order:

1. `PllUsedRight` of `Preempt` in the way of `OthersBitsKept`: what a text must be like, as a predicate that TLC evaluates for every program, and a proof for any time the hardware takes.
2. `LcdShowsBuffer` with the program's place in place of its unrolled text.

## Not modelled, and why

* Functions no program calls: `rflpc_timer_disable()`, `rflpc_pwm_stop()` and `_reset()`, `rflpc_sys_timer_set_period()`, `rflpc_gpio_use_pin()`, `rflpc_adc_read_global()`,
  the receive filter of the MAC. Most are one store; how they meet others' accesses depends on callers there are none of.
* Of I2C: the statuses that return NOT_YET_IMPLEMENTED, two ports at once (`_mode` and the PORT2 of `i2c.c:620`), a slave that calls write().
* Of the devices: values converted, received or counted, the receive FIFO of SPI, the UART's FIFO and its divisors at other clocks.
* `test_simple_copy()` and `test_writing_from_ram()` of `samples/test-flash`, which call the ROM themselves, ignore what it answers, and are commented out of `main()`.
* Of the DHCP client: that the control word has the packet's size and not that less one (`ethernet/main.c:172, 219` do the same), and that a frame shorter than 300 bytes is copied as if it had them.
* Of `simple_udp/protocol.c`: flags and fragment offset, which read one byte of two and have no caller.
* `setjmp.c` (assembly), `rand.c` (a multiplication), what the default handlers print and blink before they loop for ever, and the debug macros.
* Interrupts during flash programming (`iap.c`): whether a handler lies in flash is the linker script's matter.
* Vendored register definitions, build files, datasheets.

Met while modelling, with no property about them: `printf.h:37` against `printf.c:106-111` is said in `PrintsItsArguments`, the open-drain bits of `pinconf.c:34-48` in `OthersBitsKept`; `samples/spi-leds/main.c:103` passes `RFLPC_CCLK/8`, which is 0, so its microsecond timer runs twice too fast; `rflpc_clock_init()` sets the flash timing after the new clock (`clock.c:109-118`);
`rflpc_irq_disable()` writes back all enabled interrupts to the register that disables them (`interrupt.h:55-58`), which `OthersBitsKept` would find in a program that had enabled one before, and none has; `rflpc_timer_reset_irq()` acknowledges all matches (`timer.c:177`).
