# Verification of the VHDL-Practice circuits and of the programs that drive them

The repository is a library of synchronous circuits in VHDL (serial links, buffers, button and timer
front ends, arithmetic, display drivers, a clock radio and a small processor), and an MP3 player on a
soft processor: C programs, their drivers, and the controllers the drivers serve.  This directory holds
TLA+ models of the circuits that carry a protocol, of the interrupt-driven drivers and of the player,
the TLC runs that check them on small instances, and TLAPS proofs for every value of the constants.

Paths of VHDL files are relative to `src/PROJECTS 2`.  For the C sources:

* the player: `src/PROJECTS 1/mp3_player/software_examples/app/mp3_player/src`
  (`player_lib.c`, `gui.c`, `alt_touchscreen/alt_touchscreen.c`);
* the audio driver: `src/PROJECTS 1/mp3_player/ip/Audio_Codec_WM8731`
  (`HAL/src/audio_codec_WM8731.c`, `audio_codec_wm8731.v`);
* the JTAG UART driver: `src/PROJECTS 2/NIOSII/software/testing_bsp/drivers/src`
  (`altera_avalon_jtag_uart_init.c`, `_read.c`, `_write.c`).

`PROJECTS 1/VHDL_Work-master/src` is an older copy of the same hand-written VHDL files.  Most of the 8930
files are Quartus databases, reports and netlists, or come from vendors; they are listed under "Not modelled".

## Inventory

| Component | State | Operations | What is hard | What makes it correct |
|---|---|---|---|---|
| FIFO (`fifo.vhd`) | register file, two pointers, full and empty flags | write, read, both at once, reset | flags computed from successors; both pointers at a limit in one cycle | first in, first out; no word overwritten unread; flags tell the truth |
| UART (`uart_tx.vhd`, `uart_rx.vhd`, `usart/usart.vhd`, `mod_m_counter.vhd`, `uart.vhd`) | state, tick counter, bit counter, shift register, baud counter | a clock edge with or without a tick, reset | two clocks that drift; back-to-back frames; counter widths | each bit sampled inside its own bit period; words arrive in order, once; frames end |
| SPI master (`spi_master.vhd`) | state, clock divider, toggle counter, two shift registers, selection | accept, wait, toggle, reload (continuous mode), end, reset | one counter for four modes and two directions; continuous mode; clk_div = 0 | words cross both ways; whole clock pulses; only the addressed device selected; a transaction ends |
| I2C master (`i2c_master.vhd`, `CLOCK/i2c_master.vhd`) | quarter counter, stretch flag, nine states, shift registers, busy, ack_error | accept, continue, complete, one per state on each edge of data_clk, reset | clock stretching; START and STOP placement; missing acknowledges; requests sampled late | bus rules kept; bytes cross unharmed; errors reported; one busy pulse per request |
| Echo UART (`uartmodule.vhd`) | receiver and transmitter machines, three dividers, one-cycle ready flag | a clock edge | one divider shared by two machines; sender on another clock; ready not remembered | every word comes back, in order |
| I2S (`i2s_rx.vhd`, `i2s_tx.vhd`, `i2s_tx_48.vhd`, `i2s_tx_48_2.vhd`) | bit counter, word select, shift registers | bit clock edges, channel writes | word select leads the data by a bit; asynchronous clears | left and right words keep their channels and bits |
| Front ends (`db_fsm.vhd`, `CLOCK/button_int.vhd`, `edge_detect.vhd`) | debounce state, free-running tick, LFSR, sample counter | a clock edge with a bouncing input | a bounce just before a tick; resets of opposite polarity | one pulse for one press |
| Timers (`stopwatch.vhd`, `CLOCK/time_keep.vhd`, `univ_bit_counter.vhd`) | prescaler, decimal digits | count, pause, clear, set | the carry from digit to digit; pausing on the tick | digits are the elapsed time |
| `delay_increment.vhd` | parser state, channel, two register files and their shadows | one character per clock, update, reset | stale shadows; channel out of range; wrap | update changes what was commanded and nothing else |
| `flag_buf.vhd`, `SReg.vhd`, `div.vhd`, `adc_ctrl.vhd` | a word and a flag; a shift count; a divider's registers; a sample memory | set and clear; shift; load and step; serial exchange | set with clear; off-by-one counts; divide by zero; memory read while written | mailbox; all bits leave; quotient; samples filed under their channel |
| Audio driver (`audio_codec_WM8731.c`, `.v`) | ring of samples, two indices, interrupt enable and request, the FIFO of the converter | write_samples, the interrupt routine, the converter taking a sample | an interrupt between any two reads of the program; a request that is raised again as soon as it is cleared | no sample overwritten unplayed; every sample plays; the routine returns |
| JTAG UART driver (`altera_avalon_jtag_uart_*.c`) | two rings, two enable bits, seconds of silence, two FIFOs | write, read, close, blocking or not; the interrupt routine; the alarm; a host that comes and goes | both sides write the enable bits; a full ring; a time-out that races the host | both streams in order; no lost wake-up; the caller told the truth; calls return |
| Touch screen driver (`alt_touchscreen.c`) | phase of the sample, its bytes, the published sample, event flags | the alarm, the SPI interrupt routine, get_pen, the dispatch of the callbacks | a sample published while it is copied; a flag raised while it is cleared; a pen lifted in mid-sample | what is shown was so at one instant; every transition told; the pen's state reported |
| Playlist (`player_lib.c`) | a circular list linked both ways | build, exchange, sort | assignments that follow links the one before changed | one cycle, `prev` undoes `next`, sorted by three fields |
| Player and user interface (`player_lib.c`, `gui.c`) | song playing, command, flow, play modes, the open file, files on the card | index, resume, open, read, write a frame, the commands of the screen, advance; a card taken out, power turned off | commands given in the middle of a frame and carried out later; a song that does not open or makes no sound; power lost at any moment | the display, the card and the decoder name one song; the list is played through; a restart resumes |
| Clock radio (`CLOCK/`), processor (`NEW/`) | — | — | drafts, see "Not modelled" | — |

How they interact: `uart.vhd` joins a baud counter and a receiver by the tick; `uartmodule.vhd` hands a
word from its receiver to its transmitter through a one-cycle flag; `fifo.vhd` was meant to stand behind
the receiver and in front of the transmitter of `uart.vhd`, where its instances are commented out;
`flag_buf.vhd` is the textbook alternative.  Masters and devices meet on lines: one for UART, four for
SPI, two wired-and lines for I2C.  Nothing else is shared: each circuit has one clock, so the
interleavings that matter are between circuits on different clocks, or between a circuit, its client and
the device at the other end.

The player decodes one frame at a time and hands it to the audio driver, whose ring the interrupt routine
empties; while the ring is full, or the player pauses, it calls the user interface, which asks the touch
screen driver for the pen and sets the command the player carries out behind the frame.  A driver and its
interrupt routine share the variables of the driver and one processor: the routine runs between any two
accesses of the program, the program never within the routine.

## How a circuit is modelled

A step is one rising edge of `clk`.  The registers of the circuit (the `*_reg` signals, or the signals
assigned under `rising_edge`) are the VARIABLES and keep their names.  The branches of the next-state
process are the actions, with the input ports as parameters; the outputs are operators over the registers.
An asynchronous reset is an action that may happen between any two edges.  Generics are CONSTANTS.  What
the circuit is connected to - a line, a device, a client - is in a module of its own that composes
the circuit's module with it, so that the circuit's module holds nothing but the translation.

A vector is a function of bit positions, where its bits matter, and a counter is an integer that wraps at the
width of the register.  A signal that is driven high impedance, or both ways at once, is a model value
(`Z`, `X`).  Some operators are followed by a variant marked `Fault:`; no specification uses it.  It is a
plausible bug at that place of the circuit, kept to demonstrate that the property named for it in
`PROJECT.json` does fail.

## How a program is modelled

There is one processor.  A function of the program is split where it reads or writes something an interrupt
routine shares - an index, a flag, a register of the device - and each piece is an action, guarded by a program
counter and by no routine running; what the program read before is a variable of the model (`in`, `out`,
`wrapped`, `copy`), so that it may be stale when it is used.  An interrupt routine is one action per
access of the device where the device acts in between, and one action altogether where it does not.  Code that
runs with interrupts disabled is one action.  Where the code goes on with a wrong pointer or a negative length, the
player's model stops in a state called `undefined`: nothing is claimed of what follows.

## Modules

| Module | Models | Composes |
|---|---|---|
| `BoundedQueue` | what a FIFO promises | |
| `Fifo` | `fifo.vhd` | |
| `FifoClient` | a client that keeps count and leaves one register free | `Fifo`, implements `BoundedQueue` |
| `FifoFlagged` | a client that goes by full and empty | `Fifo` |
| `FifoUse` | the circuit under one client or the other | `FifoClient`, `FifoFlagged` |
| `SerialChannel` | what a serial link promises: words in, the same words out, at most `Capacity` on the way | |
| `ModMCounter` | `mod_m_counter.vhd` | |
| `UartTx`, `UartRx` | `uart_tx.vhd`; `uart_rx.vhd` and `usart/usart.vhd`, which differ in one line (`ReadsNext`) | |
| `UartLink` | both ends, each with its own clock and baud counter, on a line | `UartTx`, `UartRx`, two `ModMCounter`, implements `SerialChannel` |
| `SpiMaster` | `spi_master.vhd` | |
| `SpiLink` | a client, and a device of the same mode on the selected line | `SpiMaster`, implements two `SerialChannel` |
| `I2cMaster` | `i2c_master.vhd` | |
| `I2cBus`, `MCI2cBus` | a client, and a device that stretches and acknowledges at will | `I2cMaster` |
| `UartModule` | `uartmodule.vhd` | |
| `UartEcho`, `MCUartEcho` | a sender with its own bit length, a listener | `UartModule` |
| `AudioCodec` | the audio driver, its interrupt routine, the controller's request and FIFO, the converter | |
| `JtagUart` | the JTAG UART driver with its routine, alarm, device and host | |
| `TouchScreen` | the touch screen driver, the converter behind it, the pen and the application's loop | |
| `Playlist` | the list of songs: building, exchanging, sorting | |
| `Player`, `MCPlayer` | the player's loop, input and output, commands, card and power | `Playlist` |
| `UartProofs` (the UART's link and its FIFO), `SpiLinkProofs`, `I2cBusProofs`, `JtagUartProofs`, `AudioCodecProofs`, `TouchScreenProofs`, `UartEchoProofs`, `PlayerProofs` | the proofs | |

### FIFO

`Write`, `Read` and `WriteRead` are the alternatives of the control case with the register file process,
so a write when full moves nothing.  `FifoClient` adds the words the client believes stored;
`ImplementsQueue` maps the registers from the read pointer on to the queue of `BoundedQueue`.  One register
must stay free because the circuit's empty flag is not usable: it is computed from the two
successors (`fifo.vhd:103`) and so comes up one read after a full buffer and fails to come up after the
last word (run `fifo_empty`).  `FifoFlagged` is a client that believes the flags; it records the registers that hold an
unread word.  It may be let read past the last word, and its words may be stuck behind a false empty, but none is
overwritten before it is read (`NothingOverwritten`).  It writes and reads in one cycle only while a word is unread, the full limit
included; with nothing unread `fifo.vhd:116` moves the read pointer past the word just written, which is not checked.
`FifoUse` puts the circuit under either client: which one is chosen at the start and at every reset.

### UART

`Edge(tick, ...)` of each end is one clock edge, with the four states as operators.  In `UartLink` either end
may take a clock edge at any time as long as, counted from the start of the frame, neither is more than
`MaxDrift` edges ahead: that is what "the same baud rate within a tolerance" means, without real time.
`ReadsNext` is the line in which `uart_rx.vhd:88` builds the next shift register from itself; as a
combinational loop it settles on copies of the sampled bit.  `Width` is the width of the shift register
(8 in the code) and `DBIT` the bits sent.  The transmitter's reset is active high and the receiver's and
the counter's active low; the model has one reset that reaches all.  The line is sampled without a
synchroniser, so metastability is outside the model, and there is no false-start or framing check to model.

### SPI master

`Accept`, `Rest`, `Wait` and `Hit` are the ready state with and without enable and the execute state with and
without the clock ratio met; `Hit` is the conjunction of what the code does at that point: `TogglesClock`,
`Receives`, `Transmits`, `Reloads`, `Ends`, in the code's order (a later assignment wins).  The device
samples while mosi may be changing, so it may take either value.  The client holds `cont` from the last bit to the end of the word.

### I2C master

`ClockGen` is the process that makes the two clocks and detects stretching from the line; the state machine
runs on the edges of `data_clk` found in the same cycle, rising edges in one action per state, falling edges in
`StartFalls`, `AckFalls`, `RdFalls`, `StopFalls`.  The lines are wired-and.  The device follows START and
STOP, samples on rising and drives on falling `scl`, may hold `scl` low whenever it has fallen, and may
refuse any acknowledge.  `HoldsRequest` and `WaitsForIdle` are the client's obligations that the interface does
not spell out: keep the request from the last bit of a byte read to its acknowledge (otherwise the
acknowledge, decided at `i2c_master.vhd:167`, contradicts the branch taken at `:194`), and raise `ena` after a
reset only when busy is low (otherwise the first START may fall in the wrong quarter, because the reset does not
touch `data_clk`).  With either set to FALSE, `NackBeforeStop` and `OpensWithStart` respectively fail.
`OpenDrain = FALSE` is the copy under `CLOCK/`, which drives `scl` high.  That copy also
lowers `busy` in `slv_ack1`; this is not modelled.

### Echo UART

`Receiver` and `Transmitter` are the two machines, `Div16`, `RxDiv` and `TxDiv` the dividers; `Edge` is one
clock edge of all of them.  The sender chooses the length of its bits anew for each frame.  `AvoidsTick`
keeps a start bit from arriving in the very cycle in which the receiver's divider ends (see "Findings").
The reset is the initial state only.  `rx` is again sampled without a synchroniser.

### Audio driver

`write_samples` is `CallWrite` to `AdvanceWrite`: it compares the two indices (`CompareIndices`), reads them
again for the free space (`ComputeSpace`), enables the interrupt by a read (`ReadControl`) and a write
(`EnableInterrupts`) of the register whose other bit the controller sets, and stores the frame sample by sample.
A frame that does not fit is refused and the player calls again.  The routine is `Enter` to `Return`; `ClearIrq` is
its loop that writes until the request reads as clear.  The controller raises the request on every clock on which the
FIFO is less than half full and the interrupt is enabled (`audio_codec_wm8731.v`); `Latched` applies that to every
new value of the register.  `prompt` is a processor fast enough to serve an interrupt before the converter takes the next
sample; the safety properties hold without it, `PlaysOn` is stated with it.

Because of the first finding below the routine may move one sample too many; the model records that as `overdrawn` and the
properties speak of the time before.  Volume, balance, sample rate and the I2C set-up are register writes with no state of the driver
and are not modelled.

### JTAG UART driver

The interrupt-driven driver, without an operating system.  A write looks for a stretch of free slots (`WriteLook`), copies
into it (`WriteCopy`), moves the index (`WriteAdvance`), turns the transmit interrupt on with interrupts disabled (`WriteKick`), and
waits for the routine to make room or for the host to be declared gone (`WriteWait`); a read is the mirror image; close waits for the
ring to drain.  `left` and `done` are the code's `count` and `ptr - start`.  The routine reads the control register once for both parts of the
body of its loop (`IrqLook`), fills the receive ring and turns its interrupt off when the FIFO still holds characters (`IrqReceive`), sends as
many as there was space for and turns its interrupt off when space is left (`IrqTransmit`).  `Alarm` counts the seconds without activity of the host up to
the time-out.  The host may be unplugged and plugged in at any time.  The characters are numbered, so that order and completeness
are equalities of sequences.  `ioctl`, which sets the time-out, and the small polled variant of the driver are not modelled.

### Touch screen driver

`AlarmStarts` and `AlarmSeesPenUp` are the alarm, `SendNext` and `EndSample` the SPI interrupt routine, which steps the converter
through five bytes and looks at the pen once more behind the last.  `Publish` is what both do with a sample: sequence number, pen
state from two samples in a row, event flags, position.  `ReadNumber` to `CheckNumber` are the loop of
`alt_touchscreen_get_pen`, which copies the fields and starts again when the number has moved; `TestFlag` and `CallBack` are the
dispatch.  A position is the place the pen touches: x and y are right when both are that place, so a coordinate of two halves that do not
belong together shows.  `trail`, `during` and `owed` are history.  Assumed of the board, and stated in the module: a byte
on the wire is shorter than an alarm period, the pen touches no other place during one sample sequence, and fewer samples are published
during one call of get_pen than the number counts.  Calibration and the scaling to pixels are arithmetic on the position and are left out.

### Playlist and player

`Playlist` translates the list with one EXCEPT per assignment, in the order of the code, because the nodes the assignments name
may be the same.  The sort is one action per turn of its inner loop.  In `Player`, `Index`, `SortTurn`, `NextField` and `Resume` are the start,
`OpenFile` to `EndOfSong` are `NiosIIMP3_Input`, `FrameAccepted` and `LeavePause` are `NiosIIMP3_Output`, the `Press...` actions what a touch does in
`gui.c`, the `Advance...` actions the end of the loop in `NiosIIMP3_PlayPlaylist`.  `Proceed` closes the file, resets command, count and flow and saves the
state.  The decoder is a number of pieces that decode or, for a `Silent` song, do not, and may leave bytes over in its buffer (`rest`).  The next position asked
for is the one to go on from less those bytes, so it is negative when the user has touched the left end of the time bar in a song of `ShortTag`, whose tag is
shorter than the rest (`SeeksBeforeStart`).  A seek that fails goes through `WaitOnSDCardFailure` and is tried again (`SeekFails`, `Retry`); the one of
`NiosIIMP3_Error` is not looked at (`SeekIgnored`).  The card may be taken out and put back; it can be read and written again once `WaitOnSDCardFailure` has
initialised it (`PassOver`, `Retry`).  The power may go between any two steps; the list and
the saved state stay on the card.  A file is written in one step.  The model ends in `undefined` where a third song in a row fails to open and where a read fails
(`player_lib.c:1818`, `:2159`).

## Runs

The project keeps a dozen runs, one for a distinct question each.  Several properties that answer one question are
conjoined under one name; the parts have their names in the modules.

| Run | Module / cfg | Shows | Bounds |
|---|---|---|---|
| `fifo` | `FifoUse` | a counting client sees a queue (`CountIsDistance`, `ImplementsQueue`); for a client that goes by the flags the full flag protects the words (`NothingOverwritten`) | 4 registers, 2 data values |
| `fifo_empty` | `FifoUse` / `FifoUse_Empty` | **fails**: empty is raised with words stored | the same |
| `uart_link` | `UartLink` | refinement of the channel, sampling and starting (`InStep`), delivery (`EveryWordArrives`) | 2 bits, 2 words, 2 edges a tick, drift 7 |
| `spi_link` | `SpiLink` | selection, delivery both ways and termination (`WordsDelivered`), whole pulses (`ClockWellFormed`) | 2 slaves, 2 bits, clk_div 0 and 2, 2 words, addresses 1 and 3 |
| `i2c_bus` | `MCI2cBus` / `I2cBus` | one busy pulse per request, the rules of the bus (`BusRules`), bytes both ways and the error told (`BytesCross`), completion (`BytesComplete`) | bytes of 2 bits, divider 2 |
| `uart_echo` | `MCUartEcho` / `UartEcho` | sampling and starting (`InStep`), words come back, none lost, no overrun (`WordsEchoed`) | 2 bits, dividers 4 and 4, bits of 40, 43 and 46 cycles |
| `audio` | `AudioCodec` | samples moved in order (`MovesInOrder`), the FIFO never overfilled (in `StateOK`), at most a frame left asleep, everything plays (`PlaysOn`) | 5 slots, frames of 2 and 3, a FIFO of 4 |
| `audio_wrapped_count` | `AudioCodec` / `AudioCodec_NothingReplayed` | **fails**: the routine moves a slot main has yet to fill | the same |
| `jtag_uart` | `JtagUart` | order both ways (`InOrder`), no lost wake-up, the caller told (`CallerKnows`), delivery (`EverythingArrives`), calls return (`CallsEnd`) | 3 slots, FIFOs of 1, calls of 1 and 4 characters, 3 in, 4 out |
| `touch_screen` | `TouchScreen` | samples of one instant (`SampleTrue`), events told once raised (`EventsTold`), the pen reported (`PenReported`), fresh positions (in `StateOK`) | 2 places, numbers of 1 bit, a burst of 1 |
| `player` | `MCPlayer` / `Player` | the list whole and sorted, display, card and decoder in step (in `StateOK`), resumption (`ResumesSong`), the list played through (`ListPlayed`), the decoder going on once the card stays in (`InputReturns`) | 3 songs, 2 pieces each, 6 acts of the user |
| `player_two_songs` | `MCPlayer` / `Player_TwoSongs` | **fails**: two songs do not survive an exchange | 2 songs |

Why the bounds are enough:

* FIFO: with four registers the pointers can be equal, one apart either way, and at a distance that is none of
  these, which is all the code tells apart; both wrap; runs of any length are covered, as nothing else is bounded.
* UART: two bits make a first and a last; two words make a back-to-back pair, and a reset starts over.  With two
  edges a tick the sampling point is 16 edges from either end of a bit, of which up to 8 are lost to the phase of the
  two baud counters: `MaxDrift = 7` is the largest drift under which the run passes, 8 fails, so the run
  checks the exact boundary.
* SPI: two bits are both first and last of each loop; `clk_div` 0 exercises its own branch; address 3 does not exist;
  two words show continuous and separate transfers and what one leaves behind for the other.
* I2C: with bytes of two bits a command is one address bit and rw; `divider = 2` gives each quarter an inside and an
  end.  The sequence of requests is not bounded.  Data words are two of four, to keep the run below two minutes.
* Echo: each bit is sampled at its very end, so a fast sender is misread almost at once and a slow one is tolerated:
  the bit lengths run from nominal to 15 per cent slow.  Gaps between words are arbitrary.
* Audio: five slots wrap with every second frame, at every offset, because 2 and 3 add up to all of them; the FIFO of four has a
  half-full mark inside it.  Samples are numbered modulo two laps of the ring, so the run is not bounded in time.
* JTAG UART: a ring of three slots holds two characters; a call of four goes round it and must wait, one of one fits.  With three
  characters in and four out every index has wrapped.  The FIFOs of one make the routine run for each character.  Nothing
  bounds the number of calls of read and close, of time-outs or of times the host comes and goes.
* Touch screen: two places tell the touch before from this one; a one-bit number is the smallest that a
  burst of one does not bring back to the same value.  Samples and calls are not bounded.
* Player: with three songs the two neighbours of a pair are one node, the closest case in which they are not the pair; the ranks make each of the three
  sorts exchange something.  One song does not open, one makes no sound, the third has a tag short enough for the position before
  the start.  Six acts suffice for pause, skip, pause, card out, card in and power off in a row.

Deadlock is checked in every run but the player's two: the player stops for good where it leaves its loop, and in `undefined`.

Fairness: `UartLink` assumes that both clocks keep running, `SpiLink` that the system clock does (not that the client asks for
anything), `I2cBus` that the clock does and that the device lets `scl` go in the end, as I2C requires of a
slave.  `AudioCodec` assumes that the processor serves interrupts and the converter runs on its clock (weak), and that the main loop gets on between
interrupts (strong: each interrupt disables it for a while).  `JtagUart` assumes that a call once made goes on, that interrupts and the alarm are served, and that a
host that is there takes what is in the FIFO; nothing is assumed of calls being made, except by `AllRead`, which speaks of a program that reads again and
again.  `TouchScreen` assumes the wire, the alarm, the interrupt routine and an application that keeps calling the update, as the player does.  `Player` assumes that
the program runs; the user, the card and the power are free.  Its liveness properties name what they need of the user and the card: for `ListPlayed` a card left in, for
`InputReturns` one that stays in from some time on, and for both a user who does not send the player before the start of a song, where it hangs (see "Findings").  No fairness is put on requests or resets.

## Findings

1. `fifo.vhd:103` (run `fifo_empty`) - a read raises empty when the successors of the two pointers are equal, so on the first read of a full buffer, with
   all but one word still stored and refused to the reader, and never on the last word.  The header at 11-12 says that empty means the buffer can't be read.
2. `audio_codec_WM8731.c:366` (run `audio_wrapped_count`) - both indices wrap at depth - 1, the count of a wrapped ring uses the
   depth: one sample too many.  With the last stored samples moved the routine writes an old slot, and the read index passes the write index.
   The comment at 383-385 says that with no samples in the buffer it disables the interrupt.
3. `player_lib.c:643` (run `player_two_songs`) - the exchange of a pair in a list of two takes the pair for its own neighbours and breaks the links back.
   The comment at 821-822 says the list is circular.

Other disagreements found in the circuits, kept out of the runs and visible by changing one line of a configuration or by reading the code:

* `uart_rx.vhd:88` - the shift register is fed from its own next value; `usart/usart.vhd:68` has the line right.
  With `ReadsNext = TRUE`, `UartLink` violates `ImplementsChannel`.
* `uart_rx.vhd:103` - the four-bit tick counter cannot reach the 24 or 32 ticks the generic's comment offers.  With
  `SB_TICK = 24`, `UartLink` violates `EveryWordArrives`.
* `CLOCK/i2c_master.vhd:217` - drives `scl` to '1', so its own stretch detection cannot work.  With `OpenDrain = FALSE`,
  `I2cBus` violates `StretchHonoured`.
* `uartmodule.vhd:186` - the divider is cleared one cycle after the start bit is seen; a tick in between is taken.  With
  `AvoidsTick = FALSE`, `UartEcho` violates `StartsOnStartBit`.
* `uartmodule.vhd:186`, `:209` - the end of a word in the receiver leaves the transmitter's divider running.  With two cycles to a tick or one tick to
  a half bit its last tick can fall into the cycle in which the transmitter starts, and the start bit is half a bit short: with `divisor = 1`, or
  `HalfBit = 1`, and bits in time, `UartEcho` violates `EchoesWords`.  The values in the source are far from both.
* `uartmodule.vhd:136` - the line is low in the first half of the stop bit.

Disagreements of the player that its liveness properties assume away, and that TLC shows without the assumption:

* `player_lib.c:1836` - the position asked for is before the start of the song when the user touches the left end of the time bar (`gui.c:1601`) and the decoder has more
  bytes left over than the tag is long, as with any song without a tag.  `lseek` refuses it and the loop at 1837 asks for it for ever, with the card in: the player
  hangs.  With `card = "ready"` in place of `Undisturbed`, `AllPlayed` is violated.
* `player_lib.c:2091` - `NiosIIMP3_Error` ignores the result of its read: with a card that was taken out and put back it decodes the same bytes for ever, as nothing
  initialises the card.  Without `pc # "error"`, `InputReturns` is violated.

Seen in the C sources and outside what the properties speak of: `WaitOnSDCardFailure` returns 0 on every path (`player_lib.c:1556`), so a
card taken out passes the song over; the third failure in a row hands the player's state where the player is
expected (`:1818`); a failed read adds its negative length (`:2159`); reading back the play modes sets the headphone balance to them (`:2680`, `:2687`); clearing the
playlist frees the first song's strings and keeps `list_start`; closing the audio driver frees its memory and leaves the interrupt routine
registered (`audio_codec_WM8731.c:216`).

## Proofs

All for every value of the constants allowed by their named assumptions.

* **FIFO** (`UartProofs`): `UseTypeCorrect`, `DistanceCorrect`, `Implementation`, `OverwriteFree`.  `UseInv` holds the invariant of the client in
  charge and says that the other's bookkeeping is as reset left it.
  - The counting client's (`IInv`): `CountedApart` ties the count to the pointers and to both flags.  It is stated so that it is inductive together with
    the types: without its two conjuncts on the flags, the count could be right and a write or read the client is sure of still be refused, and the
    pointers would part from the count; without the bound `Depth - 1` in the types, a count of 0 and one of `Depth` would look alike.  `Implementation` shows
    that every step of the circuit is a step of `BoundedQueue` or a stutter, from lemmas on the sequence of registers between the pointers.
  - The flags client's (`FlagInv`): an unread word lies between the pointers, or the buffer is full with equal pointers (`UnreadInWindow`).  Without it a
    write that is not refused could meet an unread word.  The lemmas on the window say what each use of the ports does to it; that a write and a read at once
    keep it needs the pointers apart, which an unread word gives (`PointersMeet`).
* **UART** (`UartProofs`): `TypeCorrect`; `KeepsInStep` and `IsAChannel` under `WithinDrift`: one stop bit of 16 ticks, and `2 * MaxDrift <= 7 * M`, that is at
  most three and a half ticks of drift in a frame, at any divisor.  The run has `M = 2`, `MaxDrift = 7`, exactly this bound.  `StepInv` counts the ticks each end
  has come in the frame (`TxTicks`, `RxTicks`) and says how far the two may be apart: `Skew`, the difference in clock edges with the two baud counters, less the drift, stays
  in an interval of `MaxDrift` and two ticks, because the receiver looks for the start bit only once a tick and the transmitter waits for
  one.  From that the lemma `GapBounds` has the transmitter at most eight ticks ahead of the receiver and five behind, so that it is in the bit the receiver samples.
  `WordInv` splits the word under way between the two shift registers.  `IsAChannel` is for `~ReadsNext`, the code of `usart.vhd`: every step is then a step of
  `SerialChannel` or a stutter.
* **SPI** (`SpiLinkProofs`): `SelectsOne` (in execute the register `slave` is the one derived from the address, every other line is high), `TypeCorrect`,
  `ClockCorrect`, and the two directions as channels, `MosiRefines` and `MisoRefines`: the safety part of `WordsDelivered`, whose third part is under fairness.  The
  invariants of the channels (`MosiInv`, `MisoInv`) derive from the toggle counter how many bits have been given and taken, and split the word under way
  between the shift register of one end, the line and the register of the other; in continuous transfers the last word read is still to be announced while the
  next is being shifted, which is why `Incoming` speaks of `continue`.
* **I2C** (`I2cBusProofs`): `TypeCorrect` needs `ShiftInv`: the device's shift register is full only while `scl` is high and not
  empty while it sends - otherwise a bit could be appended to a full register.  `BusyCounts`, under `WaitsForIdle`, needs the
  number of rises so far as a function of state and `busy`.  `RulesKept` and `BytesCorrect` are proved under `WellUsed`: a divider of at least 2, an
  open-drain `scl`, a client that keeps its request through an acknowledge and waits for the idle bus.  None can be left out of the
  rules: with `divider = 1`, `sda` falls in the same cycle as `scl` at a START, and TLC also finds `OpensWithStart` violated without `OpenDrain` or
  `WaitsForIdle`, and `SdaStable` violated without `HoldsRequest`.  `ClockInv` makes the outputs of the clock process functions of the
  count and says that the count stands still at the start of the third quarter while the device stretches; it excepts the first edge after a reset, which may be a
  false one and finds the master in ready.  `Together` gives, for each of the nine states of the
  master, where the device is, how many bits of which byte it has or has shown, before and after the line moves (`Early`, `Sampled`, `After`), and which
  bytes are still due to it.  The lemmas go edge by edge: the clock between edges (`QuietKeeps`), the falling edge (`FallsKeeps`), and one lemma for each kind
  of rising edge.
* **JTAG UART** (`JtagUartProofs`): `TypeCorrect`, `WakeUpsKept`, `CallerTold`, for rings of more than one slot, FIFOs, counts and a time-out above
  zero.  The invariant is `TypeOK /\ Locals /\ Accounts /\ NoLostWakeUp`.  `Locals` says that a call that looks has something left to move and that a stretch it copies is not
  empty: without it a read could come to turn the interrupt on with nothing read, and `ReceiverAwake` would not survive.  `Accounts` relates what is
  in the ring to what the caller has been told and to the call under way, at each of its steps.  Lemmas replace the remainders of the code's
  indices by `Wrap` and the counts by `Dist`, sums without a division, which the solver can handle.
* **JTAG UART, order** (`JtagUartProofs`): `StreamsInOrder`.  The invariant `Places` gives the position of every character
  slot by slot: `Sent` and `Received` say which number lies in each slot of the ring, in the FIFO and at the far end; `SendRoom` and `ReceiveRun` say what a
  call that is copying has claimed - the index it read is still the one it owns, its stretch is still free, or still filled, though the routine has run since.  Without
  these two a stale index could be written back over the routine's work.  `Lined` joins the three pieces into the sequence `InOrder` speaks of.
* **Audio driver** (`AudioCodecProofs`): `Types`, `Ordered`, `SleepIsShort`.  `Placed` has the samples not yet moved in the slots between the indices, in order.
  `Room` says what `write_samples` knows though the routine may have run since it looked: the read index it compared has not passed the write index, and
  a frame found to fit still fits with a slot to spare.  Without it nothing keeps a stored sample from meeting an unplayed one.  `Sleeps` bounds what is in
  the ring when the routine turns itself off by the frame that is being stored.  `Placed` and `Room` hold until `overdrawn`, the wrapped count of the
  first finding above.
* **Touch screen** (`TouchScreenProofs`): `StateCorrect`, `SamplesTrue`.  `Bytes` says where each byte of the conversion is - read, in the receiver, in the
  converter - and that it is half of the present place, unless the pen has been lifted; `Copied` and `Witnessed` say what the caller has copied of a sample, and that whatever
  was shown during the call is recorded.  The retry compares sample numbers, so a call must see fewer samples than one turn of the number (`BurstAssumption`).

* **Echo UART** (`UartEchoProofs`): `TypeCorrect` for every sender; `StaysInStep` under `AvoidsTick` and `InTime`; `EchoComplete` under these and `Ample`.
  `InTime` bounds the sender's clock: for each length of its bits, every sample lies inside its bit and the receiver is done inside the stop bit.
  The module of the run assumes it (`SenderInTime`), so TLC evaluates it for the bits of 40, 43 and 46 cycles.  Without `AvoidsTick` a tick of the old count moves the frame half a bit early (see "Findings").  `Ample`,
  two ticks to a half bit and three cycles to a tick, holds in the run, and TLC refutes `EchoesWords` where either half of it fails.
  `RxInv` measures the frame in cycles from both sides: from the second cycle on `Elapsed`, the sender's time, is `RxTime + 2 - D`, the receiver's by its state and its
  dividers.  Alone this gives `InStep`.  The transmitter has no such fixed distance, because the receiver restarts the divider both share in the middle of a frame that goes out: `Paced`
  keeps the listener's age between `Gap`, the time since the transmitter started as the incoming frame tells it, and `TxTime`, and `TxTime` at most `Slack` ahead of the age.  `Slack` is one short
  tick at the start and one for the restart.  From it follow the listener's samples, and that transmitter and listener are done before the next word is.
  `WordInv` splits the words due into the one going out and the one coming in, and says of each which of its bits are on the line, in a register, and heard.

* **Player** (`PlayerProofs`): `ListIsCircular`, `ListIsSorted`, `PlayerStateOK`, `SongIsResumed`, under `Playable`: finitely many songs, at least one, and not two.
  With two the first of these fails (see "Findings"); without a song the code follows a null pointer.  With one the sort makes no turn; from three on the two
  neighbours of a pair are not in it, though they may be one node.  The invariant is `PlayerInv`, the types with three parts.
  `ListInv` gives the order the list stands in: while the sort runs there is an order `o` of the songs with `InOrder(list, o)`, and behind it the order is the index on the card.
  Of that order `Sinking` says what turn `t` of a bubble sort has achieved: the place the loop has come to holds the greatest key so far, and the last
  places, one per round, hold theirs for good.  `Stable` says that songs of one key stand as the sorts before left them, which is
  why three sorts by one field each make one by three; without it `ListSorted` is not kept from one field to the next.
  `PlayInv` names, for each place of the program, the open file, the song of a command that waits, and the count of files in a row that did not open.  `ResumeInv` ties the song
  heard to what the card says: `Nth` are the song saved and the two behind it, `FirstToOpen` the first of them whose file opens, and the player is on its way
  to that one or has it on, unless the card has missed a song (`unsaved`).  It is what a change of song, a pass-over and a power cycle have in common, and why a song that is heard,
  though it is not the one saved, is found again.
  `Order` and `Built` are recursive functions.  No induction theorem applies to them, so `OrderIs` and `BuiltIs` argue from the least number for which the function and its value part
  (`LeastOf`, from the well-founded order of the naturals).

Only model-checked: everything under fairness (`EveryWordArrives`, the end of a transaction in `WordsDelivered`, `BytesComplete`, `PlaysOn`, `EverythingArrives`,
`CallsEnd`, `EventsTold`, `PenReported`, `ListPlayed`, `InputReturns`), which the prover does not do.  Every safety property of a passing run is a theorem.

## Plan

The order is by how much behaviour a module adds and how much of it a test bench would miss.

1. *Done*: FIFO, UART, SPI, I2C, echo; the audio, JTAG UART and touch screen drivers; the playlist and the player; the proofs above.
2. *Done*: every safety property of the passing runs as a theorem.  What is left to prove is liveness, which stays with TLC.
3. Circuits that would each take the place of a run: `I2sTx`, `I2sRx` and a link against two `SerialChannel`, one a channel of sound;
   `Debouncer` (`db_fsm.vhd`) and `ButtonTimer` (`CLOCK/button_int.vhd`) under a contact that bounces; the cascade of `stopwatch.vhd` against a count of ticks;
   `delay_increment.vhd`; `flag_buf.vhd` as a mailbox; `SReg.vhd`; `div.vhd` against integer division; `adc_ctrl.vhd`.  Each is
   smaller than any of the circuits and programs modelled, has one clock and no partner that acts on its own.

## Not modelled

* Drafts.  In `CLOCK/`, `i2c_ctrl.vhd` and `tuner_ctrl.vhd` are not valid VHDL, `enc_int.vhd` and `smi_int.vhd` are empty,
  `mem_ctrl.vhd` combines vectors of different widths, `time_keep.vhd` applies `'val` to signals.  In `NEW/`, the decoder knows one instruction
  category and never loads the program counter, so the processor has no control flow to check; `interrupts.vhd:23` triggers on masked
  lines all the same.
* No protocol: combinational arithmetic, single counters and registers, display multiplexers and segment tables, the VGA
  counters, the PWM pair, the textbook state machines `eg_fsm.vhd` and `two_eg_fsm.vhd`.  The LCD controllers are commented out.
* Third-party or generated: `fixed_pkg.vhd`, `spi_master_slave`, `8051freecorevhdl`, the board support of `NIOSII` other than its JTAG UART driver, the
  megafunction wrappers in `ALU/` and `NEW/`, `lpm_ex`, the PLL and JTAG tutorials, `PROJECTS 1/MTDB_Systhesizer`, all databases and
  reports; in the player, the MP3 decoder (libmad) and the FAT file system (Rockbox).
* Of the player: fonts and images, which as C tables are three fifths of its C lines, drawing, the scrolling of the song list, the parsing of tags, `gui_old.c`, which is not compiled, and the set-up of
  the board.  The SD card driver is a polled sequence of register accesses in one thread; the player's model sees a card that is there or not, and initialised or not.
  So the models stand for a small share of the C lines, though for most of those that share state with an interrupt or a card.
* Of the modelled circuits: metastability of asynchronous inputs, delays within a clock cycle, the mid-frame reset of
  `uartmodule.vhd`, the extra busy pulse of `CLOCK/i2c_master.vhd`, several devices on one I2C bus, and a reset of the I2C
  master that leaves the device driving `sda`.
* Of the modelled programs: `ioctl` and the polled variant of the JTAG UART driver; the registers of the audio codec other than the
  interrupt's; starting and stopping of the touch screen driver and its calibration; a file that is half written when the power goes.
