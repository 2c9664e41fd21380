------------------------------- MODULE SpiMaster --------------------------------
(***************************************************************************)
(* The SPI master of spi_master.vhd.  A step is one rising edge of clock.  *)
(* In ready it waits for enable; in execute it counts clk_ratio cycles     *)
(* between hits, and at each hit counts clk_toggles up, toggles sclk and   *)
(* shifts a bit in or out in turn.  Every right-hand side reads the values *)
(* before the edge, and where several branches assign a register the last  *)
(* one wins.                                                               *)
(***************************************************************************)
EXTENDS Integers, Sequences

CONSTANTS
    slaves,     \* slave select lines
    d_width,    \* bits of a word
    Z           \* an undriven line

ASSUME SlavesAssumption == slaves \in Nat \ {0} /\ d_width \in Nat \ {0}

VARIABLES
    state, slave, clk_ratio, count, clk_toggles, assert_data,
    continue, rx_buffer, tx_buffer, last_bit_rx,
    sclk, ss_n, mosi, busy, rx_data

control == <<state, slave, clk_ratio, count, clk_toggles, assert_data,
             continue, last_bit_rx>>
masterVars == <<control, rx_buffer, tx_buffer, sclk, ss_n, mosi, busy, rx_data>>

Bit == {0, 1}
Word == [1 .. d_width -> Bit]           \* most significant bit first
Toggles == 2 * d_width                  \* sclk edges of a word
Deselected == [i \in 0 .. slaves - 1 |-> 1]

\* Fault: a shift that keeps the bit it should drop.
ShiftedLong(w, bit) == Append(w, bit)

\* Shift left by one with a new least significant bit.
Shifted(w, bit) == Append(Tail(w), bit)

\* Fault: the address taken modulo the number of slaves.
SlaveModulo(addr) == addr % slaves

\* The line an address selects: the first one when there is no such line.
SlaveFor(addr) == IF addr < slaves THEN addr ELSE 0

\* Only the registers the reset names have known values after it; the others
\* are assigned before they are read, and start with any value.
Init ==
    /\ state = "ready" /\ busy = 1 /\ mosi = Z
    /\ ss_n = Deselected
    /\ rx_data = [i \in 1 .. d_width |-> 0]
    /\ sclk \in Bit
    /\ rx_buffer \in Word
    /\ tx_buffer = rx_buffer
    /\ slave = 0 /\ clk_ratio = 1 /\ count = 1 /\ clk_toggles = 0
    /\ assert_data = FALSE /\ continue = FALSE /\ last_bit_rx = 0

Rest ==
    /\ state = "ready"
    /\ busy' = 0
    /\ ss_n' = Deselected
    /\ mosi' = Z
    /\ continue' = FALSE
    /\ UNCHANGED <<state, slave, clk_ratio, count, clk_toggles, assert_data,
                   last_bit_rx, rx_buffer, tx_buffer, sclk, rx_data>>

Accept(cpol, cpha, clk_div, addr, tx_data) ==
    /\ state = "ready"
    /\ busy' = 1
    /\ ss_n' = Deselected
    /\ mosi' = Z
    /\ continue' = FALSE
    /\ slave' = SlaveFor(addr)
    /\ clk_ratio' = IF clk_div = 0 THEN 1 ELSE clk_div
    /\ count' = clk_ratio'
    /\ sclk' = cpol
    /\ assert_data' = (cpha = 0)
    /\ tx_buffer' = tx_data
    /\ clk_toggles' = 0
    /\ last_bit_rx' = Toggles + cpha - 1
    /\ state' = "execute"
    /\ UNCHANGED <<rx_buffer, rx_data>>

\* The system-to-sclk ratio is met.
AtHit == count = clk_ratio

\* execute, between hits.
Wait ==
    /\ state = "execute" /\ ~AtHit
    /\ count' = count + 1
    /\ busy' = 1
    /\ ss_n' = [ss_n EXCEPT ![slave] = 0]
    /\ UNCHANGED <<state, slave, clk_ratio, clk_toggles, assert_data, continue,
                   last_bit_rx, rx_buffer, tx_buffer, sclk, mosi, rx_data>>

selected == ss_n[slave] = 0

\* Fault: one sclk edge too few.
TogglesClockShort == clk_toggles < Toggles /\ selected

TogglesClock == clk_toggles <= Toggles /\ selected

Receives == ~assert_data /\ clk_toggles < last_bit_rx + 1 /\ selected

\* Fault: data changes on the edges at which it is sampled.
TransmitsOnSample == ~assert_data /\ clk_toggles < last_bit_rx

Transmits == assert_data /\ clk_toggles < last_bit_rx

Reloads(cont) == clk_toggles = last_bit_rx /\ cont

Ends(cont) == clk_toggles = Toggles + 1 /\ ~cont

\* execute, at a hit.
Hit(cont, tx_data, miso) ==
    /\ state = "execute" /\ AtHit
    /\ count' = 1
    /\ assert_data' = ~assert_data
    /\ clk_toggles' = IF Reloads(cont) THEN last_bit_rx - Toggles + 1
                      ELSE IF clk_toggles = Toggles + 1 THEN 0 ELSE clk_toggles + 1
    /\ sclk' = IF TogglesClock THEN 1 - sclk ELSE sclk
    /\ rx_buffer' = IF Receives THEN Shifted(rx_buffer, miso) ELSE rx_buffer
    /\ tx_buffer' = IF Reloads(cont) THEN tx_data
                    ELSE IF Transmits THEN Shifted(tx_buffer, 0) ELSE tx_buffer
    /\ mosi' = IF Ends(cont) THEN Z ELSE IF Transmits THEN tx_buffer[1] ELSE mosi
    /\ continue' = (Reloads(cont) /\ ~continue)
    /\ busy' = IF continue \/ Ends(cont) THEN 0 ELSE 1
    /\ rx_data' = IF continue \/ Ends(cont) THEN rx_buffer ELSE rx_data
    /\ ss_n' = IF Ends(cont) THEN Deselected ELSE [ss_n EXCEPT ![slave] = 0]
    /\ state' = IF Ends(cont) THEN "ready" ELSE "execute"
    /\ UNCHANGED <<slave, clk_ratio, last_bit_rx>>

\* reset_n is asynchronous and leaves sclk, the counters and the buffers alone.
Reset ==
    /\ state' = "ready" /\ busy' = 1 /\ mosi' = Z
    /\ ss_n' = Deselected
    /\ rx_data' = [i \in 1 .. d_width |-> 0]
    /\ UNCHANGED <<slave, clk_ratio, count, clk_toggles, assert_data, continue,
                   last_bit_rx, rx_buffer, tx_buffer, sclk>>
================================================================================
