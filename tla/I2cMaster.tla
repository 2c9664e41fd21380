------------------------------- MODULE I2cMaster -------------------------------
(***************************************************************************)
(* The I2C master of i2c_master.vhd.  A step is one rising edge of clk: the *)
(* clock process (ClockGen) moves through the four quarters of a bit while  *)
(* the state machine acts on the edges of data_clk, changing sda while scl  *)
(* is low and sampling it while scl is high.  Both read the values before   *)
(* the edge; only the variable count is read after its own update.          *)
(***************************************************************************)
EXTENDS Integers

CONSTANTS
    divider,    \* clocks in a quarter of a bit
    Width       \* bits of a byte, the least significant one being bit 0

ASSUME SizeAssumption == divider \in Nat \ {0} /\ Width \in Nat \ {0}

VARIABLES
    count, stretch, scl_clk, data_clk, data_clk_prev,   \* the clock process
    state, busy, addr_rw, data_tx, data_rx, data_rd, bit_cnt,
    scl_ena, sda_int, ack_error                         \* the state machine

clocks == <<count, stretch, scl_clk, data_clk, data_clk_prev>>
machine == <<state, busy, addr_rw, data_tx, data_rx, data_rd, bit_cnt,
             scl_ena, sda_int, ack_error>>
masterVars == <<clocks, machine>>

Bit == {0, 1}
Word == [0 .. Width - 1 -> Bit]
Msb == Width - 1
Zero == [i \in 0 .. Msb |-> 0]

Quarter(c) == c \div divider
RisingEdge == data_clk = 1 /\ data_clk_prev = 0
FallingEdge == data_clk = 0 /\ data_clk_prev = 1

\* What the master drives: 0, or 1 for a line it lets go.
sda_ena_n ==
    CASE state = "start" -> data_clk_prev
      [] state = "stop" -> 1 - data_clk_prev
      [] OTHER -> sda_int
scl_out == IF scl_ena = 1 /\ scl_clk = 0 THEN 0 ELSE 1

\* After the power-up reset.  The clocks it does not name have any value.
Init ==
    /\ count = 0 /\ stretch = FALSE
    /\ scl_clk \in Bit /\ data_clk \in Bit /\ data_clk_prev \in Bit
    /\ state = "ready" /\ busy = 1
    /\ addr_rw = Zero /\ data_tx = Zero /\ data_rx = Zero /\ data_rd = Zero
    /\ bit_cnt = Msb /\ scl_ena = 0 /\ sda_int = 1 /\ ack_error = 0

Reset ==
    /\ count' = 0 /\ stretch' = FALSE
    /\ state' = "ready" /\ busy' = 1
    /\ data_rd' = Zero
    /\ bit_cnt' = Msb /\ scl_ena' = 0 /\ sda_int' = 1 /\ ack_error' = 0
    /\ UNCHANGED <<scl_clk, data_clk, data_clk_prev, addr_rw, data_tx, data_rx>>

-----------------------------------------------------------------------------
(* The clock process. *)

\* Fault: data_clk a quarter late, high when scl falls.
DataClkLate(c) == IF Quarter(c) \in {2, 3} THEN 1 ELSE 0

DataClk(c) == IF Quarter(c) \in {1, 2} THEN 1 ELSE 0

\* Fault: stretch is not taken back.
StretchSticks(scl) == stretch' = (stretch \/ (Quarter(count') = 2 /\ scl = 0))

\* A device that keeps scl low is looked for in the third quarter only.
Stretches(scl) == stretch' = IF Quarter(count') = 2 THEN scl = 0 ELSE stretch

\* Fault: one clock too many.
CycleLong == count = 4 * divider

CycleEnd == count = 4 * divider - 1

ClockGen(scl) ==
    /\ data_clk_prev' = data_clk
    /\ count' = IF CycleEnd THEN 0
                ELSE IF stretch THEN count ELSE count + 1
    /\ scl_clk' = IF Quarter(count') >= 2 THEN 1 ELSE 0
    /\ data_clk' = DataClk(count')
    /\ Stretches(scl)

-----------------------------------------------------------------------------
(* The state machine at a rising edge of data_clk; cmd is addr & rw. *)

Accept(cmd, data_wr) ==
    /\ RisingEdge /\ state = "ready"
    /\ busy' = 1 /\ addr_rw' = cmd /\ data_tx' = data_wr /\ state' = "start"
    /\ UNCHANGED <<data_rx, data_rd, bit_cnt, scl_ena, sda_int, ack_error>>

Idle ==
    /\ RisingEdge /\ state = "ready"
    /\ busy' = 0
    /\ UNCHANGED <<state, addr_rw, data_tx, data_rx, data_rd, bit_cnt, scl_ena,
                   sda_int, ack_error>>

StartBit ==
    /\ RisingEdge /\ state = "start"
    /\ busy' = 1 /\ sda_int' = addr_rw[bit_cnt] /\ state' = "command"
    /\ UNCHANGED <<addr_rw, data_tx, data_rx, data_rd, bit_cnt, scl_ena, ack_error>>

\* Fault: the index is not lowered.
NextBitRepeats(byte) == sda_int' = byte[bit_cnt]

NextBit(byte) == sda_int' = byte[bit_cnt - 1]

LastBit == bit_cnt = 0

\* The next bit of a byte, or sda let go for the device's acknowledge.
Shift(byte, ack) ==
    /\ IF LastBit
       THEN sda_int' = 1 /\ bit_cnt' = Msb /\ state' = ack
       ELSE NextBit(byte) /\ bit_cnt' = bit_cnt - 1 /\ UNCHANGED state
    /\ UNCHANGED <<addr_rw, data_tx, data_rx, data_rd, scl_ena, ack_error>>

Command == RisingEdge /\ state = "command" /\ Shift(addr_rw, "slv_ack1") /\ UNCHANGED busy

\* Fault: busy is not raised again in continuous mode.
ResumesNot == UNCHANGED busy

Resumes == busy' = 1

Wr == RisingEdge /\ state = "wr" /\ Shift(data_tx, "slv_ack2") /\ Resumes

SlvAck1 ==
    /\ RisingEdge /\ state = "slv_ack1"
    /\ IF addr_rw[0] = 0
       THEN sda_int' = data_tx[bit_cnt] /\ state' = "wr"
       ELSE sda_int' = 1 /\ state' = "rd"
    /\ UNCHANGED <<busy, addr_rw, data_tx, data_rx, data_rd, bit_cnt, scl_ena, ack_error>>

RdBit ==
    /\ RisingEdge /\ state = "rd" /\ ~LastBit
    /\ busy' = 1 /\ bit_cnt' = bit_cnt - 1
    /\ UNCHANGED <<state, addr_rw, data_tx, data_rx, data_rd, scl_ena, sda_int, ack_error>>

\* Another read of the same device follows.
AcksRead(ena, cmd) == ena /\ addr_rw = cmd

RdLast(ena, cmd) ==
    /\ RisingEdge /\ state = "rd" /\ LastBit
    /\ busy' = 1
    /\ sda_int' = IF AcksRead(ena, cmd) THEN 0 ELSE 1
    /\ bit_cnt' = Msb /\ data_rd' = data_rx /\ state' = "mstr_ack"
    /\ UNCHANGED <<addr_rw, data_tx, data_rx, scl_ena, ack_error>>

\* The next request, at the end of the acknowledge of a byte written or read.
Continue(cmd, data_wr) ==
    /\ RisingEdge /\ state \in {"slv_ack2", "mstr_ack"}
    /\ busy' = 0 /\ addr_rw' = cmd /\ data_tx' = data_wr
    /\ IF addr_rw # cmd
       THEN state' = "start" /\ UNCHANGED sda_int
       ELSE IF state = "slv_ack2"
       THEN state' = "wr" /\ sda_int' = data_wr[bit_cnt]
       ELSE state' = "rd" /\ sda_int' = 1
    /\ UNCHANGED <<data_rx, data_rd, bit_cnt, scl_ena, ack_error>>

Complete ==
    /\ RisingEdge /\ state \in {"slv_ack2", "mstr_ack"}
    /\ state' = "stop"
    /\ UNCHANGED <<busy, addr_rw, data_tx, data_rx, data_rd, bit_cnt, scl_ena,
                   sda_int, ack_error>>

StopBit ==
    /\ RisingEdge /\ state = "stop"
    /\ busy' = 0 /\ state' = "ready"
    /\ UNCHANGED <<addr_rw, data_tx, data_rx, data_rd, bit_cnt, scl_ena, sda_int, ack_error>>

-----------------------------------------------------------------------------
(* The state machine at a falling edge of data_clk, and at no edge. *)

\* Only the start of a new transaction clears it.
ErrorCleared == IF scl_ena = 0 THEN 0 ELSE ack_error

StartFalls ==
    /\ FallingEdge /\ state = "start"
    /\ scl_ena' = 1 /\ ack_error' = ErrorCleared
    /\ UNCHANGED <<state, busy, addr_rw, data_tx, data_rx, data_rd, bit_cnt, sda_int>>

AckFalls(sda) ==
    /\ FallingEdge /\ state \in {"slv_ack1", "slv_ack2"}
    /\ ack_error' = IF sda # 0 THEN 1 ELSE ack_error
    /\ UNCHANGED <<state, busy, addr_rw, data_tx, data_rx, data_rd, bit_cnt, scl_ena, sda_int>>

RxIndex == bit_cnt

RdFalls(sda) ==
    /\ FallingEdge /\ state = "rd"
    /\ data_rx' = [data_rx EXCEPT ![RxIndex] = sda]
    /\ UNCHANGED <<state, busy, addr_rw, data_tx, data_rd, bit_cnt, scl_ena, sda_int, ack_error>>

StopFalls ==
    /\ FallingEdge /\ state = "stop"
    /\ scl_ena' = 0
    /\ UNCHANGED <<state, busy, addr_rw, data_tx, data_rx, data_rd, bit_cnt, sda_int, ack_error>>

OtherFalls ==
    /\ FallingEdge /\ state \in {"ready", "command", "wr", "mstr_ack"}
    /\ UNCHANGED machine

NoEdge == data_clk = data_clk_prev /\ UNCHANGED machine
================================================================================
