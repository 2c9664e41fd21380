--------------------------------- MODULE UartTx ---------------------------------
(***************************************************************************)
(* The transmitter of uart_tx.vhd: a start bit, DBIT data bits, least      *)
(* significant first, and a stop bit, each lasting sixteen ticks (the stop *)
(* bit SB_TICK ticks).  A step is one rising edge of clk; s_tick says      *)
(* whether the baud generator is ticking in that cycle.  The output is     *)
(* registered, so the line follows the state one cycle later.              *)
(***************************************************************************)
EXTENDS Integers, Sequences

CONSTANTS
    DBIT,       \* data bits of a frame
    SB_TICK,    \* ticks of a stop bit
    Width       \* bits of the shift register (8 in the code)

VARIABLES
    state_reg,
    s_reg,      \* ticks counted, 4 bits
    n_reg,      \* data bits sent, 3 bits
    b_reg,      \* the shift register, bit 0 first
    tx_reg      \* the line

txVars == <<state_reg, s_reg, n_reg, b_reg, tx_reg>>

Inc(s) == (s + 1) % 16

Init ==
    /\ state_reg = "idle"
    /\ s_reg = 0
    /\ n_reg = 0
    /\ b_reg = [i \in 1 .. Width |-> 0]
    /\ tx_reg = 1

\* In idle a word is taken as soon as tx_start is high, tick or no tick.
Idle(tx_start, din) ==
    /\ state_reg = "idle"
    /\ tx_reg' = 1
    /\ \/ /\ tx_start
          /\ state_reg' = "start"
          /\ s_reg' = 0
          /\ b_reg' = din
       \/ /\ ~tx_start
          /\ UNCHANGED <<state_reg, s_reg, b_reg>>
    /\ UNCHANGED n_reg

Start(s_tick) ==
    /\ state_reg = "start"
    /\ tx_reg' = 0
    /\ \/ /\ s_tick /\ s_reg = 15
          /\ state_reg' = "data"
          /\ s_reg' = 0
          /\ n_reg' = 0
       \/ /\ s_tick /\ s_reg # 15
          /\ s_reg' = Inc(s_reg)
          /\ UNCHANGED <<state_reg, n_reg>>
       \/ ~s_tick /\ UNCHANGED <<state_reg, s_reg, n_reg>>
    /\ UNCHANGED b_reg

Data(s_tick) ==
    /\ state_reg = "data"
    /\ tx_reg' = b_reg[1]
    /\ \/ /\ s_tick /\ s_reg = 15
          /\ s_reg' = 0
          /\ b_reg' = Append(Tail(b_reg), 0)
          /\ IF n_reg = DBIT - 1
             THEN state_reg' = "stop" /\ UNCHANGED n_reg
             ELSE n_reg' = (n_reg + 1) % 8 /\ UNCHANGED state_reg
       \/ /\ s_tick /\ s_reg # 15
          /\ s_reg' = Inc(s_reg)
          /\ UNCHANGED <<state_reg, n_reg, b_reg>>
       \/ ~s_tick /\ UNCHANGED <<state_reg, s_reg, n_reg, b_reg>>

tx_done_tick(s_tick) == state_reg = "stop" /\ s_tick /\ s_reg = SB_TICK - 1

\* A four-bit counter never equals SB_TICK - 1 when SB_TICK is above 16.
Stop(s_tick) ==
    /\ state_reg = "stop"
    /\ tx_reg' = 1
    /\ \/ /\ tx_done_tick(s_tick)
          /\ state_reg' = "idle"
          /\ UNCHANGED s_reg
       \/ /\ s_tick /\ s_reg # SB_TICK - 1
          /\ s_reg' = Inc(s_reg)
          /\ UNCHANGED state_reg
       \/ ~s_tick /\ UNCHANGED <<state_reg, s_reg>>
    /\ UNCHANGED <<n_reg, b_reg>>

Edge(s_tick, tx_start, din) ==
    Idle(tx_start, din) \/ Start(s_tick) \/ Data(s_tick) \/ Stop(s_tick)

Reset ==
    /\ state_reg' = "idle"
    /\ s_reg' = 0
    /\ n_reg' = 0
    /\ b_reg' = [i \in 1 .. Width |-> 0]
    /\ tx_reg' = 1
================================================================================
