--------------------------------- MODULE UartRx ---------------------------------
(***************************************************************************)
(* The receivers of uart_rx.vhd and usart.vhd.  They are one state machine *)
(* and differ in the shift register: usart.vhd shifts the registered       *)
(* value, uart_rx.vhd shifts the value it is computing.                    *)
(* The receiver leaves idle on the first low sample, waits half a bit, and *)
(* then samples the line every sixteen ticks.                              *)
(***************************************************************************)
EXTENDS Integers, Sequences

CONSTANTS
    DBIT,       \* data bits of a frame
    SB_TICK,    \* ticks of a stop bit
    Width,      \* bits of the shift register (8 in the code)
    ReadsNext   \* TRUE for uart_rx.vhd, which shifts b_next; FALSE for usart.vhd

VARIABLES
    state_reg,
    s_reg,      \* ticks counted, 4 bits
    n_reg,      \* data bits received, 3 bits
    b_reg       \* the shift register, bit 0 first

rxVars == <<state_reg, s_reg, n_reg, b_reg>>

\* Fault: a counter one bit too narrow.
IncNarrow(s) == (s + 1) % 8

Inc(s) == (s + 1) % 16

Init ==
    /\ state_reg = "idle"
    /\ s_reg = 0
    /\ n_reg = 0
    /\ b_reg = [i \in 1 .. Width |-> 0]

\* Fault: the most significant bit first.
ShiftInReversed(rx) == <<rx>> \o SubSeq(b_reg, 1, Width - 1)

\* usart.vhd: the sample enters at the top, the other bits move down.
ShiftIn(rx) == Append(Tail(b_reg), rx)

\* uart_rx.vhd: b_next is computed from itself and is in the sensitivity list,
\* so the process repeats until every bit has taken the sample.
ShiftThrough(rx) == [i \in 1 .. Width |-> rx]

Idle(rx) ==
    /\ state_reg = "idle"
    /\ \/ rx = 0 /\ state_reg' = "start" /\ s_reg' = 0
       \/ rx = 1 /\ UNCHANGED <<state_reg, s_reg>>
    /\ UNCHANGED <<n_reg, b_reg>>

\* Fault: the first sample is taken a whole bit after the start edge.
StartWholeBit(s_tick) ==
    /\ state_reg = "start"
    /\ \/ /\ s_tick /\ s_reg = 15
          /\ state_reg' = "data"
          /\ s_reg' = 0
          /\ n_reg' = 0
       \/ /\ s_tick /\ s_reg # 15
          /\ s_reg' = Inc(s_reg)
          /\ UNCHANGED <<state_reg, n_reg>>
       \/ ~s_tick /\ UNCHANGED <<state_reg, s_reg, n_reg>>
    /\ UNCHANGED b_reg

Start(s_tick) ==
    /\ state_reg = "start"
    /\ \/ /\ s_tick /\ s_reg = 7
          /\ state_reg' = "data"
          /\ s_reg' = 0
          /\ n_reg' = 0
       \/ /\ s_tick /\ s_reg # 7
          /\ s_reg' = Inc(s_reg)
          /\ UNCHANGED <<state_reg, n_reg>>
       \/ ~s_tick /\ UNCHANGED <<state_reg, s_reg, n_reg>>
    /\ UNCHANGED b_reg

Data(s_tick, rx) ==
    /\ state_reg = "data"
    /\ \/ /\ s_tick /\ s_reg = 15
          /\ s_reg' = 0
          /\ b_reg' = IF ReadsNext THEN ShiftThrough(rx) ELSE ShiftIn(rx)
          /\ IF n_reg = DBIT - 1
             THEN state_reg' = "stop" /\ UNCHANGED n_reg
             ELSE n_reg' = (n_reg + 1) % 8 /\ UNCHANGED state_reg
       \/ /\ s_tick /\ s_reg # 15
          /\ s_reg' = Inc(s_reg)
          /\ UNCHANGED <<state_reg, n_reg, b_reg>>
       \/ ~s_tick /\ UNCHANGED <<state_reg, s_reg, n_reg, b_reg>>

rx_done_tick(s_tick) == state_reg = "stop" /\ s_tick /\ s_reg = SB_TICK - 1

\* The line is not looked at during the stop bit.
Stop(s_tick) ==
    /\ state_reg = "stop"
    /\ \/ /\ rx_done_tick(s_tick)
          /\ state_reg' = "idle"
          /\ UNCHANGED s_reg
       \/ /\ s_tick /\ s_reg # SB_TICK - 1
          /\ s_reg' = Inc(s_reg)
          /\ UNCHANGED state_reg
       \/ ~s_tick /\ UNCHANGED <<state_reg, s_reg>>
    /\ UNCHANGED <<n_reg, b_reg>>

Edge(s_tick, rx) ==
    Idle(rx) \/ Start(s_tick) \/ Data(s_tick, rx) \/ Stop(s_tick)

Reset ==
    /\ state_reg' = "idle"
    /\ s_reg' = 0
    /\ n_reg' = 0
    /\ b_reg' = [i \in 1 .. Width |-> 0]

\* The received word: with DBIT below Width it sits in the upper bits.
dout == SubSeq(b_reg, Width - DBIT + 1, Width)
================================================================================
