------------------------------- MODULE UartModule -------------------------------
(***************************************************************************)
(* The echo of uartmodule.vhd: what arrives on rx goes out on tx.  Five    *)
(* clocked processes: a receiver, a transmitter, one divider that both     *)
(* share, and a divider by HalfBit for each.  A step is one rising edge of *)
(* clk at which every process reads the values before the edge.            *)
(***************************************************************************)
EXTENDS Integers, Sequences

CONSTANTS
    divisor,    \* div16 counts from 0 to divisor
    HalfBit,    \* ticks of top16 in half a bit
    ndbits      \* index of the last data bit

ASSUME CountsAssumption == divisor \in Nat /\ HalfBit \in Nat \ {0} /\ ndbits \in Nat

VARIABLES
    rxfsm, rx_reg, rxbitcnt, dout, wait_a_bitrx, rxrdyi, clrdivrx,
    txfsm, tx_reg, txbitcnt, wait_a_bit_tx, clrdivtx,
    div16, top16, rxdiv, toprx, txdiv, toptx

receiver == <<rxfsm, rx_reg, rxbitcnt, dout, wait_a_bitrx, rxrdyi, clrdivrx>>
transmitter == <<txfsm, tx_reg, txbitcnt, wait_a_bit_tx, clrdivtx>>
dividers == <<div16, top16, rxdiv, toprx, txdiv, toptx>>
moduleVars == <<receiver, transmitter, dividers>>

Bit == {0, 1}
Word == [1 .. ndbits + 1 -> Bit]        \* least significant bit first
Zeros == [i \in 1 .. ndbits + 1 |-> 0]
tx == tx_reg[1]

Init ==
    /\ rxfsm = "idle" /\ rx_reg = Zeros /\ dout = Zeros /\ rxbitcnt = 0
    /\ wait_a_bitrx = FALSE /\ rxrdyi = FALSE /\ clrdivrx = FALSE
    /\ txfsm = "idle" /\ tx_reg = Zeros /\ txbitcnt = 0
    /\ wait_a_bit_tx = FALSE /\ clrdivtx = FALSE
    /\ div16 = 0 /\ top16 = FALSE
    /\ rxdiv = 0 /\ toprx = FALSE /\ txdiv = 0 /\ toptx = FALSE

-----------------------------------------------------------------------------
(* The receiver. *)

RxIdle(rx) ==
    /\ rxfsm = "idle"
    /\ rxbitcnt' = 0 /\ rxrdyi' = FALSE
    /\ clrdivrx' = (rx = 0)
    /\ rxfsm' = IF rx = 0 THEN "start" ELSE "idle"
    /\ UNCHANGED <<rx_reg, dout, wait_a_bitrx>>

\* Two halves of the start bit.
RxStart ==
    /\ rxfsm = "start"
    /\ wait_a_bitrx' = (wait_a_bitrx \/ toprx)
    /\ rxfsm' = IF toprx /\ wait_a_bitrx THEN "edge" ELSE "start"
    /\ clrdivrx' = FALSE /\ rxrdyi' = FALSE
    /\ UNCHANGED <<rx_reg, rxbitcnt, dout>>

RxEdge ==
    /\ rxfsm = "edge"
    /\ rxfsm' = IF toprx THEN "shift" ELSE "edge"
    /\ clrdivrx' = FALSE /\ rxrdyi' = FALSE
    /\ UNCHANGED <<rx_reg, rxbitcnt, dout, wait_a_bitrx>>

RxShifted(rx) == Append(Tail(rx_reg), rx)

RxShift(rx) ==
    /\ rxfsm = "shift"
    /\ IF toprx
       THEN /\ rx_reg' = RxShifted(rx)
            /\ rxbitcnt' = IF rxbitcnt = ndbits THEN rxbitcnt ELSE rxbitcnt + 1
            /\ rxfsm' = IF rxbitcnt = ndbits THEN "stop" ELSE "edge"
       ELSE UNCHANGED <<rx_reg, rxbitcnt, rxfsm>>
    /\ clrdivrx' = FALSE /\ rxrdyi' = FALSE
    /\ UNCHANGED <<dout, wait_a_bitrx>>

RxStop ==
    /\ rxfsm = "stop"
    /\ wait_a_bitrx' = (wait_a_bitrx /\ ~toprx)
    /\ rxrdyi' = toprx
    /\ dout' = IF toprx THEN rx_reg ELSE dout
    /\ rxfsm' = IF toprx THEN "idle" ELSE "stop"
    /\ clrdivrx' = FALSE
    /\ UNCHANGED <<rx_reg, rxbitcnt>>

Receiver(rx) == RxIdle(rx) \/ RxStart \/ RxEdge \/ RxShift(rx) \/ RxStop

-----------------------------------------------------------------------------
(* The transmitter. *)

TxIdle ==
    /\ txfsm = "idle"
    /\ txbitcnt' = 0
    /\ tx_reg' = [tx_reg EXCEPT ![1] = IF rxrdyi THEN 0 ELSE 1]
    /\ clrdivtx' = rxrdyi
    /\ txfsm' = IF rxrdyi THEN "start" ELSE "idle"
    /\ UNCHANGED wait_a_bit_tx

TxStart ==
    /\ txfsm = "start"
    /\ wait_a_bit_tx' = (wait_a_bit_tx \/ toptx)
    /\ IF toptx /\ wait_a_bit_tx
       THEN txfsm' = "edge" /\ tx_reg' = dout
       ELSE UNCHANGED <<txfsm, tx_reg>>
    /\ clrdivtx' = FALSE
    /\ UNCHANGED txbitcnt

TxEdge ==
    /\ txfsm = "edge"
    /\ txfsm' = IF toptx THEN "shift" ELSE "edge"
    /\ clrdivtx' = FALSE
    /\ UNCHANGED <<tx_reg, txbitcnt, wait_a_bit_tx>>

TxShift ==
    /\ txfsm = "shift"
    /\ IF toptx
       THEN /\ tx_reg' = Append(Tail(tx_reg), 0)
            /\ txbitcnt' = IF txbitcnt = ndbits THEN txbitcnt ELSE txbitcnt + 1
            /\ txfsm' = IF txbitcnt = ndbits THEN "stop" ELSE "edge"
       ELSE UNCHANGED <<tx_reg, txbitcnt, txfsm>>
    /\ clrdivtx' = FALSE
    /\ UNCHANGED wait_a_bit_tx

\* Fault: a second stop bit, by way of another shift.
TxStopTwo ==
    /\ txfsm = "stop"
    /\ wait_a_bit_tx' = (wait_a_bit_tx /\ ~toptx)
    /\ txfsm' = IF toptx THEN IF wait_a_bit_tx THEN "edge" ELSE "idle" ELSE "stop"
    /\ clrdivtx' = FALSE
    /\ UNCHANGED <<tx_reg, txbitcnt>>

TxStop ==
    /\ txfsm = "stop"
    /\ wait_a_bit_tx' = (wait_a_bit_tx /\ ~toptx)
    /\ txfsm' = IF toptx THEN "idle" ELSE "stop"
    /\ clrdivtx' = FALSE
    /\ UNCHANGED <<tx_reg, txbitcnt>>

Transmitter == TxIdle \/ TxStart \/ TxEdge \/ TxShift \/ TxStop

-----------------------------------------------------------------------------
(* The dividers. *)

\* Restarting the divider makes a tick too.
Div16 ==
    LET restarts == div16 = divisor \/ clrdivrx
    IN  div16' = (IF restarts THEN 0 ELSE div16 + 1) /\ top16' = restarts

\* Fault: one tick too many.
DividedLong(clr, div) ==
    IF clr \/ (top16 /\ div = HalfBit) THEN 0
    ELSE IF top16 THEN div + 1 ELSE div

\* The next value of a divider by HalfBit, and whether it makes a tick.
Divided(clr, div) ==
    IF clr \/ (top16 /\ div = HalfBit - 1) THEN 0
    ELSE IF top16 THEN div + 1 ELSE div
Tops(clr, div) == ~clr /\ top16 /\ div = HalfBit - 1

\* Fault: the receiver's divider is not restarted by a start bit.
RxDivFree == rxdiv' = Divided(FALSE, rxdiv) /\ toprx' = Tops(FALSE, rxdiv)

RxDiv == rxdiv' = Divided(clrdivrx, rxdiv) /\ toprx' = Tops(clrdivrx, rxdiv)

TxDiv == txdiv' = Divided(clrdivtx, txdiv) /\ toptx' = Tops(clrdivtx, txdiv)

Edge(rx) == Receiver(rx) /\ Transmitter /\ Div16 /\ RxDiv /\ TxDiv
================================================================================
