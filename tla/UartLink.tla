-------------------------------- MODULE UartLink --------------------------------
(***************************************************************************)
(* A transmitter and a receiver joined by a line.  Each runs on its own    *)
(* clock with its own baud generator, as the two ends of a serial cable    *)
(* do; the two clocks agree only so far that, within one frame, neither    *)
(* gets more than MaxDrift edges ahead of the other.                       *)
(***************************************************************************)
EXTENDS Integers, Sequences

CONSTANTS
    DBIT, SB_TICK, Width, ReadsNext,    \* see UartTx and UartRx
    M,          \* clock edges per tick
    MaxDrift,   \* edges one clock may gain on the other within a frame
    MaxWords    \* words sent before the clients fall silent

ASSUME MAssumption == M \in Nat \ {0}
\* n_reg counts to eight, and a frame fits the shift registers.
ASSUME FrameAssumption ==
    /\ DBIT \in 1 .. 8 /\ Width \in Nat /\ DBIT <= Width
    /\ SB_TICK \in Nat /\ ReadsNext \in BOOLEAN
ASSUME MaxDriftAssumption == MaxDrift \in Nat \ {0}

VARIABLES
    txState, txS, txN, txB, line, txCount,  \* the transmitter and its counter
    rxState, rxS, rxN, rxB, rxCount,        \* the receiver and its counter
    lead,       \* transmitter edges less receiver edges in this frame
    sent,       \* words taken by the transmitter
    rcvd        \* words announced by the receiver

txVars == <<txState, txS, txN, txB, line, txCount>>
rxVars == <<rxState, rxS, rxN, rxB, rxCount>>
vars == <<txVars, rxVars, lead, sent, rcvd>>

TxBaud == INSTANCE ModMCounter WITH r_reg <- txCount
RxBaud == INSTANCE ModMCounter WITH r_reg <- rxCount
Tx == INSTANCE UartTx WITH state_reg <- txState, s_reg <- txS, n_reg <- txN,
                           b_reg <- txB, tx_reg <- line
Rx == INSTANCE UartRx WITH state_reg <- rxState, s_reg <- rxS, n_reg <- rxN,
                           b_reg <- rxB

Bit == {0, 1}
Words == [1 .. DBIT -> Bit]

\* din is Width bits wide and only the low DBIT of them are sent.
Din(w) == [i \in 1 .. Width |-> IF i <= DBIT THEN w[i] ELSE 0]

Init ==
    /\ Tx!Init /\ Rx!Init
    /\ TxBaud!Init /\ RxBaud!Init
    /\ lead = 0
    /\ sent = << >> /\ rcvd = << >>

-----------------------------------------------------------------------------
(* An edge of the transmitter's clock.  The drift is counted from the cycle *)
(* in which a frame begins.                                                 *)

Drift == lead' = IF txState = "idle" THEN 0 ELSE lead + 1

TxTakes(w) ==
    /\ txState = "idle"
    /\ Len(sent) < MaxWords
    /\ Tx!Edge(TxBaud!max_tick, TRUE, Din(w))
    /\ sent' = Append(sent, w)
    /\ TxBaud!Edge
    /\ Drift
    /\ UNCHANGED <<rxVars, rcvd>>

TxRuns ==
    /\ lead < MaxDrift
    /\ Tx!Edge(TxBaud!max_tick, FALSE, txB)
    /\ TxBaud!Edge
    /\ Drift
    /\ UNCHANGED <<rxVars, sent, rcvd>>

\* An edge of the receiver's clock.
RxRuns ==
    /\ lead > -MaxDrift
    /\ Rx!Edge(RxBaud!max_tick, line)
    /\ RxBaud!Edge
    /\ lead' = IF txState = "idle" THEN 0 ELSE lead - 1
    /\ rcvd' = IF Rx!rx_done_tick(RxBaud!max_tick) THEN Append(rcvd, Rx!dout) ELSE rcvd
    /\ UNCHANGED <<txVars, sent>>

Reset ==
    /\ Tx!Reset /\ Rx!Reset
    /\ TxBaud!Reset /\ RxBaud!Reset
    /\ lead' = 0
    /\ sent' = << >> /\ rcvd' = << >>

Next == (\E w \in Words : TxTakes(w)) \/ TxRuns \/ RxRuns \/ Reset

Spec == Init /\ [][Next]_vars

\* Both clocks keep running.
FairSpec == Spec /\ WF_vars(TxRuns) /\ WF_vars(RxRuns)

-----------------------------------------------------------------------------
TypeOK ==
    /\ txState \in {"idle", "start", "data", "stop"}
    /\ rxState \in {"idle", "start", "data", "stop"}
    /\ txS \in 0 .. 15 /\ rxS \in 0 .. 15
    /\ txN \in 0 .. 7 /\ rxN \in 0 .. 7
    /\ txB \in [1 .. Width -> Bit] /\ rxB \in [1 .. Width -> Bit]
    /\ line \in Bit
    /\ txCount \in 0 .. M - 1 /\ rxCount \in 0 .. M - 1
    /\ lead \in -MaxDrift .. MaxDrift
    /\ sent \in Seq(Words) /\ rcvd \in Seq(Words)

Channel == INSTANCE SerialChannel WITH Capacity <- 1

(* Every word the transmitter takes is announced by the receiver once, in  *)
(* order, bit for bit, and before the transmitter takes the next one,      *)
(* however the two clocks wander within the drift allowed.                 *)
ImplementsChannel == Channel!Spec

(* Whenever the receiver samples, the transmitter is in the middle of the  *)
(* very bit the receiver is counting; so the tick counts 7 and 15 and the  *)
(* restart of the count at every start edge do absorb the drift.           *)
SamplesItsBit ==
    [][rxState = "data" /\ rxS = 15 /\ rxS' = 0 /\ rxState' # "idle"
         => txState = "data" /\ txN = rxN]_vars

(* The receiver leaves idle on a start bit only, never on a low data bit   *)
(* of a frame it believes finished.                                        *)
StartsOnStartBit ==
    [][rxState = "idle" /\ rxState' = "start" => txState = "start"]_vars

(* A word taken is in the end announced, unless a reset intervenes.        *)
EveryWordArrives ==
    \A k \in 1 .. MaxWords :
        Len(sent) >= k ~> (Len(rcvd) >= k \/ sent = << >>)

(* The receiver keeps in step: it takes a start bit for a start bit, and   *)
(* every sample for the bit it belongs to.                                 *)
InStep == SamplesItsBit /\ StartsOnStartBit
================================================================================
