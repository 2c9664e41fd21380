-------------------------------- MODULE UartEcho --------------------------------
(***************************************************************************)
(* The echo between a sender on rx and a listener on tx.  The sender has   *)
(* its own clock: the length of its bits, in cycles of clk, is chosen anew *)
(* for each frame.  The listener samples every bit of tx in the middle,    *)
(* counted from the falling edge of the start bit.                         *)
(***************************************************************************)
EXTENDS UartModule

CONSTANTS
    Words,          \* words the sender sends
    BitLengths,     \* cycles of clk in a bit of the sender
    AvoidsTick      \* no start bit arrives as the receiver's divider ends

ASSUME SenderAssumption ==
    /\ Words \subseteq Word /\ BitLengths \subseteq Nat \ {0}
    /\ AvoidsTick \in BOOLEAN

VARIABLES
    frame,      \* bits the sender has left, the one on rx first
    bitLength, left,    \* cycles in a bit, and left in this one
    heard,      \* bits the listener has of the current word
    age,        \* cycles since the falling edge it counts from, or Listening
    due         \* words sent and not yet heard

sender == <<frame, bitLength, left>>
listener == <<heard, age>>
vars == <<moduleVars, sender, listener, due>>

Nominal == 2 * HalfBit * (divisor + 1)

\* Cycles from the start of a frame to the sample of data bit k, and to the
\* end of the receiver's work on the frame.
Sample(k) == (k + 2) * Nominal - divisor + 2
Done == Sample(ndbits) + HalfBit * (divisor + 1) + 1

\* The sender's clock is near enough to have every bit of a frame sampled while
\* it lasts, and the frame done with during the stop bit.
InTime ==
    \A n \in BitLengths :
        /\ \A k \in 0 .. ndbits : (k + 1) * n <= Sample(k) /\ Sample(k) < (k + 2) * n
        /\ (ndbits + 2) * n <= Done /\ Done < (ndbits + 3) * n

Settling == -2      \* the listener waits for tx to be high
Listening == -1     \* ... and then for it to fall

rx == IF frame = << >> THEN 1 ELSE Head(frame)

EInit ==
    /\ Init
    /\ frame = << >> /\ bitLength = Nominal /\ left = 0
    /\ heard = << >> /\ age = Settling
    /\ due = << >>

\* The end of a frame may be followed by the start bit of the next at once.
Sends ==
    /\ frame = << >> \/ (Len(frame) = 1 /\ left = 1)
    /\ AvoidsTick => ~(top16' /\ rxdiv' = HalfBit - 1)
    /\ \E w \in Words, n \in BitLengths :
        /\ frame' = <<0>> \o w \o <<1>>
        /\ bitLength' = n /\ left' = n

Holds ==
    /\ frame # << >> /\ left > 1
    /\ left' = left - 1
    /\ UNCHANGED <<frame, bitLength>>

NextBit ==
    /\ frame # << >> /\ left = 1
    /\ frame' = Tail(frame)
    /\ left' = IF Len(frame) > 1 THEN bitLength ELSE 0
    /\ UNCHANGED bitLength

Waits == frame = << >> /\ UNCHANGED sender

AtMiddle == age >= 0 /\ age % Nominal = Nominal \div 2
HearsBit == AtMiddle /\ age \div Nominal \in 1 .. ndbits + 1
HearsStop == AtMiddle /\ age \div Nominal = ndbits + 2

Listener ==
    /\ heard' = IF HearsBit THEN Append(heard, tx)
                ELSE IF HearsStop THEN << >> ELSE heard
    /\ age' = CASE age = Settling -> IF tx = 1 THEN Listening ELSE Settling
                [] age = Listening -> IF tx = 0 THEN 1 ELSE Listening
                [] HearsStop -> IF tx = 1 THEN Listening ELSE Settling
                [] OTHER -> age + 1

\* Words leave when heard and enter when sent.
Due(new) == due' = (IF HearsStop THEN SubSeq(due, 2, Len(due)) ELSE due) \o new

Step ==
    /\ Edge(rx) /\ Listener
    /\ \/ Sends /\ Due(<<SubSeq(frame', 2, ndbits + 2)>>)
       \/ (Holds \/ NextBit \/ Waits) /\ Due(<< >>)

Spec == EInit /\ [][Step]_vars
-----------------------------------------------------------------------------
States == {"idle", "start", "edge", "shift", "stop"}

TypeOK ==
    /\ rxfsm \in States /\ txfsm \in States
    /\ {rx_reg, tx_reg, dout} \subseteq Word
    /\ {rxbitcnt, txbitcnt} \subseteq 0 .. ndbits
    /\ {wait_a_bitrx, rxrdyi, clrdivrx, wait_a_bit_tx, clrdivtx} \subseteq BOOLEAN
    /\ div16 \in 0 .. divisor
    /\ {rxdiv, txdiv} \subseteq 0 .. HalfBit - 1
    /\ {top16, toprx, toptx} \subseteq BOOLEAN

\* The sender's current bit: 0 for the start bit, ndbits + 2 for the stop bit.
sendersBit == ndbits + 3 - Len(frame)

(* Each sample is taken within the data bit it stands for.                 *)
SamplesItsBit ==
    [][rxfsm = "shift" /\ toprx
         => frame # << >> /\ sendersBit = rxbitcnt + 1]_vars

(* The receiver leaves idle for a start bit and for nothing else.          *)
StartsOnStartBit ==
    [][rxfsm = "idle" /\ rxfsm' = "start" => frame # << >> /\ sendersBit = 0]_vars

(* The listener hears the words that were sent, in order ...               *)
EchoesWords == [][HearsStop => due # << >> /\ heard = Head(due)]_vars

(* ... and none is left out: at most the one on its way in and the one on  *)
(* its way out are still due.                                              *)
NothingLost == Len(due) <= 2

(* The transmitter is idle whenever a word is ready: rxrdyi lasts one cycle*)
(* and nothing remembers it.                                               *)
NoOverrun == rxrdyi => txfsm = "idle"

(* The receiver keeps in step with the sender: start bits and data bits    *)
(* are taken for what they are.                                            *)
InStep == SamplesItsBit /\ StartsOnStartBit

(* The echo is complete: every word comes back, in order, and the word in  *)
(* rxrdyi is never overrun.                                                *)
WordsEchoed == EchoesWords /\ [](NothingLost /\ NoOverrun)
================================================================================
