----------------------------- MODULE UartEchoProofs ------------------------------
(***************************************************************************)
(* For every divisor, bit time and word length: the types of the echo's    *)
(* registers; for every sender that is in time and avoids the receiver's   *)
(* tick, that the receiver keeps in step with it; and, for dividers that   *)
(* are not too short, that every word is echoed.  All is measured in       *)
(* cycles of clk.  RxInv holds Elapsed, how far the sender is into its     *)
(* frame, at a fixed distance from RxTime, how far the receiver is by its  *)
(* state and its dividers.  EchoInv puts the far side behind it: Gap, what *)
(* has gone by since the transmitter started, is not ahead of the          *)
(* listener's age, nor the age of TxTime, the transmitter's time, so that  *)
(* each is done before the next word is in.  WordInv splits what is due    *)
(* between the line, the registers of both machines and the listener.      *)
(***************************************************************************)
EXTENDS UartEcho, SequenceTheorems, TLAPS

USE CountsAssumption, SenderAssumption

-----------------------------------------------------------------------------
(* Types. *)

\* A frame as far as the types and the ends of its bits need it: the bits that
\* are left, and the time left in the first.
SenderOK ==
    /\ frame \in Seq(Bit)
    /\ frame # << >> =>
         /\ Len(frame) <= ndbits + 3
         /\ Len(frame) = ndbits + 3 => frame[1] = 0
         /\ frame[Len(frame)] = 1
         /\ bitLength \in BitLengths /\ left \in 1 .. bitLength

(* A shift drops the first bit of a word and adds one behind the last.     *)
LEMMA ShiftIs ==
    ASSUME NEW reg \in Word, NEW bit \in Bit
    PROVE  /\ Append(Tail(reg), bit) \in Word
           /\ \A i \in 1 .. ndbits + 1 :
                Append(Tail(reg), bit)[i] = IF i = ndbits + 1 THEN bit ELSE reg[i + 1]
<1>1. reg \in Seq(Bit) /\ Len(reg) = ndbits + 1 /\ reg # << >>
  <2>1. reg \in Seq(Bit) /\ DOMAIN reg = 1 .. ndbits + 1
    BY SeqDef DEF Word
  <2>2. Len(reg) \in Nat /\ DOMAIN reg = 1 .. Len(reg)
    BY <2>1, LenProperties
  <2>3. QED
    BY <2>1, <2>2, EmptySeq
<1>2. /\ Tail(reg) \in Seq(Bit) /\ Len(Tail(reg)) = ndbits
      /\ \A i \in 1 .. ndbits : Tail(reg)[i] = reg[i + 1]
  BY <1>1, HeadTailProperties
<1>3. /\ Append(Tail(reg), bit) \in Seq(Bit) /\ Len(Append(Tail(reg), bit)) = ndbits + 1
      /\ Append(Tail(reg), bit)[ndbits + 1] = bit
      /\ \A i \in 1 .. ndbits : Append(Tail(reg), bit)[i] = Tail(reg)[i]
  BY <1>2, AppendProperties
<1>4. Append(Tail(reg), bit) \in Word
  BY <1>3, LenProperties DEF Word
<1>5. QED
  BY <1>2, <1>3, <1>4

(* A frame is a start bit, a word and a stop bit.                          *)
LEMMA FrameIs ==
    ASSUME NEW w \in Word
    PROVE  LET f == <<0>> \o w \o <<1>>
           IN  /\ f \in Seq(Bit) /\ Len(f) = ndbits + 3 /\ f # << >>
               /\ f[1] = 0 /\ f[ndbits + 3] = 1
               /\ \A i \in 2 .. ndbits + 2 : f[i] = w[i - 1]
<1> DEFINE a == <<0>> \o w
           f == a \o <<1>>
<1>1. w \in Seq(Bit) /\ Len(w) = ndbits + 1
  <2>1. w \in Seq(Bit) /\ DOMAIN w = 1 .. ndbits + 1
    BY SeqDef DEF Word
  <2>2. QED
    BY <2>1, LenProperties
<1>2. <<0>> \in Seq(Bit) /\ <<1>> \in Seq(Bit) /\ Len(<<0>>) = 1 /\ Len(<<1>>) = 1
      /\ <<0>>[1] = 0 /\ <<1>>[1] = 1
  BY DEF Bit
<1>3. /\ a \in Seq(Bit) /\ Len(a) = ndbits + 2
      /\ \A i \in 1 .. ndbits + 2 : a[i] = IF i <= 1 THEN <<0>>[i] ELSE w[i - 1]
  BY <1>1, <1>2, ConcatProperties
<1> HIDE DEF a
<1>4. /\ f \in Seq(Bit) /\ Len(f) = ndbits + 3
      /\ \A i \in 1 .. ndbits + 3 : f[i] = IF i <= ndbits + 2 THEN a[i] ELSE <<1>>[i - (ndbits + 2)]
  BY <1>2, <1>3, ConcatProperties
<1> HIDE DEF f
<1>5. f[1] = a[1] /\ f[ndbits + 3] = <<1>>[1] /\ a[1] = <<0>>[1]
  BY <1>3, <1>4
<1>6. \A i \in 2 .. ndbits + 2 : f[i] = w[i - 1]
  BY <1>3, <1>4
<1>7. f # << >>
  BY <1>4, EmptySeq
<1>8. QED
  BY <1>2, <1>4, <1>5, <1>6, <1>7 DEF f, a

(* The sender's steps, and what they do to its time in the frame.          *)
LEMMA SenderStep ==
    ASSUME SenderOK, Sends \/ Holds \/ NextBit \/ Waits
    PROVE  SenderOK'
<1> USE DEF SenderOK
<1>1. CASE Sends
  <2>1. PICK w \in Words, n \in BitLengths :
            frame' = <<0>> \o w \o <<1>> /\ bitLength' = n /\ left' = n
    BY <1>1 DEF Sends
  <2>2. w \in Word /\ n \in Nat \ {0}
    OBVIOUS
  <2>3. /\ frame' \in Seq(Bit) /\ Len(frame') = ndbits + 3 /\ frame' # << >>
        /\ frame'[1] = 0 /\ frame'[ndbits + 3] = 1
    BY <2>1, <2>2, FrameIs
  <2>4. QED
    BY <2>1, <2>2, <2>3
<1>2. CASE Holds
  <2>1. frame # << >> /\ left > 1 /\ left' = left - 1 /\ frame' = frame /\ bitLength' = bitLength
    BY <1>2 DEF Holds
  <2>2. bitLength \in Nat /\ left \in 1 .. bitLength
    BY <2>1
  <2>3. left' \in 1 .. bitLength
    BY <2>1, <2>2
  <2>4. QED
    BY <2>1, <2>3, Zenon
<1>3. CASE NextBit
  <2>1. frame # << >> /\ left = 1 /\ frame' = Tail(frame)
        /\ left' = (IF Len(frame) > 1 THEN bitLength ELSE 0) /\ bitLength' = bitLength
    BY <1>3 DEF NextBit
  <2>2. /\ Tail(frame) \in Seq(Bit) /\ Len(Tail(frame)) = Len(frame) - 1
        /\ \A i \in 1 .. Len(Tail(frame)) : Tail(frame)[i] = frame[i + 1]
    BY <2>1, HeadTailProperties
  <2>3. Len(frame) \in Nat /\ Len(frame') = Len(frame) - 1
    BY <2>1, <2>2, LenProperties
  <2>4. ASSUME frame' # << >>
        PROVE  /\ Len(frame) > 1
               /\ frame'[Len(frame')] = 1
    <3>1. Len(frame') # 0 /\ Len(frame') \in Nat
      BY <2>1, <2>2, <2>4, EmptySeq, LenProperties
    <3>2. Len(frame') = Len(Tail(frame))
      BY <2>1
    <3>5. Len(frame) > 1 /\ Len(frame') \in 1 .. Len(Tail(frame)) /\ Len(frame') + 1 = Len(frame)
      BY <2>3, <3>1, <3>2
    <3>3. frame'[Len(frame')] = frame[Len(frame)]
      BY <2>1, <2>2, <3>5
    <3>4. QED
      BY <2>1, <3>5, <3>3
  <2>5. frame' \in Seq(Bit)
    BY <2>1, <2>2
  <2>6. ASSUME frame' # << >>
        PROVE  /\ Len(frame') < ndbits + 3
               /\ bitLength' \in BitLengths /\ left' \in 1 .. bitLength'
    <3>1. Len(frame') < ndbits + 3
      <4>1. Len(frame) <= ndbits + 3
        BY <2>1
      <4>2. QED
        BY <2>3, <4>1
    <3>2. left' = bitLength /\ bitLength \in BitLengths /\ bitLength \in Nat \ {0}
      BY <2>1, <2>4, <2>6
    <3>3. QED
      BY <2>1, <3>1, <3>2
  <2>7. QED
    <3>1. Len(frame') < ndbits + 3 => Len(frame') <= ndbits + 3 /\ Len(frame') # ndbits + 3
      BY <2>3, <2>5, LenProperties
    <3>2. QED
      BY <2>4, <2>5, <2>6, <3>1, Zenon
<1>4. CASE Waits
  BY <1>4 DEF Waits, sender
<1>5. QED
  BY <1>1, <1>2, <1>3, <1>4

(* The bit on rx.                                                          *)
LEMMA RxBit ==
    ASSUME SenderOK
    PROVE  /\ rx \in Bit
           /\ frame = << >> => rx = 1
           /\ frame # << >> => /\ Len(frame) \in 1 .. ndbits + 3
                               /\ rx = frame[1]
<1>1. Len(frame) \in Nat /\ frame # << >> => Len(frame) # 0
  BY LenProperties, EmptySeq DEF SenderOK
<1>2. frame # << >> => Head(frame) = frame[1] /\ Head(frame) \in Bit
  BY HeadTailProperties DEF SenderOK
<1>3. QED
  BY <1>1, <1>2 DEF SenderOK, rx, Bit

Types == TypeOK /\ SenderOK

\* The registers of each process.
RxTypes ==
    /\ rxfsm \in States /\ rx_reg \in Word /\ dout \in Word /\ rxbitcnt \in 0 .. ndbits
    /\ wait_a_bitrx \in BOOLEAN /\ rxrdyi \in BOOLEAN /\ clrdivrx \in BOOLEAN
TxTypes ==
    /\ txfsm \in States /\ tx_reg \in Word /\ txbitcnt \in 0 .. ndbits
    /\ wait_a_bit_tx \in BOOLEAN /\ clrdivtx \in BOOLEAN
DivTypes ==
    /\ div16 \in 0 .. divisor /\ top16 \in BOOLEAN
    /\ rxdiv \in 0 .. HalfBit - 1 /\ toprx \in BOOLEAN
    /\ txdiv \in 0 .. HalfBit - 1 /\ toptx \in BOOLEAN

(* Together they are the type invariant.                                   *)
LEMMA TypeParts == TypeOK <=> RxTypes /\ TxTypes /\ DivTypes
<1>1. TypeOK => RxTypes /\ TxTypes /\ DivTypes
  BY Zenon DEF TypeOK, RxTypes, TxTypes, DivTypes
<1>2. RxTypes /\ TxTypes /\ DivTypes => TypeOK
  BY Zenon DEF TypeOK, RxTypes, TxTypes, DivTypes
<1>3. QED
  BY <1>1, <1>2

(* The receiver's registers.                                               *)
LEMMA ReceiverTypes ==
    ASSUME RxTypes, toprx \in BOOLEAN, NEW b \in Bit, Receiver(b)
    PROVE  RxTypes'
<1> USE DEF RxIdle, RxStart, RxEdge, RxShift, RxStop
<1>1. rxfsm' \in States
  BY DEF Receiver, RxTypes, States
<1>2. rx_reg' \in Word /\ dout' \in Word
  <2>1. RxShifted(b) \in Word
    BY ShiftIs DEF RxShifted, RxTypes
  <2>2. QED
    BY <2>1 DEF Receiver, RxTypes
<1>3. rxbitcnt' \in 0 .. ndbits
  <2>1. rxbitcnt' \in {0, rxbitcnt, IF rxbitcnt = ndbits THEN rxbitcnt ELSE rxbitcnt + 1}
    BY DEF Receiver
  <2>2. QED
    BY <2>1 DEF RxTypes
<1>4. wait_a_bitrx' \in BOOLEAN
  BY Zenon DEF Receiver, RxTypes
<1>5. rxrdyi' \in BOOLEAN /\ clrdivrx' \in BOOLEAN
  BY Zenon DEF Receiver, RxTypes
<1>6. QED
  BY <1>1, <1>2, <1>3, <1>4, <1>5 DEF RxTypes

(* The transmitter's registers.                                            *)
LEMMA TransmitterTypes ==
    ASSUME TxTypes, dout \in Word, rxrdyi \in BOOLEAN, toptx \in BOOLEAN, Transmitter
    PROVE  TxTypes'
<1> USE DEF TxIdle, TxStart, TxEdge, TxShift, TxStop
<1>1. txfsm' \in States
  BY DEF Transmitter, TxTypes, States
<1>2. tx_reg' \in Word
  <2>1. Append(Tail(tx_reg), 0) \in Word
    BY ShiftIs DEF Bit, TxTypes
  <2>2. \A b \in Bit : [tx_reg EXCEPT ![1] = b] \in Word
    BY DEF Word, TxTypes
  <2>3. [tx_reg EXCEPT ![1] = IF rxrdyi THEN 0 ELSE 1] \in Word
    BY <2>2 DEF Bit
  <2>4. QED
    BY <2>1, <2>3 DEF Transmitter, TxTypes
<1>3. txbitcnt' \in 0 .. ndbits
  <2>1. txbitcnt' \in {0, txbitcnt, IF txbitcnt = ndbits THEN txbitcnt ELSE txbitcnt + 1}
    BY DEF Transmitter
  <2>2. QED
    BY <2>1 DEF TxTypes
<1>4. wait_a_bit_tx' \in BOOLEAN
  BY Zenon DEF Transmitter, TxTypes
<1>5. clrdivtx' \in BOOLEAN
  BY Zenon DEF Transmitter, TxTypes
<1>6. QED
  BY <1>1, <1>2, <1>3, <1>4, <1>5 DEF TxTypes

(* The dividers.                                                           *)
LEMMA DividerTypes ==
    ASSUME DivTypes, clrdivrx \in BOOLEAN, clrdivtx \in BOOLEAN, Div16, RxDiv, TxDiv
    PROVE  DivTypes'
<1>1. div16' \in 0 .. divisor /\ top16' \in BOOLEAN
  <2>1. div16' = (IF div16 = divisor \/ clrdivrx THEN 0 ELSE div16 + 1)
    BY DEF Div16
  <2>2. top16' \in BOOLEAN
    BY Zenon DEF Div16
  <2>3. QED
    BY <2>1, <2>2 DEF DivTypes
<1>2. ASSUME NEW clr \in BOOLEAN, NEW div \in 0 .. HalfBit - 1
      PROVE  Divided(clr, div) \in 0 .. HalfBit - 1 /\ Tops(clr, div) \in BOOLEAN
  <2>1. Divided(clr, div) \in 0 .. HalfBit - 1
    BY <1>2 DEF DivTypes, Divided
  <2>2. Tops(clr, div) \in BOOLEAN
    BY Zenon DEF Tops
  <2>3. QED
    BY <2>1, <2>2
<1>3. QED
  BY <1>1, <1>2 DEF DivTypes, RxDiv, TxDiv

(* Each clock edge keeps all types.                                        *)
LEMMA TypeStep == Types /\ [Step]_vars => Types'
<1> SUFFICES ASSUME Types, [Step]_vars PROVE Types'
    OBVIOUS
<1>1. CASE Step
  <2>1. SenderOK'
    BY <1>1, SenderStep DEF Types, Step
  <2>2. rx \in Bit /\ Edge(rx)
    BY <1>1, RxBit DEF Types, Step
  <2>3. TypeOK'
    <3>1. RxTypes /\ TxTypes /\ DivTypes
      BY TypeParts DEF Types
    <3>2. RxTypes'
      BY <2>2, <3>1, ReceiverTypes DEF Edge, DivTypes
    <3>3. TxTypes'
      BY <2>2, <3>1, TransmitterTypes DEF Edge, DivTypes, RxTypes
    <3>4. DivTypes'
      BY <2>2, <3>1, DividerTypes DEF Edge, TxTypes, RxTypes
    <3>5. QED
      BY <3>2, <3>3, <3>4, Zenon DEF TypeOK, RxTypes, TxTypes, DivTypes
  <2>4. QED
    BY <2>1, <2>3 DEF Types
<1>2. CASE UNCHANGED vars
  BY <1>2 DEF Types, TypeOK, SenderOK, vars, moduleVars, receiver, transmitter, dividers, sender
<1>3. QED
  BY <1>1, <1>2

(* The reset values.                                                       *)
LEMMA TypeInit == EInit => Types
<1> SUFFICES ASSUME EInit PROVE Types
    OBVIOUS
<1>1. Zeros \in Word
  BY DEF Zeros, Word, Bit
<1>2. frame \in Seq(Bit)
  BY EmptySeq DEF EInit
<1>3. /\ rxfsm \in States /\ txfsm \in States
      /\ {rx_reg, tx_reg, dout} \subseteq Word
      /\ {rxbitcnt, txbitcnt} \subseteq 0 .. ndbits
      /\ div16 \in 0 .. divisor
      /\ {rxdiv, txdiv} \subseteq 0 .. HalfBit - 1
  BY <1>1 DEF EInit, Init, States
<1>4. /\ {wait_a_bitrx, rxrdyi, clrdivrx, wait_a_bit_tx, clrdivtx} \subseteq BOOLEAN
      /\ {top16, toprx, toptx} \subseteq BOOLEAN
  BY Zenon DEF EInit, Init
<1>5. QED
  BY <1>2, <1>3, <1>4, Zenon DEF EInit, Types, TypeOK, SenderOK

(* Every register and counter of the echo stays in its range.              *)
THEOREM TypeCorrect == Spec => []TypeOK
<1>1. Types => TypeOK
  BY DEF Types
<1>2. QED
  BY <1>1, TypeInit, TypeStep, PTL DEF Spec

-----------------------------------------------------------------------------
(* The receiver's time.                                                    *)

D == divisor + 1

\* Cycles since the last tick of top16, D while it is up.
Phase == IF top16 THEN D ELSE div16

\* Half bits the receiver has behind it.
RxHalves ==
    CASE rxfsm = "start" -> IF wait_a_bitrx THEN 1 ELSE 0
      [] rxfsm = "edge" -> 2 + 2 * rxbitcnt
      [] rxfsm = "shift" -> 3 + 2 * rxbitcnt
      [] OTHER -> 4 + 2 * ndbits

\* A tick of the half bit counts before the receiver has acted on it.
Count(b) == IF b THEN 1 ELSE 0
RxTicks == HalfBit * (RxHalves + Count(toprx)) + rxdiv
RxTime == D * RxTicks + Phase

\* Cycles since the frame's start bit fell.
Elapsed == IF frame = << >> THEN 0 ELSE sendersBit * bitLength + (bitLength - left)

\* What the receiver's state says of its flags and its bit count.
RxControl ==
    /\ rxfsm = "idle" => ~wait_a_bitrx /\ ~clrdivrx
    /\ rxfsm = "start" => rxbitcnt = 0
    /\ rxfsm \in {"edge", "shift", "stop"} => wait_a_bitrx
    /\ rxfsm = "stop" => rxbitcnt = ndbits
    /\ rxrdyi => rxfsm = "idle"
    /\ clrdivrx => rxfsm = "start"

\* A tick of the half bit comes a cycle behind the tick of top16 it is made of.
RxTicking ==
    /\ top16 => div16 = 0
    /\ toprx => rxdiv = 0 /\ Phase = 1

\* Idle, the receiver has no frame, the stop bit of one, or the first cycle of
\* one before it.  From the second cycle on it runs at a fixed distance.
Follows ==
    /\ rxfsm = "idle" =>
         \/ frame = << >> \/ Len(frame) = 1
         \/ Len(frame) = ndbits + 3 /\ left = bitLength /\ ~(top16 /\ rxdiv = HalfBit - 1)
    /\ rxfsm # "idle" =>
         /\ frame # << >>
         /\ clrdivrx => Elapsed = 1 /\ ~toprx /\ ~wait_a_bitrx
         /\ ~clrdivrx => Elapsed = RxTime + 2 - D

RxInv == Types /\ RxControl /\ RxTicking /\ Follows

(* Products by one more.                                                   *)
LEMMA OneMore == \A a, b \in Int : a * (b + 1) = a * b + a /\ a * b \in Int
OBVIOUS

(* Products keep the order.                                                *)
LEMMA Products == \A a \in Nat, b, c \in Int : b <= c => a * b <= a * c
OBVIOUS

(* One cycle of the common divider.                                        *)
LEMMA PhaseStep ==
    ASSUME div16 \in 0 .. divisor, top16 \in BOOLEAN, clrdivrx \in BOOLEAN,
           top16 => div16 = 0, Div16
    PROVE  /\ top16' => div16' = 0
           /\ Phase \in 0 .. D /\ Phase' \in 0 .. D
           /\ top16 => Phase = D
           /\ clrdivrx => Phase' = D
           /\ ~clrdivrx => Phase' = Phase + 1 - (IF top16 THEN D ELSE 0)
<1> DEFINE restarts == div16 = divisor \/ clrdivrx
<1>1. div16' = (IF restarts THEN 0 ELSE div16 + 1)
  BY DEF Div16
<1>2. top16' = restarts
  BY Zenon DEF Div16
<1>3. CASE restarts
  <2>1. top16' /\ div16' = 0
    BY <1>1, <1>2, <1>3, Zenon
  <2>2. QED
    BY <1>3, <2>1 DEF Phase, D
<1>4. CASE ~restarts
  <2>1. ~top16' /\ div16' = div16 + 1 /\ ~clrdivrx /\ div16 # divisor
    BY <1>1, <1>2, <1>4, Zenon
  <2>2. QED
    BY <2>1 DEF Phase, D
<1>5. QED
  BY <1>3, <1>4

(* A divider that is not cleared loses no tick.                            *)
LEMMA TicksStep ==
    ASSUME NEW h \in Int, NEW div \in 0 .. HalfBit - 1, top16 \in BOOLEAN
    PROVE  HalfBit * (h + Count(Tops(FALSE, div))) + Divided(FALSE, div)
             = HalfBit * h + div + Count(top16)
<1>1. HalfBit * (h + 1) = HalfBit * h + HalfBit /\ HalfBit * h \in Int /\ h + 0 = h
  BY OneMore
<1> DEFINE p == HalfBit * h
           q == HalfBit * (h + 1)
<1> HIDE DEF p, q
<1>2. CASE top16 /\ div = HalfBit - 1
  <2>1. Count(Tops(FALSE, div)) = 1 /\ Divided(FALSE, div) = 0 /\ Count(top16) = 1
    BY <1>2 DEF Tops, Divided, Count
  <2>2. q = p + HalfBit /\ p \in Int
    BY <1>1 DEF p, q
  <2>3. q + 0 = p + div + 1
    BY <1>2, <2>2
  <2>4. QED
    BY <2>1, <2>3 DEF p, q
<1>3. CASE ~(top16 /\ div = HalfBit - 1)
  <2>1. Count(Tops(FALSE, div)) = 0 /\ Divided(FALSE, div) = div + Count(top16)
    BY <1>3 DEF Tops, Divided, Count
  <2>2. p \in Int /\ Count(top16) \in Int
    BY <1>1 DEF p, Count
  <2>3. p + (div + Count(top16)) = p + div + Count(top16)
    BY <2>2
  <2>4. QED
    BY <1>1, <2>1, <2>3 DEF p
<1>4. QED
  BY <1>2, <1>3

(* The flags and the bit count keep to the receiver's state.               *)
LEMMA ControlStep ==
    ASSUME RxTypes, RxControl, NEW b \in Bit, Receiver(b)
    PROVE  RxControl'
<1> USE DEF RxIdle, RxStart, RxEdge, RxShift, RxStop
<1>1. rxfsm' = "idle" => ~wait_a_bitrx'
  BY Zenon DEF Receiver, RxControl
<1>2. (rxrdyi' => rxfsm' = "idle") /\ (rxfsm' = "idle" => ~clrdivrx')
  <2>1. rxrdyi' => rxfsm' = "idle"
    BY Zenon DEF Receiver
  <2>2. CASE RxIdle(b)
    <3>1. b = 0 => rxfsm' # "idle"
      BY <2>2
    <3>2. b # 0 => ~clrdivrx'
      BY <2>2, Zenon
    <3>3. QED
      BY <2>1, <3>1, <3>2, Zenon
  <2>3. ~RxIdle(b) => ~clrdivrx'
    BY Zenon DEF Receiver
  <2>4. QED
    BY <2>1, <2>2, <2>3
<1>3. clrdivrx' => rxfsm' = "start"
  BY Zenon DEF Receiver
<1>4. rxfsm' = "start" => rxbitcnt' = 0
  BY DEF Receiver, RxControl
<1>5. rxfsm' = "stop" => rxbitcnt' = ndbits
  BY DEF Receiver, RxControl
<1>6. rxfsm' \in {"edge", "shift", "stop"} => wait_a_bitrx'
  <2>1. CASE RxStart
    BY <2>1, Zenon
  <2>2. CASE RxEdge \/ RxShift(b) \/ RxIdle(b)
    <3>1. wait_a_bitrx' = wait_a_bitrx /\ (rxfsm \in {"edge", "shift"} \/ rxfsm' \in {"start", "idle"})
      BY <2>2
    <3>2. QED
      BY <3>1 DEF RxControl
  <2>3. CASE RxStop
    BY <2>3, Zenon DEF RxControl
  <2>4. QED
    BY <2>1, <2>2, <2>3 DEF Receiver
<1>7. QED
  BY <1>1, <1>2, <1>3, <1>4, <1>5, <1>6, Zenon DEF RxControl

(* A half bit takes the receiver on by one, until it is done.              *)
LEMMA HalvesStep ==
    ASSUME RxTypes, RxControl, toprx \in BOOLEAN, NEW b \in Bit, Receiver(b),
           rxfsm # "idle", ~(rxfsm = "stop" /\ toprx)
    PROVE  rxfsm' # "idle" /\ ~clrdivrx' /\ RxHalves \in Int /\ RxHalves' = RxHalves + Count(toprx)
<1> USE DEF RxTypes, RxHalves, Count
<1>1. CASE RxStart
  <2>1. CASE toprx
    <3>1. wait_a_bitrx'
      BY <1>1, <2>1, Zenon DEF RxStart
    <3>2. QED
      BY <1>1, <2>1, <3>1 DEF RxStart, RxControl
  <2>2. CASE ~toprx
    BY <1>1, <2>2 DEF RxStart
  <2>3. QED
    BY <2>1, <2>2
<1>2. CASE RxEdge
  BY <1>2 DEF RxEdge
<1>3. CASE RxShift(b)
  BY <1>3 DEF RxShift
<1>4. CASE RxStop
  BY <1>4 DEF RxStop
<1>5. QED
  BY <1>1, <1>2, <1>3, <1>4 DEF Receiver, RxIdle

(* With the divider running, a cycle is a cycle of the receiver's time.    *)
LEMMA RxTimeStep ==
    ASSUME TypeOK, RxControl, RxTicking, NEW b \in Bit, Edge(b),
           rxfsm # "idle", ~clrdivrx, ~(rxfsm = "stop" /\ toprx)
    PROVE  rxfsm' # "idle" /\ ~clrdivrx' /\ RxTime' = RxTime + 1
<1>1. RxTypes /\ DivTypes
  BY TypeParts
<1>2. rxfsm' # "idle" /\ ~clrdivrx' /\ RxHalves \in Int /\ RxHalves' = RxHalves + Count(toprx)
  BY <1>1, HalvesStep DEF Edge, DivTypes
<1>3. clrdivrx = FALSE
  BY <1>1 DEF RxTypes
<1>4. rxdiv' = Divided(FALSE, rxdiv) /\ toprx' = Tops(FALSE, rxdiv)
  BY <1>3, Zenon DEF Edge, RxDiv
<1>5. RxTicks' = RxTicks + Count(top16) /\ RxTicks \in Int
  <2>1. RxHalves' \in Int
    BY <1>2 DEF Count
  <2>2. HalfBit * (RxHalves' + Count(toprx')) + rxdiv' = HalfBit * RxHalves' + rxdiv + Count(top16)
    BY <1>1, <1>4, <2>1, TicksStep, Zenon DEF DivTypes
  <2>3. HalfBit * RxHalves' \in Int /\ rxdiv \in Int
    BY <1>1, <2>1, OneMore DEF DivTypes
  <2>4. QED
    BY <1>2, <2>2, <2>3 DEF RxTicks
<1>6. D * (RxTicks + 1) = D * RxTicks + D /\ D * RxTicks \in Int
  BY <1>5, OneMore DEF D
<1>7. /\ Phase \in 0 .. D
      /\ Phase' = Phase + 1 - (IF top16 THEN D ELSE 0)
  BY <1>1, <1>3, PhaseStep DEF DivTypes, RxTicking, Edge, RxTypes
<1>8. RxTime' = RxTime + 1
  <2>1. D \in Int /\ Phase \in Int /\ RxTime' = D * RxTicks' + Phase'
    BY <1>7 DEF RxTime, D
  <2>2. CASE top16
    <3>1. RxTicks' = RxTicks + 1 /\ Phase' = Phase + 1 - D
      BY <1>5, <1>7, <2>2 DEF Count
    <3>2. QED
      BY <1>6, <2>1, <3>1 DEF RxTime
  <2>3. CASE ~top16
    <3>1. RxTicks' = RxTicks /\ Phase' = Phase + 1
      BY <1>5, <1>7, <2>1, <2>3 DEF Count
    <3>2. QED
      BY <1>6, <2>1, <3>1 DEF RxTime
  <2>4. QED
    BY <2>2, <2>3
<1>9. QED
  BY <1>2, <1>8

-----------------------------------------------------------------------------
(* The sender's time. *)

(* The bit a cycle is in.                                                  *)
LEMMA BitAt ==
    ASSUME NEW n \in Nat, NEW l \in 1 .. n, NEW bit \in Int, NEW k \in Int,
           k * n <= bit * n + (n - l), bit * n + (n - l) < (k + 1) * n
    PROVE  bit = k
<1> DEFINE p == bit * n
           q == k * n
<1>1. p \in Int /\ q \in Int /\ (bit + 1) * n = p + n /\ (k + 1) * n = q + n
  OBVIOUS
<1>2. bit < k => (bit + 1) * n <= k * n
  OBVIOUS
<1>3. k < bit => (k + 1) * n <= bit * n
  OBVIOUS
<1> HIDE DEF p, q
<1>4. q <= p + (n - l) /\ p + (n - l) < q + n
  BY <1>1 DEF p, q
<1>5. ~(bit < k)
  BY <1>1, <1>2, <1>4 DEF q
<1>6. ~(k < bit)
  BY <1>1, <1>3, <1>4 DEF p
<1>7. QED
  BY <1>5, <1>6

(* A frame in progress: which bit it is in, by the cycles since its start. *)
LEMMA ElapsedIs ==
    ASSUME SenderOK, frame # << >>
    PROVE  /\ sendersBit \in 0 .. ndbits + 2 /\ Elapsed \in Nat
           /\ sendersBit * bitLength <= Elapsed /\ Elapsed < (sendersBit + 1) * bitLength
           /\ Elapsed = sendersBit * bitLength + (bitLength - left)
           /\ \A k \in 0 .. ndbits + 2 :
                k * bitLength <= Elapsed /\ Elapsed < (k + 1) * bitLength => sendersBit = k
<1>1. /\ Len(frame) \in 1 .. ndbits + 3 /\ bitLength \in Nat \ {0} /\ left \in 1 .. bitLength
  BY RxBit DEF SenderOK
<1>2. sendersBit \in 0 .. ndbits + 2
  BY <1>1 DEF sendersBit
<1>3. Elapsed = sendersBit * bitLength + (bitLength - left)
  BY DEF Elapsed
<1> DEFINE p == sendersBit * bitLength
<1>4. p \in Nat /\ (sendersBit + 1) * bitLength = p + bitLength
  BY <1>1, <1>2
<1>5. Elapsed \in Nat /\ p <= Elapsed /\ Elapsed < p + bitLength
  <2> HIDE DEF p
  <2>1. Elapsed = p + (bitLength - left)
    BY <1>3 DEF p
  <2>2. QED
    BY <1>1, <1>4, <2>1
<1>6. ASSUME NEW k \in 0 .. ndbits + 2, k * bitLength <= Elapsed, Elapsed < (k + 1) * bitLength
      PROVE  sendersBit = k
  BY <1>1, <1>2, <1>3, <1>6, BitAt
<1>7. QED
  BY <1>2, <1>3, <1>4, <1>5, <1>6

(* Until a frame ends, a cycle of it is a cycle.                           *)
LEMMA ElapsedStep ==
    ASSUME SenderOK, frame # << >>, Len(frame) > 1 \/ left > 1,
           Sends \/ Holds \/ NextBit \/ Waits
    PROVE  /\ frame' # << >> /\ Elapsed' = Elapsed + 1
           /\ bitLength' = bitLength /\ (Holds \/ NextBit)
           /\ Len(frame') = Len(frame) \/ Len(frame') = Len(frame) - 1
<1>1. /\ Len(frame) \in 1 .. ndbits + 3 /\ bitLength \in Nat \ {0} /\ left \in 1 .. bitLength
  BY RxBit DEF SenderOK
<1>2. ~Sends /\ ~Waits
  <2>1. Sends => frame = << >> \/ (Len(frame) = 1 /\ left = 1)
    BY Zenon DEF Sends
  <2>2. ~(Len(frame) = 1 /\ left = 1)
    <3>1. ~(1 > 1)
      OBVIOUS
    <3>2. QED
      BY <3>1, Zenon
  <2>3. QED
    BY <2>1, <2>2, Zenon DEF Waits
<1>3. CASE Holds
  <2>1. frame' = frame /\ bitLength' = bitLength /\ left' = left - 1
    BY <1>3 DEF Holds
  <2>2. sendersBit' = sendersBit
    BY <2>1 DEF sendersBit
  <2>3. sendersBit * bitLength \in Int
    BY <1>1 DEF sendersBit
  <2>4. QED
    <3> DEFINE p == sendersBit * bitLength
    <3>1. Elapsed = p + (bitLength - left) /\ Elapsed' = p + (bitLength - (left - 1))
      BY <2>1, <2>2 DEF Elapsed
    <3> HIDE DEF p
    <3>2. p \in Int
      BY <2>3 DEF p
    <3>3. Elapsed' = Elapsed + 1
      BY <1>1, <3>1, <3>2
    <3>4. QED
      BY <1>1, <1>3, <2>1, <3>3
<1>4. CASE NextBit
  <2>1. left = 1 /\ Len(frame) > 1 /\ frame' = Tail(frame) /\ left' = bitLength /\ bitLength' = bitLength
    BY <1>1, <1>4 DEF NextBit
  <2>2. Tail(frame) \in Seq(Bit) /\ Len(Tail(frame)) = Len(frame) - 1
    BY HeadTailProperties DEF SenderOK
  <2>3. frame' # << >>
    <3>1. Len(frame') # 0
      BY <1>1, <2>1, <2>2
    <3>2. QED
      BY <3>1, EmptySeq
  <2>4. sendersBit' = sendersBit + 1 /\ sendersBit \in Int
    BY <1>1, <2>1, <2>2 DEF sendersBit
  <2>5. (sendersBit + 1) * bitLength = sendersBit * bitLength + bitLength
        /\ sendersBit * bitLength \in Int
    BY <1>1, <2>4
  <2>6. QED
    <3> DEFINE p == sendersBit * bitLength
               q == (sendersBit + 1) * bitLength
    <3>1. Elapsed = p + (bitLength - 1) /\ Elapsed' = q + (bitLength - bitLength)
      BY <2>1, <2>3, <2>4 DEF Elapsed
    <3> HIDE DEF p, q
    <3>2. p \in Int /\ q = p + bitLength
      BY <2>5 DEF p, q
    <3>3. Elapsed' = Elapsed + 1
      BY <1>1, <3>1, <3>2
    <3>4. QED
      BY <1>1, <1>4, <2>1, <2>2, <2>3, <3>3
<1>5. QED
  BY <1>2, <1>3, <1>4

-----------------------------------------------------------------------------
(* The two side by side. *)

(* The receiver's half bits in cycles: a sample is taken at its time, and  *)
(* the receiver is done at its time.                                       *)
LEMMA Clockwork ==
    /\ HalfBit * D \in Nat /\ D <= HalfBit * D /\ D \in Nat \ {0}
    /\ \A k \in Int : Sample(k) \in Int /\ D * (HalfBit * (4 + 2 * k)) = Sample(k) + D - 3
    /\ Done \in Int /\ D * (HalfBit * (5 + 2 * ndbits)) = Done + D - 4
    /\ 5 + 2 * D <= Done
<1> USE DEF D
<1> DEFINE hd == HalfBit * D
<1>1. hd \in Nat /\ D <= hd /\ D \in Nat \ {0}
  <2>1. 1 * D <= HalfBit * D
    OBVIOUS
  <2>2. QED
    BY <2>1
<1>2. \A k \in Int : Sample(k) = (k + 2) * (2 * hd) - D + 3
  <2>1. Nominal = 2 * hd
    BY DEF Nominal
  <2>2. QED
    <3> HIDE DEF hd
    <3>1. ASSUME NEW k \in Int PROVE Sample(k) = (k + 2) * (2 * hd) - D + 3
      <4>1. (k + 2) * (2 * hd) \in Int
        BY <1>1
      <4>2. Sample(k) = (k + 2) * (2 * hd) - divisor + 2
        BY <2>1 DEF Sample
      <4>3. QED
        <5> DEFINE m == (k + 2) * (2 * hd)
        <5> HIDE DEF m
        <5>1. m \in Int /\ Sample(k) = m - divisor + 2
          BY <4>1, <4>2 DEF m
        <5>2. Sample(k) = m - D + 3
          BY <5>1
        <5>3. QED
          BY <5>2 DEF m
    <3>2. QED
      BY <3>1
<1>3. \A m \in Int : D * (HalfBit * m) = m * hd
  OBVIOUS
<1>4. \A k \in Int : (4 + 2 * k) * hd = (k + 2) * (2 * hd) /\ (k + 2) * (2 * hd) \in Int
  <2> HIDE DEF hd
  <2>1. QED
    BY <1>1
<1>5. ASSUME NEW k \in Int
      PROVE  Sample(k) \in Int /\ D * (HalfBit * (4 + 2 * k)) = Sample(k) + D - 3
  <2> DEFINE m == (k + 2) * (2 * hd)
  <2>1. Sample(k) = m - D + 3 /\ m \in Int /\ D * (HalfBit * (4 + 2 * k)) = m
    BY <1>2, <1>3, <1>4
  <2> HIDE DEF m, hd
  <2>2. QED
    BY <1>1, <2>1
<1>6. Done \in Int /\ D * (HalfBit * (5 + 2 * ndbits)) = Done + D - 4
  <2> DEFINE m == D * (HalfBit * (4 + 2 * ndbits))
  <2>1. D * (HalfBit * (5 + 2 * ndbits)) = m + hd
    BY <1>3
  <2>2. Sample(ndbits) \in Int /\ m = Sample(ndbits) + D - 3
    BY <1>5
  <2>3. Done = Sample(ndbits) + hd + 1
    BY DEF Done
  <2> HIDE DEF m, hd
  <2>4. QED
    BY <1>1, <2>1, <2>2, <2>3
<1>7. 5 + 2 * D <= Done
  <2>1. 5 * hd <= (5 + 2 * ndbits) * hd /\ (5 + 2 * ndbits) * hd \in Int
    <3> HIDE DEF hd
    <3>1. QED
      BY <1>1
  <2>2. D * (HalfBit * (5 + 2 * ndbits)) = (5 + 2 * ndbits) * hd
    BY <1>3
  <2> DEFINE m == (5 + 2 * ndbits) * hd
  <2>3. 5 * hd <= m /\ m \in Int /\ m = Done + D - 4
    BY <1>6, <2>1, <2>2
  <2> HIDE DEF m, hd
  <2>4. QED
    BY <1>1, <1>6, <2>3
<1>8. QED
  BY <1>1, <1>5, <1>6, <1>7

(* How far the receiver can be in its time.                                *)
LEMMA RxTimeIs ==
    ASSUME TypeOK, RxControl, RxTicking, rxfsm # "idle"
    PROVE  /\ RxTime \in Int
           /\ RxHalves \in 0 .. 4 + 2 * ndbits
           /\ RxTime <= D * (HalfBit * (RxHalves + 1)) + Count(toprx)
           /\ toprx => RxTime = D * (HalfBit * (RxHalves + 1)) + 1
           /\ D * (HalfBit * (RxHalves + 1)) <= Done + D - 4
<1>1. RxTypes /\ DivTypes
  BY TypeParts
<1>2. RxHalves \in 0 .. 4 + 2 * ndbits
  BY <1>1 DEF RxTypes, RxHalves, States
<1>3. Phase \in 0 .. D /\ D \in Nat
  BY <1>1 DEF Phase, D, DivTypes
<1>4. D * (HalfBit * (RxHalves + 1)) <= Done + D - 4
  <2>1. HalfBit * (RxHalves + 1) <= HalfBit * (5 + 2 * ndbits)
    BY <1>2, Products
  <2>2. D * (HalfBit * (RxHalves + 1)) <= D * (HalfBit * (5 + 2 * ndbits))
    BY <1>2, <1>3, <2>1, Products
  <2>3. QED
    BY <2>2, Clockwork
<1> DEFINE p == HalfBit * (RxHalves + 1)
<1>5. p \in Int
  BY <1>2
<1>6. toprx => RxTime = D * p + 1
  BY <1>5 DEF RxTime, RxTicks, Count, RxTicking
<1>7. ASSUME ~toprx PROVE RxTime \in Int /\ RxTime <= D * p
  <2>1. RxTicks = HalfBit * RxHalves + rxdiv /\ p = HalfBit * RxHalves + HalfBit
        /\ HalfBit * RxHalves \in Int
    BY <1>2, <1>7, OneMore DEF RxTicks, Count
  <2>2. RxTicks + 1 <= p /\ RxTicks \in Int
    <3> DEFINE q == HalfBit * RxHalves
    <3> HIDE DEF p, q
    <3>1. RxTicks = q + rxdiv /\ p = q + HalfBit /\ q \in Int
      BY <2>1 DEF q
    <3>2. QED
      BY <1>1, <3>1 DEF DivTypes
  <2>3. D * (RxTicks + 1) <= D * p /\ D * (RxTicks + 1) = D * RxTicks + D /\ D * RxTicks \in Int
    <3> HIDE DEF p
    <3>1. QED
      BY <1>3, <1>5, <2>2, Products, OneMore
  <2>4. QED
    <3> DEFINE q == D * RxTicks
               r == D * p
    <3>1. r \in Int
      BY <1>3, <1>5, OneMore
    <3> HIDE DEF p, q, r
    <3>2. RxTime = q + Phase /\ q + D <= r /\ q \in Int
      BY <2>3 DEF q, r, RxTime
    <3>3. RxTime \in Int /\ RxTime <= r
      BY <1>3, <3>1, <3>2
    <3>4. QED
      BY <3>3 DEF r
<1>8. D * p \in Int
  BY <1>3, <1>5, OneMore
<1> HIDE DEF p
<1>9. RxTime \in Int /\ RxTime <= D * p + Count(toprx)
  <2>1. CASE toprx
    BY <1>6, <1>8, <2>1 DEF Count
  <2>2. CASE ~toprx
    BY <1>7, <1>8, <2>2 DEF Count
  <2>3. QED
    BY <2>1, <2>2
<1>10. QED
  BY <1>2, <1>4, <1>6, <1>9 DEF p

(* A sender that is in time: its bits are longer than three cycles, and    *)
(* its frame lasts until the receiver is done with it.                     *)
LEMMA TimesOf ==
    ASSUME InTime, SenderOK, frame # << >>
    PROVE  /\ bitLength \in Nat /\ bitLength > 3
           /\ (ndbits + 2) * bitLength <= Done /\ Done < (ndbits + 3) * bitLength
           /\ \A k \in 0 .. ndbits : /\ (k + 1) * bitLength <= Sample(k)
                                     /\ Sample(k) < (k + 2) * bitLength
<1>1. bitLength \in BitLengths /\ bitLength \in Nat
  BY DEF SenderOK
<1>2. /\ (ndbits + 2) * bitLength <= Done /\ Done < (ndbits + 3) * bitLength
      /\ \A k \in 0 .. ndbits : /\ (k + 1) * bitLength <= Sample(k)
                                /\ Sample(k) < (k + 2) * bitLength
  BY <1>1 DEF InTime
<1>3. bitLength > 3
  <2> DEFINE hd == HalfBit * D
             p == D * (HalfBit * (4 + 2 * 0))
  <2>1. p = 4 * hd /\ hd \in Nat
    BY DEF D
  <2>2. Sample(0) \in Int /\ p = Sample(0) + D - 3 /\ D <= hd /\ D \in Nat \ {0}
    BY Clockwork
  <2>3. Sample(0) < (0 + 2) * bitLength
    BY <1>2
  <2> HIDE DEF hd, p
  <2>4. QED
    BY <1>1, <2>1, <2>2, <2>3
<1>4. QED
  BY <1>1, <1>2, <1>3

(* Before the receiver is done the frame does not end.                     *)
LEMMA FrameGoesOn ==
    ASSUME InTime, SenderOK, frame # << >>, Elapsed <= Done - 1
    PROVE  Len(frame) > 1 \/ left > 1
<1>0. Len(frame) \in Nat \ {0} /\ left \in Nat \ {0}
  <2>1. Len(frame) \in 1 .. ndbits + 3 /\ bitLength \in Nat /\ left \in 1 .. bitLength
    BY RxBit, TimesOf DEF SenderOK
  <2>2. QED
    BY <2>1
<1> SUFFICES ASSUME ~(Len(frame) > 1 \/ left > 1) PROVE FALSE
  OBVIOUS
<1>6. Len(frame) = 1 /\ left = 1
  <2>1. ~(Len(frame) > 1) /\ ~(left > 1)
    BY Zenon
  <2>2. QED
    BY <1>0, <2>1
<1>1. sendersBit = ndbits + 2
  BY <1>6 DEF sendersBit
<1>2. Elapsed = (ndbits + 2) * bitLength + (bitLength - 1) /\ bitLength \in Nat
  BY <1>1, <1>6, TimesOf, ElapsedIs
<1>3. (ndbits + 3) * bitLength = (ndbits + 2) * bitLength + bitLength
      /\ (ndbits + 2) * bitLength \in Int
  BY <1>2
<1> DEFINE p == (ndbits + 2) * bitLength
<1>4. Done < p + bitLength /\ Elapsed = p + (bitLength - 1) /\ p \in Int /\ Done \in Int
  BY <1>2, <1>3, TimesOf, Clockwork
<1> HIDE DEF p
<1>5. QED
  BY <1>2, <1>4

(* Nor before the receiver, once at work, is done.                         *)
LEMMA BusyIsInTime ==
    ASSUME TypeOK, RxControl, RxTicking, Follows, rxfsm # "idle"
    PROVE  /\ frame # << >> /\ Elapsed \in Int /\ Elapsed <= Done - 1
           /\ toprx => /\ ~clrdivrx
                       /\ Elapsed = D * (HalfBit * (RxHalves + 1)) + 3 - D
<1>1. frame # << >> /\ D \in Nat /\ Done \in Int /\ 5 + 2 * D <= Done
  BY Clockwork DEF Follows
<1>2. CASE clrdivrx
  <2>1. Elapsed = 1 /\ ~toprx
    BY <1>2, Zenon DEF Follows
  <2>2. QED
    BY <1>1, <2>1
<1>3. CASE ~clrdivrx
  <2> DEFINE p == D * (HalfBit * (RxHalves + 1))
  <2>1. Elapsed = RxTime + 2 - D
    BY <1>3, Zenon DEF Follows
  <2>2. /\ RxTime \in Int /\ RxTime <= p + Count(toprx) /\ p <= Done + D - 4
        /\ toprx => RxTime = p + 1
    BY RxTimeIs
  <2>3. p \in Int
    BY RxTimeIs DEF D
  <2> HIDE DEF p
  <2>4. Elapsed \in Int /\ Elapsed <= Done - 1
    BY <1>1, <2>1, <2>2, <2>3 DEF Count
  <2>5. toprx => Elapsed = p + 3 - D
    BY <1>1, <2>1, <2>2, <2>3
  <2>6. QED
    BY <1>1, <1>3, <2>4, <2>5 DEF p
<1>4. QED
  BY <1>2, <1>3

(* A tick of the half bit comes of a tick of top16.                        *)
LEMMA TickingStep ==
    ASSUME TypeOK, RxTicking, NEW b \in Bit, Edge(b)
    PROVE  RxTicking'
<1>1. RxTypes /\ DivTypes
  BY TypeParts
<1>2. /\ top16' => div16' = 0
      /\ top16 => Phase = D
      /\ ~clrdivrx => Phase' = Phase + 1 - (IF top16 THEN D ELSE 0)
  BY <1>1, PhaseStep DEF DivTypes, RxTicking, Edge, RxTypes
<1>3. ASSUME toprx' PROVE rxdiv' = 0 /\ Phase' = 1
  <2>1. ~clrdivrx /\ top16 /\ rxdiv = HalfBit - 1
    BY <1>3, Zenon DEF Edge, RxDiv, Tops
  <2>2. rxdiv' = 0
    BY <2>1 DEF Edge, RxDiv, Divided
  <2>3. Phase' = 1
    BY <1>2, <2>1 DEF D
  <2>4. QED
    BY <2>2, <2>3
<1>4. QED
  BY <1>2, <1>3 DEF RxTicking

\* Where an idle receiver may find the sender.
AtRest ==
    \/ frame = << >> \/ Len(frame) = 1
    \/ Len(frame) = ndbits + 3 /\ left = bitLength /\ ~(top16 /\ rxdiv = HalfBit - 1)

(* With the sender between two frames, or in the last bit of one, it stays *)
(* there or starts a frame that the receiver's tick does not meet.         *)
LEMMA RestStep ==
    ASSUME AvoidsTick, SenderOK, frame = << >> \/ Len(frame) = 1,
           Sends \/ Holds \/ NextBit \/ Waits
    PROVE  AtRest'
<1>1. CASE Sends
  <2>1. PICK w \in Words, n \in BitLengths :
            frame' = <<0>> \o w \o <<1>> /\ bitLength' = n /\ left' = n
    BY <1>1 DEF Sends
  <2>2. w \in Word
    OBVIOUS
  <2>3. Len(frame') = ndbits + 3
    BY <2>1, <2>2, FrameIs
  <2>4. ~(top16' /\ rxdiv' = HalfBit - 1)
    BY <1>1, Zenon DEF Sends
  <2>5. left' = bitLength'
    BY <2>1
  <2>6. QED
    BY <2>3, <2>4, <2>5, Zenon DEF AtRest
<1>2. CASE Holds
  BY <1>2 DEF Holds, AtRest
<1>3. CASE NextBit
  <2>1. frame # << >> /\ frame' = Tail(frame) /\ Len(frame) = 1
    BY <1>3 DEF NextBit
  <2>2. Tail(frame) \in Seq(Bit) /\ Len(Tail(frame)) = 0
    BY <2>1, HeadTailProperties DEF SenderOK
  <2>3. frame' = << >>
    BY <2>1, <2>2, EmptySeq
  <2>4. QED
    BY <2>3 DEF AtRest
<1>4. CASE Waits
  BY <1>4 DEF Waits, sender, AtRest
<1>5. QED
  BY <1>1, <1>2, <1>3, <1>4

(* A falling line finds the receiver idle only in the first cycle of a     *)
(* start bit.                                                              *)
LEMMA IdleSees ==
    ASSUME SenderOK, AtRest
    PROVE  /\ rx = 1 => frame = << >> \/ Len(frame) = 1
           /\ rx = 0 => /\ frame # << >> /\ sendersBit = 0 /\ left = bitLength
                        /\ ~(top16 /\ rxdiv = HalfBit - 1)
<1>1. CASE frame = << >>
  BY <1>1, RxBit
<1>2. CASE frame # << >> /\ Len(frame) = 1
  <2>1. rx = frame[1] /\ frame[1] = 1
    BY <1>2, RxBit DEF SenderOK
  <2>2. QED
    BY <1>2, <2>1
<1>3. CASE frame # << >> /\ Len(frame) # 1
  <2>1. Len(frame) = ndbits + 3 /\ left = bitLength /\ ~(top16 /\ rxdiv = HalfBit - 1)
    BY <1>3, Zenon DEF AtRest
  <2>2. rx = 0 /\ sendersBit = 0
    BY <1>3, <2>1, RxBit DEF SenderOK, sendersBit
  <2>3. QED
    BY <1>3, <2>1, <2>2
<1>4. QED
  BY <1>1, <1>2, <1>3

(* A start bit is seen in its first cycle, and the receiver starts.        *)
LEMMA StartStep ==
    ASSUME InTime, TypeOK, SenderOK, RxControl, AtRest, RxIdle(rx), RxDiv, rx = 0,
           Sends \/ Holds \/ NextBit \/ Waits
    PROVE  /\ rxfsm' = "start" /\ frame' # << >>
           /\ clrdivrx' /\ Elapsed' = 1 /\ ~toprx' /\ ~wait_a_bitrx'
<1>1. frame # << >> /\ sendersBit = 0 /\ left = bitLength /\ ~(top16 /\ rxdiv = HalfBit - 1)
  BY IdleSees
<1>2. bitLength \in Nat /\ bitLength > 3
  BY <1>1, TimesOf
<1>3. Elapsed = 0
  <2>1. Elapsed = 0 * bitLength + (bitLength - bitLength)
    BY <1>1, ElapsedIs
  <2>2. QED
    BY <1>2, <2>1
<1>4. left > 1
  BY <1>1, <1>2
<1>5. frame' # << >> /\ Elapsed' = 1
  BY <1>1, <1>3, <1>4, ElapsedStep
<1>6. ~toprx'
  BY <1>1, Zenon DEF RxDiv, Tops
<1>7. clrdivrx' /\ ~wait_a_bitrx'
  BY Zenon DEF RxIdle, RxControl
<1>8. rxfsm' = "start"
  BY DEF RxIdle
<1>9. QED
  BY <1>5, <1>6, <1>7, <1>8

(* A cycle later both dividers are at their start.                         *)
LEMMA ClearStep ==
    ASSUME InTime, TypeOK, SenderOK, RxControl, RxTicking, Follows, NEW b \in Bit, Edge(b),
           rxfsm # "idle", clrdivrx, Sends \/ Holds \/ NextBit \/ Waits
    PROVE  /\ rxfsm' = "start" /\ frame' # << >> /\ ~clrdivrx'
           /\ Elapsed' = 2 /\ RxTime' = D
<1>1. RxTypes /\ DivTypes
  BY TypeParts
<1>2. rxfsm = "start" /\ frame # << >> /\ Elapsed = 1 /\ ~toprx /\ ~wait_a_bitrx
  BY Zenon DEF Follows, RxControl
<1>3. Elapsed <= Done - 1
  BY BusyIsInTime
<1>4. frame' # << >> /\ Elapsed' = 2
  BY <1>2, <1>3, FrameGoesOn, ElapsedStep
<1>5. RxStart
  BY <1>2 DEF Edge, Receiver, RxIdle, RxEdge, RxShift, RxStop
<1>6. ~clrdivrx' /\ ~wait_a_bitrx'
  BY <1>2, <1>5, Zenon DEF RxStart
<1>7. rxfsm' = "start"
  BY <1>2, <1>5 DEF RxStart
<1>8. rxdiv' = 0 /\ ~toprx'
  BY DEF Edge, RxDiv, Divided, Tops
<1>9. Phase' = D
  BY <1>1, PhaseStep DEF DivTypes, RxTicking, Edge, RxTypes
<1>10. RxTime' = D
  <2>1. RxHalves' = 0 /\ Count(toprx') = 0
    BY <1>6, <1>7, <1>8 DEF RxHalves, Count
  <2>2. RxTicks' = 0
    BY <1>8, <2>1 DEF RxTicks
  <2>3. QED
    BY <1>9, <2>2 DEF RxTime, D
<1>11. QED
  BY <1>4, <1>6, <1>7, <1>10

(* The receiver is done in the stop bit.                                   *)
LEMMA DoneStep ==
    ASSUME InTime, TypeOK, SenderOK, RxControl, RxTicking, Follows, NEW b \in Bit, Edge(b),
           rxfsm = "stop", toprx, Sends \/ Holds \/ NextBit \/ Waits
    PROVE  /\ rxfsm' = "idle" /\ frame' # << >> /\ Len(frame') = 1
           /\ Elapsed = Done - 1 /\ Elapsed' = Done
           /\ sendersBit = ndbits + 2 \/ sendersBit = ndbits + 1
<1>1. /\ frame # << >> /\ Elapsed \in Int /\ Elapsed <= Done - 1
      /\ Elapsed = D * (HalfBit * (RxHalves + 1)) + 3 - D
  BY BusyIsInTime
<1>2. Elapsed = Done - 1
  <2>1. RxHalves + 1 = 5 + 2 * ndbits
    BY DEF RxHalves
  <2>2. QED
    <3> DEFINE p == D * (HalfBit * (RxHalves + 1))
    <3>1. p = Done + D - 4 /\ Done \in Int /\ D \in Nat \ {0} /\ Elapsed = p + 3 - D
      BY <1>1, <2>1, Clockwork, Zenon
    <3> HIDE DEF p
    <3>2. QED
      BY <3>1
<1>3. rxfsm' = "idle"
  BY DEF Edge, Receiver, RxIdle, RxStart, RxEdge, RxShift, RxStop
<1>4. frame' # << >> /\ Elapsed' = Done /\ bitLength' = bitLength
      /\ (Len(frame') = Len(frame) \/ Len(frame') = Len(frame) - 1)
  BY <1>1, <1>2, FrameGoesOn, ElapsedStep, Clockwork
<1>5. SenderOK'
  BY SenderStep
<1>6. sendersBit' = ndbits + 2
  <2>1. (ndbits + 2) * bitLength <= Elapsed' /\ Elapsed' < (ndbits + 3) * bitLength
    BY <1>1, <1>4, TimesOf
  <2>2. Elapsed' = sendersBit' * bitLength + (bitLength - left')
    BY <1>4 DEF Elapsed
  <2>3. bitLength \in Nat /\ left' \in 1 .. bitLength /\ sendersBit' \in Int
    <3>1. Len(frame') \in Nat
      BY <1>5, LenProperties DEF SenderOK
    <3>2. QED
      BY <1>1, <1>4, <1>5, <3>1, TimesOf DEF SenderOK, sendersBit
  <2>4. ndbits + 2 \in Int /\ ndbits + 2 + 1 = ndbits + 3
    OBVIOUS
  <2>5. QED
    BY <2>1, <2>2, <2>3, <2>4, BitAt
<1>7. Len(frame') = 1 /\ (sendersBit = ndbits + 2 \/ sendersBit = ndbits + 1)
  <2>1. Len(frame) \in Int /\ Len(frame') \in Int
    BY <1>5, LenProperties DEF SenderOK
  <2> DEFINE before == Len(frame)
             after == Len(frame')
  <2>2. /\ ndbits + 3 - after = ndbits + 2 /\ sendersBit = ndbits + 3 - before
        /\ after = before \/ after = before - 1
    BY <1>4, <1>6, Zenon DEF sendersBit
  <2>3. before \in Int /\ after \in Int
    BY <2>1
  <2> HIDE DEF before, after
  <2>4. after = 1 /\ (sendersBit = ndbits + 2 \/ sendersBit = ndbits + 1)
    BY <2>2, <2>3
  <2>5. QED
    BY <2>4, Zenon DEF after
<1>8. QED
  BY <1>2, <1>3, <1>4, <1>7

(* Each clock edge keeps the two at their distance.                        *)
LEMMA FollowsStep ==
    ASSUME AvoidsTick, InTime, RxInv, Step
    PROVE  Follows'
<1>1. TypeOK /\ SenderOK /\ RxControl /\ RxTicking /\ Follows
  BY DEF RxInv, Types
<1>2. rx \in Bit /\ Edge(rx) /\ (Sends \/ Holds \/ NextBit \/ Waits)
  BY <1>1, RxBit DEF Step
<1>3. ASSUME AtRest' , rxfsm' = "idle" PROVE Follows'
  BY <1>3, Zenon DEF Follows, AtRest
<1>4. ASSUME rxfsm' # "idle", frame' # << >>,
             clrdivrx' => Elapsed' = 1 /\ ~toprx' /\ ~wait_a_bitrx',
             ~clrdivrx' => Elapsed' = RxTime' + 2 - D
      PROVE  Follows'
  <2>1. D' = D
    BY DEF D
  <2>2. QED
    BY <1>4, <2>1, Zenon DEF Follows
<1>5. CASE rxfsm = "idle"
  <2>1. RxIdle(rx)
    BY <1>2, <1>5 DEF Edge, Receiver, RxStart, RxEdge, RxShift, RxStop
  <2>2. AtRest
    BY <1>1, <1>5, Zenon DEF Follows, AtRest
  <2>3. CASE rx = 0
    <3>1. /\ rxfsm' = "start" /\ frame' # << >>
          /\ clrdivrx' /\ Elapsed' = 1 /\ ~toprx' /\ ~wait_a_bitrx'
      BY <1>1, <1>2, <2>1, <2>2, <2>3, StartStep DEF Edge
    <3>2. rxfsm' # "idle"
      BY <3>1
    <3>3. QED
      BY <1>4, <3>1, <3>2, Zenon
  <2>4. CASE rx # 0
    <3>1. rx = 1
      BY <1>2, <2>4 DEF Bit
    <3>2. frame = << >> \/ Len(frame) = 1
      BY <1>1, <2>2, <3>1, IdleSees
    <3>3. AtRest'
      BY <1>1, <1>2, <3>2, RestStep
    <3>4. rxfsm' = "idle"
      BY <2>1, <2>4 DEF RxIdle
    <3>5. QED
      BY <1>3, <3>3, <3>4
  <2>5. QED
    BY <2>3, <2>4
<1>6. CASE rxfsm # "idle" /\ clrdivrx
  <2>1. /\ rxfsm' = "start" /\ frame' # << >> /\ ~clrdivrx'
        /\ Elapsed' = 2 /\ RxTime' = D
    BY <1>1, <1>2, <1>6, ClearStep
  <2>2. rxfsm' # "idle" /\ Elapsed' = RxTime' + 2 - D
    BY <2>1, Clockwork
  <2>3. QED
    BY <1>4, <2>1, <2>2, Zenon
<1>7. CASE rxfsm = "stop" /\ toprx
  <2>1. rxfsm' = "idle" /\ Len(frame') = 1
    BY <1>1, <1>2, <1>7, DoneStep
  <2>2. QED
    BY <1>3, <2>1, Zenon DEF AtRest
<1>8. CASE rxfsm # "idle" /\ ~clrdivrx /\ ~(rxfsm = "stop" /\ toprx)
  <2>1. rxfsm' # "idle" /\ ~clrdivrx' /\ RxTime' = RxTime + 1
    BY <1>1, <1>2, <1>8, RxTimeStep
  <2>2. frame # << >> /\ Elapsed \in Int /\ Elapsed <= Done - 1
    BY <1>1, <1>8, BusyIsInTime
  <2>3. frame' # << >> /\ Elapsed' = Elapsed + 1
    BY <1>1, <1>2, <2>2, FrameGoesOn, ElapsedStep
  <2>4. Elapsed = RxTime + 2 - D
    BY <1>1, <1>8, Zenon DEF Follows
  <2>5. RxTime \in Int /\ D \in Int
    BY <1>1, <1>8, RxTimeIs, Clockwork
  <2>6. Elapsed' = RxTime' + 2 - D
    BY <2>1, <2>3, <2>4, <2>5
  <2>7. QED
    BY <1>4, <2>1, <2>3, <2>6, Zenon
<1>9. QED
  BY <1>5, <1>6, <1>7, <1>8, Zenon

(* The invariant of the receiving side.                                    *)
LEMMA RxStep == AvoidsTick /\ InTime /\ RxInv /\ [Step]_vars => RxInv'
<1> SUFFICES ASSUME AvoidsTick, InTime, RxInv, [Step]_vars PROVE RxInv'
    OBVIOUS
<1>1. CASE Step
  <2>1. Types' /\ Types
    BY <1>1, TypeStep DEF RxInv
  <2>2. rx \in Bit /\ Edge(rx)
    BY <1>1, <2>1, RxBit DEF Step, Types
  <2>3. RxControl'
    BY <2>1, <2>2, TypeParts, ControlStep DEF RxInv, Types, Edge
  <2>4. RxTicking'
    BY <2>1, <2>2, TickingStep DEF RxInv, Types
  <2>5. Follows'
    BY <1>1, FollowsStep
  <2>6. QED
    BY <2>1, <2>3, <2>4, <2>5 DEF RxInv
<1>2. CASE UNCHANGED vars
  <2>1. Types'
    BY <1>2, TypeStep DEF RxInv
  <2>2. UNCHANGED <<rxfsm, rxbitcnt, wait_a_bitrx, rxrdyi, clrdivrx>>
        /\ UNCHANGED <<div16, top16, rxdiv, toprx>> /\ UNCHANGED <<frame, bitLength, left>>
    BY <1>2 DEF vars, moduleVars, receiver, dividers, sender
  <2>3. RxControl' /\ RxTicking'
    BY <2>2, Zenon DEF RxInv, RxControl, RxTicking, Phase, D
  <2>4. Follows'
    BY <2>2, Zenon DEF RxInv, Follows, Elapsed, sendersBit, RxTime, RxTicks, RxHalves, Count, Phase, D
  <2>5. QED
    BY <2>1, <2>3, <2>4 DEF RxInv
<1>3. QED
  BY <1>1, <1>2

(* The receiver starts idle and the sender silent.                         *)
LEMMA RxInit == EInit => RxInv
<1> SUFFICES ASSUME EInit PROVE RxInv
    OBVIOUS
<1>1. Types
  BY TypeInit
<1>2. rxfsm = "idle" /\ ~wait_a_bitrx /\ ~rxrdyi /\ ~clrdivrx /\ ~top16 /\ ~toprx /\ frame = << >>
  BY Zenon DEF EInit, Init
<1>3. QED
  BY <1>1, <1>2 DEF RxInv, RxControl, RxTicking, Follows

(* A sample falls into the bit it stands for.                              *)
LEMMA SampleIs ==
    ASSUME InTime, RxInv, rxfsm = "shift", toprx
    PROVE  frame # << >> /\ sendersBit = rxbitcnt + 1
<1>1. TypeOK /\ SenderOK /\ RxControl /\ RxTicking /\ Follows
  BY DEF RxInv, Types
<1>2. /\ frame # << >> /\ Elapsed \in Int
      /\ Elapsed = D * (HalfBit * (RxHalves + 1)) + 3 - D
  BY <1>1, BusyIsInTime
<1>3. rxbitcnt \in 0 .. ndbits
  BY <1>1, TypeParts DEF RxTypes
<1>4. Elapsed = Sample(rxbitcnt)
  <2>1. RxHalves + 1 = 4 + 2 * rxbitcnt
    BY <1>3 DEF RxHalves
  <2> DEFINE p == D * (HalfBit * (RxHalves + 1))
  <2>2. p = D * (HalfBit * (4 + 2 * rxbitcnt))
    BY <2>1, Zenon
  <2>3. p = Sample(rxbitcnt) + D - 3 /\ Sample(rxbitcnt) \in Int /\ D \in Int
    BY <1>3, <2>2, Clockwork
  <2>4. Elapsed = p + 3 - D
    BY <1>2
  <2> HIDE DEF p
  <2>5. QED
    BY <2>3, <2>4
<1>5. (rxbitcnt + 1) * bitLength <= Elapsed /\ Elapsed < (rxbitcnt + 2) * bitLength
  BY <1>1, <1>2, <1>3, <1>4, TimesOf
<1>6. rxbitcnt + 1 \in 0 .. ndbits + 2 /\ rxbitcnt + 1 + 1 = rxbitcnt + 2
  BY <1>3
<1>7. sendersBit = rxbitcnt + 1
  BY <1>1, <1>2, <1>5, <1>6, ElapsedIs
<1>8. QED
  BY <1>2, <1>7

(* With a sender in time whose start bits do not meet the receiver's tick, *)
(* the receiver takes start bits and data bits for what they are.          *)
THEOREM StaysInStep ==
    ASSUME AvoidsTick, InTime PROVE Spec => InStep
<1> DEFINE Samples == rxfsm = "shift" /\ toprx => frame # << >> /\ sendersBit = rxbitcnt + 1
           Starts == rxfsm = "idle" /\ rxfsm' = "start" => frame # << >> /\ sendersBit = 0
<1>1. RxInv /\ [Step]_vars => [Samples /\ Starts]_vars
  <2> SUFFICES ASSUME RxInv, Step PROVE Samples /\ Starts
    OBVIOUS
  <2>1. Samples
    BY SampleIs
  <2>2. ASSUME rxfsm = "idle", rxfsm' = "start" PROVE frame # << >> /\ sendersBit = 0
    <3>1. RxIdle(rx)
      BY <2>2 DEF Step, Edge, Receiver, RxStart, RxEdge, RxShift, RxStop
    <3>2. rx = 0
      BY <2>2, <3>1 DEF RxIdle
    <3>3. SenderOK /\ AtRest
      BY <2>2, Zenon DEF RxInv, Types, Follows, AtRest
    <3>4. QED
      BY <3>2, <3>3, IdleSees
  <2>3. QED
    BY <2>1, <2>2
<1> HIDE DEF Samples, Starts
<1>2. RxInv /\ [Step]_vars => RxInv'
  BY RxStep
<1>3. Spec => [][Samples /\ Starts]_vars
  BY <1>1, <1>2, RxInit, PTL DEF Spec
<1>4. [][Samples /\ Starts]_vars => [][Samples]_vars /\ [][Starts]_vars
  BY PTL
<1>5. QED
  BY <1>3, <1>4 DEF InStep, SamplesItsBit, StartsOnStartBit, Samples, Starts

-----------------------------------------------------------------------------
(* The transmitter's time and the listener's. *)

\* Two ticks of top16 in half a bit, and three cycles to a tick: with fewer, the
\* transmitter's divider, which the end of a word in the receiver does not stop,
\* may make its tick in the cycle in which the transmitter starts.
Ample == HalfBit > 1 /\ divisor > 1

\* Cycles in half a bit, and from a start bit's edge to the stop bit's sample.
Half == HalfBit * D
StopSample == (5 + 2 * ndbits) * Half

(* The times in cycles.                                                    *)
LEMMA HalfTimes ==
    /\ Half \in Nat \ {0} /\ D \in Nat \ {0} /\ D <= Half
    /\ Nominal = 2 * Half /\ Nominal \div 2 = Half
    /\ StopSample \in Nat /\ 5 * Half <= StopSample
    /\ StopSample = (ndbits + 2) * Nominal + Half
    /\ Done = StopSample - D + 4 /\ Done \in Int
    /\ \A m \in Int : D * (HalfBit * m) = m * Half /\ m * Half \in Int
<1>1. Half \in Nat \ {0} /\ D \in Nat \ {0} /\ D <= Half
  <2>1. Half \in Nat /\ D <= Half /\ D \in Nat \ {0}
    BY Clockwork DEF Half
  <2>2. QED
    BY <2>1
<1>2. Nominal = 2 * Half
  BY DEF Nominal, Half, D
<1>3. Nominal \div 2 = Half
  BY <1>1, <1>2
<1>4. \A m \in Int : D * (HalfBit * m) = m * Half /\ m * Half \in Int
  BY DEF Half, D
<1>5. StopSample \in Nat /\ 5 * Half <= StopSample
  BY <1>1 DEF StopSample
<1>6. StopSample = (ndbits + 2) * Nominal + Half
  BY <1>1, <1>2 DEF StopSample
<1>7. StopSample = Done + D - 4 /\ Done \in Int
  <2>1. D * (HalfBit * (5 + 2 * ndbits)) = (5 + 2 * ndbits) * Half
    BY <1>4
  <2>2. QED
    BY <2>1, Clockwork DEF StopSample
<1>8. Done = StopSample - D + 4
  BY <1>1, <1>5, <1>7
<1>9. QED
  BY <1>1, <1>2, <1>3, <1>4, <1>5, <1>6, <1>7, <1>8

(* The middles of the bits, as the listener finds them.                    *)
LEMMA Midpoints ==
    ASSUME NEW a \in Nat, NEW k \in Int
    PROVE  a % Nominal = Nominal \div 2 /\ a \div Nominal = k <=> a = k * Nominal + Half
<1> DEFINE q == a \div Nominal
           r == a % Nominal
<1>1. Nominal \in Nat \ {0} /\ Half \in Nat /\ Half < Nominal /\ Nominal \div 2 = Half
  BY HalfTimes
<1>2. q \in Int /\ r \in Int /\ 0 <= r /\ r < Nominal /\ a = q * Nominal + r
  BY <1>1
<1> HIDE DEF q, r
<1>3. r = Half /\ q = k => a = k * Nominal + Half
  BY <1>2
<1>4. ASSUME a = k * Nominal + Half PROVE q = k /\ r = Half
  <2> DEFINE p == q * Nominal
             s == k * Nominal
  <2>1. p \in Int /\ s \in Int /\ (q + 1) * Nominal = p + Nominal /\ (k + 1) * Nominal = s + Nominal
    BY <1>1, <1>2
  <2>2. (q < k => (q + 1) * Nominal <= k * Nominal) /\ (k < q => (k + 1) * Nominal <= q * Nominal)
    BY <1>1, <1>2
  <2>3. a = p + r /\ a = s + Half
    BY <1>2, <1>4
  <2>4. (q < k => p + Nominal <= s) /\ (k < q => s + Nominal <= p)
    BY <2>1, <2>2, Zenon
  <2> HIDE DEF p, s
  <2>5. q = k
    BY <1>1, <1>2, <2>1, <2>3, <2>4
  <2>6. p = s
    BY <2>5 DEF p, s
  <2>7. r = Half
    BY <1>1, <1>2, <2>1, <2>3, <2>6
  <2>8. QED
    BY <2>5, <2>7
<1>5. QED
  BY <1>1, <1>3, <1>4 DEF q, r

AgeOK == age \in {Settling, Listening} \cup 1 .. StopSample

(* What the listener does in a cycle.                                      *)
LEMMA ListenerStep ==
    ASSUME AgeOK, Listener
    PROVE  /\ HearsStop <=> age = StopSample
           /\ HearsBit <=> \E k \in 1 .. ndbits + 1 : age = k * Nominal + Half
           /\ age = Settling => age' = IF tx = 1 THEN Listening ELSE Settling
           /\ age = Listening => age' = IF tx = 0 THEN 1 ELSE Listening
           /\ age = StopSample => age' = IF tx = 1 THEN Listening ELSE Settling
           /\ age > 0 /\ age # StopSample => age' = age + 1
<1>1. StopSample \in Nat /\ StopSample > 0 /\ Nominal \in Nat /\ Half \in Nat
  BY HalfTimes
<1>2. HearsStop <=> age = StopSample
  <2>1. CASE age \in Nat
    <3>1. AtMiddle <=> age % Nominal = Nominal \div 2
      BY <2>1 DEF AtMiddle
    <3>2. HearsStop <=> age % Nominal = Nominal \div 2 /\ age \div Nominal = ndbits + 2
      BY <3>1, Zenon DEF HearsStop
    <3>3. age % Nominal = Nominal \div 2 /\ age \div Nominal = ndbits + 2
            <=> age = (ndbits + 2) * Nominal + Half
      BY <2>1, Midpoints
    <3>4. QED
      BY <3>2, <3>3, HalfTimes, Zenon
  <2>2. CASE age \notin Nat
    <3>1. age < 0
      BY <2>2 DEF AgeOK, Settling, Listening
    <3>2. QED
      BY <1>1, <3>1 DEF HearsStop, AtMiddle, AgeOK, Settling, Listening
  <2>3. QED
    BY <2>1, <2>2
<1>3. HearsBit <=> \E k \in 1 .. ndbits + 1 : age = k * Nominal + Half
  <2>1. CASE age \in Nat
    <3>1. AtMiddle <=> age % Nominal = Nominal \div 2
      BY <2>1 DEF AtMiddle
    <3>2. HearsBit <=> \E k \in 1 .. ndbits + 1 : age % Nominal = Nominal \div 2 /\ age \div Nominal = k
      BY <3>1, Zenon DEF HearsBit
    <3>3. \A k \in 1 .. ndbits + 1 :
            age % Nominal = Nominal \div 2 /\ age \div Nominal = k <=> age = k * Nominal + Half
      BY <2>1, Midpoints
    <3>4. QED
      BY <3>2, <3>3, Zenon
  <2>2. CASE age \notin Nat
    <3>1. age < 0
      BY <2>2 DEF AgeOK, Settling, Listening
    <3>2. ~HearsBit
      BY <1>1, <3>1 DEF HearsBit, AtMiddle, AgeOK, Settling, Listening
    <3>3. \A k \in 1 .. ndbits + 1 : k * Nominal + Half \in Nat
      BY <1>1
    <3>4. QED
      BY <2>2, <3>2, <3>3
  <2>3. QED
    BY <2>1, <2>2
<1>4. age = Settling => age # Listening /\ age # StopSample /\ ~(age > 0)
  BY <1>1 DEF Settling, Listening
<1>5. age = Listening => age # Settling /\ age # StopSample /\ ~(age > 0)
  BY <1>1 DEF Settling, Listening
<1>6. age > 0 => age # Settling /\ age # Listening
  BY DEF Settling, Listening
<1>7. age = StopSample => age # Settling /\ age # Listening
  BY <1>1 DEF Settling, Listening
<1>8. age' = CASE age = Settling -> IF tx = 1 THEN Listening ELSE Settling
               [] age = Listening -> IF tx = 0 THEN 1 ELSE Listening
               [] age = StopSample -> IF tx = 1 THEN Listening ELSE Settling
               [] OTHER -> age + 1
  BY <1>2 DEF Listener
<1>9. QED
  BY <1>2, <1>3, <1>4, <1>5, <1>6, <1>7, <1>8

\* Half bits the transmitter has behind it, and its time in cycles.
TxHalves ==
    CASE txfsm = "start" -> IF wait_a_bit_tx THEN 1 ELSE 0
      [] txfsm = "edge" -> 2 + 2 * txbitcnt
      [] txfsm = "shift" -> 3 + 2 * txbitcnt
      [] OTHER -> 4 + 2 * ndbits
TxTicks == HalfBit * (TxHalves + Count(toptx)) + txdiv
TxTime == D * TxTicks + Phase

\* At most so many cycles have gone by since the transmitter last started: a word
\* is taken at the end of one frame, and the next frame needs its time.
LastBit == Len(frame) = 1
Gap == IF LastBit /\ rxfsm = "idle" THEN Elapsed - (Done + 1) ELSE Elapsed + D

\* What the transmitter's state says of its flags and its bit count.
TxControl ==
    /\ txfsm = "idle" => ~wait_a_bit_tx /\ ~clrdivtx
    /\ txfsm = "start" => txbitcnt = 0 /\ tx = 0
    /\ txfsm \in {"edge", "shift", "stop"} => wait_a_bit_tx
    /\ txfsm = "stop" => txbitcnt = ndbits
    /\ clrdivtx => txfsm = "start"

\* A tick of the half bit comes a cycle behind the tick of top16 it is made of,
\* unless the receiver restarts the common divider in that cycle.
TxTicking == toptx => txdiv = 0 /\ (Phase = 1 \/ (Phase = D /\ Gap <= D + 2))

(* The flags and the bit count keep to the transmitter's state.            *)
LEMMA TxControlStep ==
    ASSUME TxTypes, TxControl, Transmitter
    PROVE  TxControl'
<1> USE DEF TxIdle, TxStart, TxEdge, TxShift, TxStop
<1>1. txfsm' = "idle" => ~wait_a_bit_tx'
  BY Zenon DEF Transmitter, TxControl
<1>2. (clrdivtx' => txfsm' = "start") /\ (txfsm' = "idle" => ~clrdivtx')
  <2>1. CASE TxIdle
    <3>1. rxrdyi => txfsm' = "start"
      BY <2>1, Zenon
    <3>2. ~rxrdyi => ~clrdivtx'
      BY <2>1, Zenon
    <3>3. clrdivtx' => txfsm' = "start"
      BY <3>1, <3>2, Zenon
    <3>4. txfsm' = "idle" => ~rxrdyi
      BY <3>1
    <3>5. QED
      BY <3>2, <3>3, <3>4, Zenon
  <2>2. CASE ~TxIdle
    <3>1. ~clrdivtx'
      BY <2>2, Zenon DEF Transmitter
    <3>2. QED
      BY <3>1, Zenon
  <2>3. QED
    BY <2>1, <2>2, Zenon
<1>3. txfsm' = "start" => txbitcnt' = 0 /\ tx' = 0
  <2>1. CASE TxIdle
    BY <2>1 DEF tx, TxTypes, Word
  <2>2. CASE ~TxIdle
    BY <2>2 DEF Transmitter, TxControl, tx
  <2>3. QED
    BY <2>1, <2>2
<1>4. txfsm' = "stop" => txbitcnt' = ndbits
  BY DEF Transmitter, TxControl
<1>5. txfsm' \in {"edge", "shift", "stop"} => wait_a_bit_tx'
  <2>1. CASE TxStart
    BY <2>1, Zenon
  <2>2. CASE TxEdge \/ TxShift \/ TxIdle
    <3>1. wait_a_bit_tx' = wait_a_bit_tx /\ (txfsm \in {"edge", "shift"} \/ txfsm' \in {"start", "idle"})
      BY <2>2
    <3>2. QED
      BY <3>1 DEF TxControl
  <2>3. CASE TxStop
    BY <2>3, Zenon DEF TxControl
  <2>4. QED
    BY <2>1, <2>2, <2>3 DEF Transmitter
<1>6. QED
  BY <1>1, <1>2, <1>3, <1>4, <1>5, Zenon DEF TxControl

(* A half bit takes the transmitter on by one, until it is done.           *)
LEMMA TxHalvesStep ==
    ASSUME TxTypes, TxControl, toptx \in BOOLEAN, Transmitter,
           txfsm # "idle", ~(txfsm = "stop" /\ toptx)
    PROVE  txfsm' # "idle" /\ ~clrdivtx' /\ TxHalves \in Int /\ TxHalves' = TxHalves + Count(toptx)
<1> USE DEF TxTypes, TxHalves, Count
<1>1. CASE TxStart
  <2>1. CASE toptx
    <3>1. wait_a_bit_tx'
      BY <1>1, <2>1, Zenon DEF TxStart
    <3>2. QED
      BY <1>1, <2>1, <3>1 DEF TxStart, TxControl
  <2>2. CASE ~toptx
    BY <1>1, <2>2 DEF TxStart
  <2>3. QED
    BY <2>1, <2>2
<1>2. CASE TxEdge
  BY <1>2 DEF TxEdge
<1>3. CASE TxShift
  BY <1>3 DEF TxShift
<1>4. CASE TxStop
  BY <1>4 DEF TxStop
<1>5. QED
  BY <1>1, <1>2, <1>3, <1>4 DEF Transmitter, TxIdle

(* How far the transmitter can be in its time.                             *)
LEMMA TxTimeIs ==
    ASSUME TypeOK, TxTicking, txfsm # "idle"
    PROVE  /\ TxTime \in Int /\ TxHalves \in 0 .. 4 + 2 * ndbits
           /\ Phase \in 0 .. D
           /\ TxHalves * Half + Phase <= TxTime
           /\ ~toptx => TxTime <= (TxHalves + 1) * Half
           /\ toptx => TxTime = (TxHalves + 1) * Half + Phase
<1>1. TxTypes /\ DivTypes
  BY TypeParts
<1>2. TxHalves \in 0 .. 4 + 2 * ndbits
  BY <1>1 DEF TxTypes, TxHalves, States
<1>3. Phase \in 0 .. D /\ D \in Nat
  BY <1>1 DEF Phase, D, DivTypes
<1> DEFINE p == HalfBit * TxHalves
           q == HalfBit * (TxHalves + 1)
           x == TxHalves * Half
           y == (TxHalves + 1) * Half
<1>4. /\ p \in Int /\ q \in Int /\ q = p + HalfBit
      /\ D * p = x /\ D * q = y /\ x \in Int /\ y \in Int
  BY <1>2, HalfTimes, OneMore
<1>5. toptx => TxTicks = q + txdiv
  BY <1>2 DEF TxTicks, Count
<1>6. ~toptx => TxTicks = p + txdiv
  BY <1>2 DEF TxTicks, Count
<1> HIDE DEF p, q
<1>7. CASE toptx
  <2>1. TxTicks = q
    BY <1>4, <1>5, <1>7 DEF TxTicking
  <2>2. TxTime = y + Phase
    BY <1>4, <2>1, Zenon DEF TxTime
  <2>3. D * p <= D * q
    BY <1>3, <1>4, Products
  <2>4. x <= y
    BY <1>4, <2>3, Zenon
  <2> HIDE DEF x, y
  <2>5. TxTime \in Int /\ x + Phase <= TxTime
    BY <1>3, <1>4, <2>2, <2>4
  <2>6. QED
    BY <1>2, <1>3, <1>7, <2>2, <2>5 DEF x, y
<1>8. CASE ~toptx
  <2>1. TxTicks = p + txdiv /\ TxTicks \in Int /\ p <= TxTicks /\ TxTicks + 1 <= q
    BY <1>1, <1>4, <1>6, <1>8 DEF DivTypes
  <2>2. D * p <= D * TxTicks /\ D * (TxTicks + 1) <= D * q
    BY <1>3, <1>4, <2>1, Products
  <2>3. D * (TxTicks + 1) = D * TxTicks + D /\ D * TxTicks \in Int
    BY <1>3, <2>1, OneMore
  <2> DEFINE z == D * TxTicks
  <2>4. x <= z /\ z + D <= y /\ z \in Int /\ TxTime = z + Phase
    BY <1>4, <2>2, <2>3, Zenon DEF TxTime
  <2> HIDE DEF x, y, z
  <2>5. TxTime \in Int /\ x + Phase <= TxTime /\ TxTime <= y
    BY <1>3, <1>4, <2>4
  <2>6. QED
    BY <1>2, <1>3, <1>8, <2>5 DEF x, y
<1>9. QED
  BY <1>7, <1>8

(* With its divider running, a cycle takes the transmitter on by one; the  *)
(* cycle in which the common divider is restarted, by up to a tick.        *)
LEMMA TxTimeStep ==
    ASSUME TypeOK, TxControl, TxTicking, top16 => div16 = 0, NEW b \in Bit, Edge(b),
           txfsm # "idle", ~clrdivtx, ~(txfsm = "stop" /\ toptx)
    PROVE  /\ txfsm' # "idle" /\ ~clrdivtx' /\ TxTime' \in Int
           /\ TxTime + 1 <= TxTime'
           /\ ~clrdivrx => TxTime' = TxTime + 1
           /\ clrdivrx => TxTime' <= TxTime + D
<1>1. TxTypes /\ DivTypes /\ RxTypes
  BY TypeParts
<1>2. txfsm' # "idle" /\ ~clrdivtx' /\ TxHalves \in Int /\ TxHalves' = TxHalves + Count(toptx)
  BY <1>1, TxHalvesStep DEF Edge, DivTypes
<1>3. clrdivtx = FALSE
  BY <1>1 DEF TxTypes
<1>4. txdiv' = Divided(FALSE, txdiv) /\ toptx' = Tops(FALSE, txdiv)
  BY <1>3, Zenon DEF Edge, TxDiv
<1>5. TxTicks' = TxTicks + Count(top16) /\ TxTicks \in Int
  <2>1. TxHalves' \in Int
    BY <1>2 DEF Count
  <2>2. HalfBit * (TxHalves' + Count(toptx')) + txdiv' = HalfBit * TxHalves' + txdiv + Count(top16)
    BY <1>1, <1>4, <2>1, TicksStep, Zenon DEF DivTypes
  <2>3. HalfBit * TxHalves' \in Int /\ txdiv \in Int
    BY <1>1, <2>1, OneMore DEF DivTypes
  <2>4. QED
    BY <1>2, <2>2, <2>3 DEF TxTicks
<1>6. D * (TxTicks + 1) = D * TxTicks + D /\ D * TxTicks \in Int
  BY <1>5, OneMore DEF D
<1>7. /\ Phase \in 0 .. D /\ Phase' \in 0 .. D
      /\ top16 => Phase = D
      /\ clrdivrx => Phase' = D
      /\ ~clrdivrx => Phase' = Phase + 1 - (IF top16 THEN D ELSE 0)
  BY <1>1, PhaseStep DEF DivTypes, Edge, RxTypes
<1>8. D \in Int /\ D >= 1 /\ (~top16 => Phase <= D - 1)
  BY <1>1 DEF D, Phase, DivTypes
<1> DEFINE z == D * TxTicks
           y == D * TxTicks'
<1>9. TxTime = z + Phase /\ TxTime' = y + Phase' /\ z \in Int
  BY <1>6 DEF TxTime, D
<1>10. y = IF top16 THEN z + D ELSE z
  BY <1>5, <1>6 DEF Count
<1> HIDE DEF y, z
<1>11. /\ TxTime' \in Int /\ TxTime + 1 <= TxTime'
       /\ ~clrdivrx => TxTime' = TxTime + 1
       /\ clrdivrx => TxTime' <= TxTime + D
  <2>1. Phase \in Int /\ 0 <= Phase /\ Phase <= D /\ Phase' \in Int
    BY <1>7, <1>8
  <2>2. CASE clrdivrx
    <3>1. Phase' = D
      BY <1>7, <2>2, Zenon
    <3>2. CASE top16
      <4>1. Phase = D /\ y = z + D
        BY <1>7, <1>10, <3>2, Zenon
      <4>2. QED
        BY <1>8, <1>9, <2>1, <2>2, <3>1, <4>1
    <3>3. CASE ~top16
      <4>1. Phase <= D - 1 /\ y = z
        BY <1>8, <1>10, <3>3, Zenon
      <4>2. QED
        BY <1>8, <1>9, <2>1, <2>2, <3>1, <4>1
    <3>4. QED
      BY <3>2, <3>3
  <2>3. CASE ~clrdivrx
    <3>1. Phase' = Phase + 1 - (IF top16 THEN D ELSE 0)
      BY <1>7, <2>3, Zenon
    <3>2. CASE top16
      <4>1. Phase' = Phase + 1 - D /\ y = z + D
        BY <1>10, <3>1, <3>2, Zenon
      <4>2. QED
        BY <1>8, <1>9, <2>1, <2>3, <4>1
    <3>3. CASE ~top16
      <4>1. Phase' = Phase + 1 - 0 /\ y = z
        BY <1>10, <3>1, <3>3, Zenon
      <4>2. QED
        BY <1>8, <1>9, <2>1, <2>3, <4>1
    <3>4. QED
      BY <3>2, <3>3
  <2>4. QED
    BY <2>2, <2>3
<1>12. QED
  BY <1>2, <1>11

-----------------------------------------------------------------------------
(* The echo at the pace of the words. *)

(* Between the end of the receiver's work and the next frame there is      *)
(* still a tick of the stop bit left.                                      *)
LEMMA Margin ==
    ASSUME InTime, Ample, SenderOK, frame # << >>
    PROVE  Done + 1 + D <= (ndbits + 3) * bitLength /\ (ndbits + 3) * bitLength \in Int
<1> DEFINE n == bitLength
           p == (ndbits + 2) * n
           s == Sample(ndbits)
           t == Sample(0)
<1>1. n \in Nat /\ s < p /\ t < (0 + 2) * n
  BY TimesOf
<1>2. p \in Int /\ (ndbits + 3) * n = p + n
  BY <1>1
<1>3. s \in Int /\ t \in Int /\ D \in Nat /\ Half \in Nat
  BY Clockwork, HalfTimes
<1>4. Done = s + Half + 1
  BY DEF Done, Half, D
<1>5. 4 * Half = t + D - 3
  <2>1. D * (HalfBit * (4 + 2 * 0)) = t + D - 3 /\ D * (HalfBit * (4 + 2 * 0)) = (4 + 2 * 0) * Half
    BY Clockwork, HalfTimes
  <2> HIDE DEF t
  <2>2. QED
    BY <2>1, <1>3
<1>6. 2 * D <= Half
  BY DEF Half, D, Ample
<1> HIDE DEF n, p, s, t
<1>7. Done + 1 + D <= p + n
  BY <1>1, <1>2, <1>3, <1>4, <1>5, <1>6
<1>8. QED
  BY <1>1, <1>2, <1>7 DEF n

(* A cycle adds at most a cycle to the gap.                                *)
LEMMA GapStep ==
    ASSUME AvoidsTick, InTime, Ample, RxInv, Step
    PROVE  /\ Gap \in Int /\ Gap' \in Int /\ Gap' <= Gap + 1
           /\ clrdivrx => Gap' = D + 2 /\ rxfsm' = "start" /\ ~clrdivrx'
           /\ rxrdyi' => /\ rxfsm = "stop" /\ toprx
                         /\ Gap = StopSample + 3 /\ Elapsed' = Done /\ LastBit'
           /\ rxfsm' = "idle" /\ ~(rxfsm = "stop" /\ toprx) => rxfsm = "idle"
<1>1. TypeOK /\ SenderOK /\ RxControl /\ RxTicking /\ Follows
  BY DEF RxInv, Types
<1>2. rx \in Bit /\ Edge(rx) /\ (Sends \/ Holds \/ NextBit \/ Waits)
  BY <1>1, RxBit DEF Step
<1>3. Done \in Int /\ D \in Nat \ {0} /\ StopSample \in Nat /\ Done = StopSample - D + 4
  BY HalfTimes
<1>4. D' = D /\ Done' = Done
  BY DEF D, Done, Sample, Nominal
<1>5. rxrdyi' => rxfsm = "stop" /\ toprx
  BY <1>2, Zenon DEF Edge, Receiver, RxIdle, RxStart, RxEdge, RxShift, RxStop
<1>6. CASE rxfsm = "idle"
  <2>1. RxIdle(rx)
    BY <1>2, <1>6 DEF Edge, Receiver, RxStart, RxEdge, RxShift, RxStop
  <2>2. AtRest
    BY <1>1, <1>6, Zenon DEF Follows, AtRest
  <2>3. ~clrdivrx /\ ~rxrdyi'
    BY <1>1, <1>6, <2>1, Zenon DEF RxControl, RxIdle
  <2>4. SUFFICES Gap \in Int /\ Gap' \in Int /\ Gap' <= Gap + 1
    BY <1>6, <2>3
  <2>5. CASE rx = 0
    <3>1. rxfsm' = "start" /\ frame' # << >> /\ Elapsed' = 1
      BY <1>1, <1>2, <2>1, <2>2, <2>5, StartStep DEF Edge
    <3>2. frame # << >> /\ sendersBit = 0 /\ left = bitLength
      BY <1>1, <2>2, <2>5, IdleSees
    <3>3. Elapsed = 0
      <4>1. Elapsed = sendersBit * bitLength + (bitLength - left) /\ bitLength \in Nat
        BY <1>1, <3>2, ElapsedIs, TimesOf
      <4>2. QED
        BY <3>2, <4>1
    <3>4. ~LastBit
      <4> DEFINE l == Len(frame)
      <4>1. sendersBit = ndbits + 3 - l
        BY DEF sendersBit
      <4> HIDE DEF l
      <4>2. l # 1
        BY <3>2, <4>1
      <4>3. QED
        BY <4>2 DEF l, LastBit
    <3>5. Gap = 0 + D /\ Gap' = 1 + D
      BY <1>4, <3>1, <3>3, <3>4 DEF Gap
    <3>6. QED
      BY <1>3, <3>5
  <2>6. CASE rx # 0
    <3>1. rxfsm' = "idle"
      BY <2>1, <2>6 DEF RxIdle
    <3>2. rx = 1
      BY <1>2, <2>6 DEF Bit
    <3>3. frame = << >> \/ (frame # << >> /\ LastBit)
      BY <1>1, <2>2, <3>2, IdleSees, Zenon DEF LastBit
    <3>4. CASE frame = << >> /\ Waits
      <4>1. UNCHANGED <<frame, bitLength, left>>
        BY <3>4 DEF Waits, sender
      <4>2. Elapsed = 0 /\ Elapsed' = 0
        BY <3>4, <4>1 DEF Elapsed
      <4>3. ~LastBit /\ ~LastBit'
        <5>1. Len(frame) = 0 /\ Len(frame') = 0
          BY <3>4, <4>1, EmptySeq
        <5>2. 0 # 1
          OBVIOUS
        <5>3. QED
          BY <5>1, <5>2, Zenon DEF LastBit
      <4>4. Gap = 0 + D /\ Gap' = 0 + D
        BY <1>4, <4>2, <4>3 DEF Gap
      <4>5. QED
        BY <1>3, <4>4
    <3>5. ASSUME Sends, Gap \in Int, Gap >= D - 1 PROVE Gap' \in Int /\ Gap' <= Gap + 1
      <4>1. PICK w \in Words, n \in BitLengths :
                frame' = <<0>> \o w \o <<1>> /\ bitLength' = n /\ left' = n
        BY <3>5 DEF Sends
      <4>2. w \in Word /\ n \in Nat
        OBVIOUS
      <4>3. Len(frame') = ndbits + 3 /\ frame' # << >>
        BY <4>1, <4>2, FrameIs
      <4> DEFINE l == Len(frame')
      <4>4. sendersBit' = ndbits + 3 - l /\ l = ndbits + 3 /\ (LastBit' <=> l = 1)
        BY <4>3, Zenon DEF sendersBit, LastBit
      <4> HIDE DEF l
      <4>5. sendersBit' = 0 /\ ~LastBit'
        BY <4>4
      <4>6. Elapsed' = sendersBit' * n + (n - n)
        BY <4>1, <4>3 DEF Elapsed
      <4>7. Elapsed' = 0
        BY <4>2, <4>5, <4>6
      <4>8. Gap' = 0 + D
        BY <1>4, <4>5, <4>7 DEF Gap
      <4>9. QED
        BY <1>3, <3>5, <4>8
    <3>6. CASE frame = << >> /\ Sends
      <4>1. Elapsed = 0
        BY <3>6 DEF Elapsed
      <4>2. ~LastBit
        <5>1. Len(frame) = 0
          BY <3>6, EmptySeq
        <5>2. 0 # 1
          OBVIOUS
        <5>3. QED
          BY <5>1, <5>2, Zenon DEF LastBit
      <4>3. Gap = 0 + D
        BY <4>1, <4>2 DEF Gap
      <4>4. Gap \in Int /\ Gap >= D - 1
        BY <1>3, <4>3
      <4>5. QED
        BY <3>5, <3>6, <4>4
    <3>7. CASE frame # << >> /\ LastBit
      <4>1. Gap = Elapsed - (Done + 1) /\ Elapsed \in Int
        BY <1>1, <1>6, <3>7, ElapsedIs DEF Gap
      <4>2. CASE left > 1
        <5>1. frame' # << >> /\ Elapsed' = Elapsed + 1 /\ Holds
          <6>1. Len(frame) = 1
            BY <3>7, Zenon DEF LastBit
          <6>2. frame' # << >> /\ Elapsed' = Elapsed + 1 /\ (Holds \/ NextBit)
            BY <1>1, <1>2, <3>7, <4>2, ElapsedStep
          <6>3. ~NextBit
            BY <4>2 DEF NextBit
          <6>4. QED
            BY <6>2, <6>3
        <5>2. LastBit'
          BY <3>7, <5>1, Zenon DEF Holds, LastBit
        <5>3. Gap' = Elapsed' - (Done + 1)
          BY <1>4, <3>1, <5>2 DEF Gap
        <5>4. QED
          BY <1>3, <4>1, <5>1, <5>3
      <4>3. CASE ~(left > 1)
        <5>1. left = 1 /\ bitLength \in Nat
          BY <1>1, <3>7, <4>3, TimesOf DEF SenderOK
        <5>2. Gap >= D - 1
          <6> DEFINE l == Len(frame)
                     p == (ndbits + 2) * bitLength
                     q == (ndbits + 3) * bitLength
          <6>1. l = 1 /\ sendersBit = ndbits + 3 - l
            BY <3>7, Zenon DEF sendersBit, LastBit
          <6>2. sendersBit = ndbits + 2
            <7> HIDE DEF l
            <7>1. QED
              BY <6>1
          <6>3. Elapsed = p + (bitLength - 1) /\ q = p + bitLength /\ p \in Int
            BY <1>1, <3>7, <5>1, <6>2, ElapsedIs
          <6>4. Done + 1 + D <= q
            BY <1>1, <3>7, Margin
          <6> HIDE DEF p, q
          <6>5. QED
            BY <1>3, <4>1, <5>1, <6>3, <6>4
        <5>3. CASE Sends
          BY <1>3, <3>5, <4>1, <5>2, <5>3
        <5>4. CASE NextBit
          <6>1. frame' = Tail(frame) /\ Len(frame) = 1
            BY <3>7, <5>4, Zenon DEF NextBit, LastBit
          <6>2. Tail(frame) \in Seq(Bit) /\ Len(Tail(frame)) = Len(frame) - 1
            BY <1>1, <3>7, HeadTailProperties DEF SenderOK
          <6>3. 1 - 1 = 0 /\ 0 # 1
            OBVIOUS
          <6>4. Len(frame') = 0
            BY <6>1, <6>2, <6>3, Zenon
          <6>5. ~LastBit'
            BY <6>3, <6>4, Zenon DEF LastBit
          <6>6. frame' = << >>
            BY <6>1, <6>2, <6>4, EmptySeq
          <6>7. Elapsed' = 0
            BY <6>6 DEF Elapsed
          <6>8. Gap' = 0 + D
            BY <1>4, <6>5, <6>7 DEF Gap
          <6>9. QED
            BY <1>3, <4>1, <5>2, <6>8
        <5>5. ~Holds /\ ~Waits
          BY <3>7, <4>3, Zenon DEF Holds, Waits
        <5>6. QED
          BY <1>2, <1>3, <4>1, <5>3, <5>4, <5>5
      <4>4. QED
        BY <4>2, <4>3
    <3>8. frame = << >> => Waits \/ Sends
      BY <1>2, Zenon DEF Holds, NextBit
    <3>9. QED
      BY <3>3, <3>4, <3>6, <3>7, <3>8
  <2>7. QED
    BY <2>5, <2>6
<1>7. CASE rxfsm = "stop" /\ toprx
  <2>1. /\ rxfsm' = "idle" /\ Elapsed' = Done /\ Len(frame') = 1 /\ Elapsed = Done - 1
    BY <1>1, <1>2, <1>7, DoneStep
  <2>2. LastBit'
    BY <2>1, Zenon DEF LastBit
  <2>3. Gap = (Done - 1) + D /\ Gap' = Done - (Done + 1)
    BY <1>4, <1>7, <2>1, <2>2 DEF Gap
  <2>4. ~clrdivrx
    BY <1>1, <1>7 DEF RxControl
  <2>5. Gap = StopSample + 3 /\ Gap' = -1
    BY <1>3, <2>3
  <2>6. QED
    BY <1>3, <1>7, <2>1, <2>2, <2>4, <2>5
<1>8. CASE rxfsm # "idle" /\ ~(rxfsm = "stop" /\ toprx)
  <2>1. rxfsm' # "idle"
    BY <1>1, <1>2, <1>8, TypeParts, HalvesStep DEF Edge, DivTypes
  <2>2. frame # << >> /\ Elapsed \in Int /\ Elapsed <= Done - 1
    BY <1>1, <1>8, BusyIsInTime
  <2>3. Elapsed' = Elapsed + 1
    BY <1>1, <1>2, <2>2, FrameGoesOn, ElapsedStep
  <2>4. Gap = Elapsed + D /\ Gap' = Elapsed' + D
    BY <1>4, <1>8, <2>1 DEF Gap
  <2>5. ~rxrdyi'
    BY <1>5, <1>8
  <2>6. clrdivrx => Gap' = D + 2 /\ rxfsm' = "start" /\ ~clrdivrx'
    <3>1. SUFFICES ASSUME clrdivrx PROVE Gap' = D + 2 /\ rxfsm' = "start" /\ ~clrdivrx'
      OBVIOUS
    <3>2. rxfsm' = "start" /\ Elapsed' = 2 /\ ~clrdivrx'
      BY <1>1, <1>2, <1>8, <3>1, ClearStep
    <3>3. QED
      BY <1>3, <2>4, <3>2
  <2>7. QED
    BY <1>3, <1>8, <2>1, <2>2, <2>3, <2>4, <2>5, <2>6
<1>9. QED
  BY <1>6, <1>7, <1>8

(* A tick of the transmitter's half bit comes of a tick of top16.          *)
LEMMA TxTickingStep ==
    ASSUME AvoidsTick, InTime, Ample, RxInv, TxTicking, Step
    PROVE  TxTicking'
<1> SUFFICES ASSUME toptx' PROVE txdiv' = 0 /\ (Phase' = 1 \/ (Phase' = D /\ Gap' <= D + 2))
  BY DEF TxTicking, D
<1>1. TypeOK /\ SenderOK /\ RxTicking
  BY DEF RxInv, Types
<1>2. RxTypes /\ DivTypes
  BY <1>1, TypeParts
<1>3. rx \in Bit /\ Edge(rx)
  BY <1>1, RxBit DEF Step
<1>4. ~clrdivtx /\ top16 /\ txdiv = HalfBit - 1
  BY <1>3, Zenon DEF Edge, TxDiv, Tops
<1>5. txdiv' = 0
  BY <1>3, <1>4 DEF Edge, TxDiv, Divided
<1>6. /\ top16 => Phase = D
      /\ clrdivrx => Phase' = D
      /\ ~clrdivrx => Phase' = Phase + 1 - (IF top16 THEN D ELSE 0)
  BY <1>1, <1>2, <1>3, PhaseStep DEF DivTypes, Edge, RxTypes, RxTicking
<1>7. CASE clrdivrx
  <2>1. Gap' = D + 2 /\ Gap' \in Int
    BY <1>7, GapStep
  <2>2. Gap' <= D + 2
    BY <2>1
  <2>3. QED
    BY <1>5, <1>6, <1>7, <2>2
<1>8. CASE ~clrdivrx
  <2>1. Phase' = D + 1 - D
    BY <1>4, <1>6, <1>8, Zenon
  <2>2. QED
    BY <1>5, <2>1 DEF D
<1>9. QED
  BY <1>7, <1>8

Sounds == txfsm # "idle" /\ ~clrdivtx

\* How far the transmitter may be ahead of the listener: the first tick is short,
\* and so is the one in which the receiver restarts the common divider, which
\* happens once in a word.
Slack == IF rxfsm # "idle" /\ ~clrdivrx THEN 2 * D - 2 ELSE D - 1

\* A word is taken and sent, the listener hears it, and all are done with it
\* before the next: in cycles, the gap is behind the listener, the listener
\* behind the transmitter, and the transmitter done before the gap is over.
Opening ==
    clrdivtx => /\ age = Listening /\ ~wait_a_bit_tx /\ ~toptx
                /\ Gap = 0 /\ LastBit /\ rxfsm = "idle"
InPace ==
    Sounds => /\ Gap <= TxTime
              /\ age > 0 => age <= TxTime /\ TxTime <= age + Slack
              /\ age < 0 => txfsm = "stop" /\ StopSample <= TxTime
Counted ==
    age > 0 => Gap <= age /\ (txfsm = "idle" => StopSample + 4 - 2 * D <= age)
Quiet ==
    txfsm = "idle" => /\ tx = 0 => Gap <= StopSample + 2
                      /\ age = Settling /\ tx = 1 => Gap <= StopSample + 3
Armed == age = Listening /\ ~clrdivtx => tx = 1
Ready ==
    rxrdyi => /\ txfsm = "idle" /\ age = Listening
              /\ rxfsm = "idle" /\ Elapsed = Done /\ LastBit /\ Phase = 2

Paced == AgeOK /\ Opening /\ InPace /\ Counted /\ Quiet /\ Armed /\ Ready

EchoInv == RxInv /\ TxControl /\ TxTicking /\ Paced

(* What a step of the echo is, and what is known of the numbers before it. *)
LEMMA EchoFacts ==
    ASSUME AvoidsTick, InTime, Ample, EchoInv, Step
    PROVE  /\ TypeOK /\ SenderOK /\ rx \in Bit /\ Edge(rx) /\ Transmitter /\ Listener
           /\ tx \in Bit /\ (top16 => div16 = 0)
           /\ StopSample \in Nat /\ Half \in Nat /\ 5 * Half <= StopSample
           /\ D \in Nat /\ D > 2 /\ 2 * D <= Half
           /\ Gap \in Int /\ Gap' \in Int /\ Gap' <= Gap + 1
           /\ age \in Int /\ age <= StopSample
           /\ D' = D /\ StopSample' = StopSample
<1>1. TypeOK /\ SenderOK /\ (top16 => div16 = 0)
  BY DEF EchoInv, RxInv, Types, RxTicking
<1>2. rx \in Bit /\ Edge(rx) /\ Transmitter /\ Listener
  BY <1>1, RxBit DEF Step, Edge
<1>3. tx \in Bit
  BY <1>1, TypeParts DEF TxTypes, Word, tx
<1>4. StopSample \in Nat /\ Half \in Nat /\ 5 * Half <= StopSample
  BY HalfTimes
<1>5. D \in Nat /\ D > 2 /\ 2 * D <= Half
  BY DEF D, Half, Ample
<1>6. Gap \in Int /\ Gap' \in Int /\ Gap' <= Gap + 1
  BY GapStep DEF EchoInv
<1>7. age \in Int /\ age <= StopSample
  BY <1>4 DEF EchoInv, Paced, AgeOK, Settling, Listening
<1>8. D' = D /\ StopSample' = StopSample
  BY DEF D, StopSample, Half
<1>9. QED
  BY <1>1, <1>2, <1>3, <1>4, <1>5, <1>6, <1>7, <1>8

(* How the listener's count goes on, whatever the transmitter does.        *)
LEMMA AgeStep ==
    ASSUME AvoidsTick, InTime, Ample, EchoInv, Step
    PROVE  /\ AgeOK'
           /\ age > 0 /\ age # StopSample => age' = age + 1 /\ age' > 0
           /\ age = StopSample => age' \in {Settling, Listening}
           /\ age' = Settling => tx = 0 /\ (age = Settling \/ age = StopSample)
           /\ age \in {Settling, StopSample} /\ age' = Listening => tx = 1
           /\ age = Listening => age' = IF tx = 0 THEN 1 ELSE Listening
           /\ age = Settling => age' = IF tx = 1 THEN Listening ELSE Settling
           /\ Listening < 0 /\ Settling < 0 /\ Listening # Settling
<1>1. AgeOK /\ Listener /\ tx \in Bit /\ StopSample \in Nat /\ StopSample > 0 /\ StopSample' = StopSample
  BY EchoFacts, HalfTimes DEF EchoInv, Paced
<1>2. /\ age = Settling => age' = IF tx = 1 THEN Listening ELSE Settling
      /\ age = Listening => age' = IF tx = 0 THEN 1 ELSE Listening
      /\ age = StopSample => age' = IF tx = 1 THEN Listening ELSE Settling
      /\ age > 0 /\ age # StopSample => age' = age + 1
  BY <1>1, ListenerStep
<1>3. Listening < 0 /\ Settling < 0 /\ Listening # Settling
  BY DEF Settling, Listening
<1>4. AgeOK'
  BY <1>1, <1>2, <1>3 DEF AgeOK, Settling, Listening
<1>5. age > 0 /\ age # StopSample => age' = age + 1 /\ age' > 0
  BY <1>1, <1>2 DEF AgeOK, Settling, Listening
<1>6. age = StopSample => age' \in {Settling, Listening}
  BY <1>2
<1>7. age' = Settling => tx = 0 /\ (age = Settling \/ age = StopSample)
  BY <1>1, <1>2, <1>3, <1>5 DEF AgeOK, Bit, Settling, Listening
<1>8. age \in {Settling, StopSample} /\ age' = Listening => tx = 1
  BY <1>2, <1>3
<1>9. QED
  BY <1>2, <1>3, <1>4, <1>5, <1>6, <1>7, <1>8

(* While the transmitter sounds the next word is not there yet.            *)
LEMMA SoundsInTime ==
    ASSUME AvoidsTick, InTime, Ample, EchoInv, Step, Sounds
    PROVE  /\ Gap <= StopSample + 1 /\ ~rxrdyi'
           /\ ~clrdivrx => Slack <= Slack' /\ Slack \in Int /\ Slack' \in Int
           /\ clrdivrx => Slack = D - 1 /\ Slack' = 2 * D - 2
<1>1. /\ TypeOK /\ StopSample \in Nat /\ Half \in Nat /\ 5 * Half <= StopSample
      /\ D \in Nat /\ D > 2 /\ 2 * D <= Half /\ Gap \in Int /\ D' = D
  BY EchoFacts
<1>2. TxTicking /\ txfsm # "idle" /\ Gap <= TxTime
  BY Zenon DEF EchoInv, Paced, InPace, Sounds
<1>3. /\ TxTime \in Int /\ TxHalves \in 0 .. 4 + 2 * ndbits
      /\ ~toptx => TxTime <= (TxHalves + 1) * Half
      /\ toptx => TxTime = (TxHalves + 1) * Half + Phase
  BY <1>1, <1>2, TxTimeIs
<1> DEFINE y == (TxHalves + 1) * Half
<1>4. y <= StopSample /\ y \in Int
  <2>1. TxHalves + 1 <= 5 + 2 * ndbits /\ TxHalves + 1 \in Nat
    BY <1>3
  <2>2. Half * (TxHalves + 1) <= Half * (5 + 2 * ndbits)
    BY <1>1, <2>1, Products
  <2>3. Half * (TxHalves + 1) = y /\ Half * (5 + 2 * ndbits) = StopSample /\ y \in Int
    BY <1>1, <2>1 DEF StopSample
  <2>4. QED
    BY <2>2, <2>3, Zenon
<1> HIDE DEF y
<1>5. Gap <= StopSample + 1
  <2>1. CASE ~toptx
    <3>1. TxTime <= y
      BY <1>3, <2>1 DEF y
    <3>2. QED
      BY <1>1, <1>2, <1>3, <1>4, <3>1
  <2>2. CASE toptx /\ Phase = 1
    <3>1. TxTime = y + 1
      BY <1>3, <2>2 DEF y
    <3>2. QED
      BY <1>1, <1>2, <1>3, <1>4, <3>1
  <2>3. CASE Gap <= D + 2
    BY <1>1, <2>3
  <2>4. QED
    BY <1>2, <2>1, <2>2, <2>3, Zenon DEF TxTicking
<1>6. ~(rxfsm = "stop" /\ toprx) \/ rxfsm' # "idle"
  <2>1. ASSUME rxfsm = "stop", toprx PROVE FALSE
    <3>1. RxInv /\ SenderOK /\ TypeOK /\ RxControl /\ RxTicking /\ Follows
      BY DEF EchoInv, RxInv, Types
    <3>2. Elapsed = Done - 1
      <4>1. rx \in Bit /\ Edge(rx) /\ (Sends \/ Holds \/ NextBit \/ Waits)
        BY EchoFacts DEF Step
      <4>2. QED
        BY <2>1, <3>1, <4>1, DoneStep
    <3>3. Gap = (Done - 1) + D
      BY <2>1, <3>2 DEF Gap
    <3>4. Done = StopSample - D + 4
      BY HalfTimes
    <3>5. QED
      BY <1>1, <1>5, <3>3, <3>4
  <2>2. QED
    BY <2>1
<1>7. /\ clrdivrx => rxfsm' = "start" /\ ~clrdivrx'
      /\ rxrdyi' => rxfsm = "stop" /\ toprx /\ Gap = StopSample + 3
      /\ rxfsm' = "idle" /\ ~(rxfsm = "stop" /\ toprx) => rxfsm = "idle"
  BY GapStep DEF EchoInv
<1>8. ~rxrdyi'
  BY <1>1, <1>5, <1>7
<1>9. CASE clrdivrx
  <2>1. rxfsm' = "start" /\ ~clrdivrx'
    BY <1>7, <1>9, Zenon
  <2>2. Slack = D - 1
    BY <1>9 DEF Slack
  <2>3. Slack' = 2 * D - 2
    BY <1>1, <2>1 DEF Slack
  <2>4. QED
    BY <1>5, <1>8, <1>9, <2>2, <2>3
<1>10. CASE ~clrdivrx
  <2>1. Slack \in {D - 1, 2 * D - 2} /\ Slack' \in {D - 1, 2 * D - 2}
    BY <1>1 DEF Slack
  <2>2. rxfsm = "idle" => Slack = D - 1
    BY DEF Slack
  <2>3. rxfsm # "idle" => Slack' = 2 * D - 2
    <3>1. SUFFICES ASSUME rxfsm # "idle" PROVE Slack' = 2 * D - 2
      OBVIOUS
    <3>2. rxfsm' # "idle"
      BY <1>6, <1>7, <3>1
    <3>3. ~clrdivrx'
      <4>1. rxfsm # "idle" /\ (RxStart \/ RxEdge \/ RxShift(rx) \/ RxStop)
        BY <3>1, EchoFacts DEF Edge, Receiver, RxIdle
      <4>2. QED
        BY <4>1, Zenon DEF RxStart, RxEdge, RxShift, RxStop
    <3>4. QED
      BY <1>1, <3>2, <3>3 DEF Slack
  <2>4. Slack <= Slack'
    BY <1>1, <2>1, <2>2, <2>3
  <2>5. QED
    BY <1>1, <1>5, <1>8, <1>10, <2>1, <2>4
<1>11. QED
  BY <1>9, <1>10

(* tx moves only where the transmitter moves it.                           *)
LEMMA TxHolds ==
    ASSUME Transmitter, txfsm = "stop"
    PROVE  tx' = tx /\ ~clrdivtx' /\ (txfsm' = IF toptx THEN "idle" ELSE "stop")
BY DEF Transmitter, TxIdle, TxStart, TxEdge, TxShift, TxStop, tx

(* A sounding transmitter that goes on.                                    *)
LEMMA GoesOn ==
    ASSUME AvoidsTick, InTime, Ample, EchoInv, Step, Sounds, ~(txfsm = "stop" /\ toptx)
    PROVE  Paced'
<1>1. /\ TypeOK /\ rx \in Bit /\ Edge(rx) /\ Transmitter
      /\ tx \in Bit /\ (top16 => div16 = 0)
      /\ StopSample \in Nat /\ Half \in Nat /\ 5 * Half <= StopSample
      /\ D \in Nat /\ D > 2 /\ 2 * D <= Half
      /\ Gap \in Int /\ Gap' \in Int /\ Gap' <= Gap + 1
      /\ age \in Int /\ D' = D /\ StopSample' = StopSample
  BY EchoFacts
<1>2. TxControl /\ TxTicking /\ AgeOK /\ InPace /\ Counted /\ Armed /\ txfsm # "idle" /\ ~clrdivtx
  BY DEF EchoInv, Paced, Sounds
<1>3. /\ txfsm' # "idle" /\ ~clrdivtx' /\ TxTime' \in Int
      /\ TxTime + 1 <= TxTime'
      /\ ~clrdivrx => TxTime' = TxTime + 1
      /\ clrdivrx => TxTime' <= TxTime + D
  BY <1>1, <1>2, TxTimeStep
<1>4. /\ TxTime \in Int /\ TxHalves \in 0 .. 4 + 2 * ndbits /\ Phase \in 0 .. D
      /\ ~toptx => TxTime <= (TxHalves + 1) * Half
      /\ toptx => TxTime = (TxHalves + 1) * Half + Phase
  BY <1>1, <1>2, TxTimeIs
<1>5. /\ Gap <= TxTime
      /\ age > 0 => age <= TxTime /\ TxTime <= age + Slack
      /\ age < 0 => txfsm = "stop" /\ StopSample <= TxTime
  BY <1>2, Zenon DEF InPace, Sounds
<1>6. /\ ~rxrdyi'
      /\ ~clrdivrx => Slack <= Slack' /\ Slack \in Int /\ Slack' \in Int
      /\ clrdivrx => Slack = D - 1 /\ Slack' = 2 * D - 2
  BY SoundsInTime
<1>7. /\ AgeOK'
      /\ age > 0 /\ age # StopSample => age' = age + 1 /\ age' > 0
      /\ age = StopSample => age' \in {Settling, Listening}
      /\ age \in {Settling, StopSample} /\ age' = Listening => tx = 1
      /\ age = Listening => age' = IF tx = 0 THEN 1 ELSE Listening
      /\ age = Settling => age' = IF tx = 1 THEN Listening ELSE Settling
      /\ Listening < 0 /\ Settling < 0 /\ Listening # Settling
  BY AgeStep
<1>8. age = StopSample => txfsm = "stop"
  <2>1. SUFFICES ASSUME age = StopSample, txfsm # "stop" PROVE FALSE
    OBVIOUS
  <2>2. TxHalves \in 0 .. 3 + 2 * ndbits
    BY <1>1, <1>2, <2>1, TypeParts DEF TxHalves, TxTypes, States
  <2> DEFINE y == (TxHalves + 1) * Half
  <2>3. y + Half <= StopSample /\ y \in Int
    <3>1. TxHalves + 2 <= 5 + 2 * ndbits /\ TxHalves + 2 \in Nat
      BY <2>2
    <3>2. Half * (TxHalves + 2) <= Half * (5 + 2 * ndbits)
      BY <1>1, <3>1, Products
    <3>3. Half * (TxHalves + 2) = y + Half /\ Half * (5 + 2 * ndbits) = StopSample /\ y \in Int
      BY <1>1, <2>2 DEF StopSample
    <3>4. QED
      BY <3>2, <3>3, Zenon
  <2>4. (~toptx => TxTime <= y) /\ (toptx => TxTime = y + Phase)
    BY <1>4
  <2> HIDE DEF y
  <2>5. TxTime <= y + D
    BY <1>1, <1>4, <2>3, <2>4
  <2>6. StopSample <= TxTime
    <3>1. StopSample > 0
      BY HalfTimes
    <3>2. QED
      BY <1>5, <2>1, <3>1
  <2>7. QED
    BY <1>1, <1>4, <2>3, <2>5, <2>6
<1>9. age > 0 /\ age # StopSample => age' <= TxTime' /\ TxTime' <= age' + Slack'
  <2>1. SUFFICES ASSUME age > 0, age # StopSample PROVE age' <= TxTime' /\ TxTime' <= age' + Slack'
    OBVIOUS
  <2>2. age' = age + 1 /\ age <= TxTime /\ TxTime <= age + Slack
    BY <1>5, <1>7, <2>1, Zenon
  <2>3. age' <= TxTime'
    BY <1>1, <1>3, <1>4, <2>2
  <2>4. CASE clrdivrx
    <3>1. TxTime' <= TxTime + D /\ Slack = D - 1 /\ Slack' = 2 * D - 2
      BY <1>3, <1>6, <2>4, Zenon
    <3>2. TxTime <= age + (D - 1)
      BY <2>2, <3>1, Zenon
    <3>3. TxTime' <= age' + (2 * D - 2)
      BY <1>1, <1>3, <1>4, <2>2, <3>1, <3>2
    <3>4. QED
      BY <2>3, <3>1, <3>3, Zenon
  <2>5. CASE ~clrdivrx
    <3>1. TxTime' = TxTime + 1 /\ Slack <= Slack' /\ Slack \in Int /\ Slack' \in Int
      BY <1>3, <1>6, <2>5, Zenon
    <3>2. \A t, a, c, d \in Int : t <= a + c /\ c <= d => t + 1 <= a + 1 + d
      OBVIOUS
    <3>3. age \in Int /\ TxTime \in Int
      BY <1>1, <1>4
    <3>4. TxTime + 1 <= age + 1 + Slack'
      BY <2>2, <3>1, <3>2, <3>3, Zenon
    <3>5. TxTime' <= age' + Slack'
      BY <2>2, <3>1, <3>4, Zenon
    <3>6. QED
      BY <2>3, <3>5, Zenon
  <2>6. QED
    BY <2>4, <2>5
<1>10. age < 0 => age' < 0
  BY <1>1, <1>2, <1>7 DEF AgeOK, Armed
<1>11. age < 0 \/ age = StopSample => /\ txfsm' = "stop" /\ tx' = tx /\ StopSample <= TxTime'
                                      /\ age' < 0
  <2>1. SUFFICES ASSUME age < 0 \/ age = StopSample
                 PROVE  txfsm' = "stop" /\ tx' = tx /\ StopSample <= TxTime' /\ age' < 0
    OBVIOUS
  <2>2. txfsm = "stop"
    BY <1>5, <1>8, <2>1
  <2>3. txfsm' = "stop" /\ tx' = tx
    BY <1>1, <2>2, TxHolds
  <2>4. StopSample <= TxTime
    <3>1. StopSample > 0
      BY HalfTimes
    <3>2. QED
      BY <1>5, <2>1, <3>1
  <2>5. StopSample <= TxTime'
    BY <1>1, <1>3, <1>4, <2>4
  <2>6. age' < 0
    BY <1>7, <1>10, <2>1
  <2>7. QED
    BY <2>3, <2>5, <2>6
<1>12. Gap' <= TxTime'
  BY <1>1, <1>3, <1>4, <1>5
<1>13. age = 0 \/ age < 0 \/ age = StopSample \/ (age > 0 /\ age # StopSample)
  BY <1>1
<1>14. age # 0
  BY <1>2 DEF AgeOK, Settling, Listening
<1>15. InPace'
  <2>1. age' > 0 => age' <= TxTime' /\ TxTime' <= age' + Slack'
    <3>1. age' < 0 => ~(age' > 0)
      BY <1>7 DEF AgeOK, Settling, Listening
    <3>2. QED
      BY <1>9, <1>11, <1>13, <1>14, <3>1, Zenon
  <2>2. age' < 0 => txfsm' = "stop" /\ StopSample <= TxTime'
    <3>1. age' > 0 => ~(age' < 0)
      BY <1>7 DEF AgeOK, Settling, Listening
    <3>2. QED
      BY <1>7, <1>11, <1>13, <1>14, <3>1, Zenon
  <2>3. QED
    BY <1>1, <1>12, <2>1, <2>2, Zenon DEF InPace
<1>16. Counted'
  <2>1. age' > 0 => Gap' <= age'
    <3>1. SUFFICES ASSUME age' > 0 PROVE Gap' <= age'
      OBVIOUS
    <3>2. age > 0 /\ age # StopSample
      <4>1. ~(age' < 0)
        BY <1>7, <3>1 DEF AgeOK, Settling, Listening
      <4>2. QED
        BY <1>11, <1>13, <1>14, <4>1, Zenon
    <3>3. Gap <= age /\ age' = age + 1
      BY <1>2, <1>7, <3>2 DEF Counted
    <3>4. QED
      BY <1>1, <3>3
  <2>2. QED
    BY <1>3, <2>1, Zenon DEF Counted
<1>17. Armed'
  <2>1. SUFFICES ASSUME age' = Listening PROVE tx' = 1
    BY DEF Armed, Listening
  <2>2. age < 0 \/ age = StopSample
    <3>1. ~(age' > 0)
      BY <2>1 DEF Listening
    <3>2. QED
      BY <1>7, <1>13, <1>14, <3>1, Zenon
  <2>3. tx' = tx
    BY <1>11, <2>2
  <2>4. age = Listening => tx = 1
    BY <1>2, Zenon DEF Armed
  <2>5. age \in {Settling, StopSample, Listening}
    BY <1>2, <2>2 DEF AgeOK, Settling, Listening
  <2>6. QED
    BY <1>7, <2>1, <2>3, <2>4, <2>5
<1>18. QED
  BY <1>3, <1>6, <1>7, <1>15, <1>16, <1>17, Zenon DEF Paced, Opening, Quiet, Ready

(* The end of a word in the transmitter.                                   *)
LEMMA Ends ==
    ASSUME AvoidsTick, InTime, Ample, EchoInv, Step, Sounds, txfsm = "stop", toptx
    PROVE  Paced'
<1>1. /\ TypeOK /\ Transmitter /\ tx \in Bit
      /\ StopSample \in Nat /\ Half \in Nat /\ 5 * Half <= StopSample
      /\ D \in Nat /\ D > 2 /\ 2 * D <= Half
      /\ Gap \in Int /\ Gap' \in Int /\ Gap' <= Gap + 1
      /\ age \in Int /\ D' = D /\ StopSample' = StopSample
  BY EchoFacts
<1>2. TxTicking /\ AgeOK /\ InPace /\ Counted /\ Armed
  BY DEF EchoInv, Paced
<1>3. txfsm' = "idle" /\ tx' = tx /\ ~clrdivtx'
  BY <1>1, TxHolds
<1>4. StopSample + 1 <= TxTime /\ TxTime \in Int
  <2>1. TxTime = (TxHalves + 1) * Half + Phase
    BY <1>1, <1>2, TxTimeIs
  <2>2. TxHalves + 1 = 5 + 2 * ndbits
    BY DEF TxHalves
  <2>3. TxTime = StopSample + Phase
    BY <2>1, <2>2, Zenon DEF StopSample
  <2>4. Phase = 1 \/ Phase = D
    BY <1>2 DEF TxTicking
  <2>5. QED
    BY <1>1, <2>3, <2>4
<1>5. /\ Gap <= StopSample + 1 /\ ~rxrdyi'
      /\ ~clrdivrx => Slack <= Slack' /\ Slack \in Int /\ Slack' \in Int
      /\ clrdivrx => Slack = D - 1 /\ Slack' = 2 * D - 2
  BY SoundsInTime
<1>6. Slack <= 2 * D - 2 /\ Slack \in Int
  BY <1>1 DEF Slack
<1>7. /\ AgeOK'
      /\ age > 0 /\ age # StopSample => age' = age + 1 /\ age' > 0
      /\ age = StopSample => age' \in {Settling, Listening}
      /\ age \in {Settling, StopSample} /\ age' = Listening => tx = 1
      /\ age = Listening => age' = IF tx = 0 THEN 1 ELSE Listening
      /\ age = Settling => age' = IF tx = 1 THEN Listening ELSE Settling
  BY AgeStep
<1>8. Listening < 0 /\ Settling < 0 /\ Listening # Settling
  BY DEF Settling, Listening
<1>9. age = Listening => tx = 1
  BY <1>2, Zenon DEF Armed, Sounds
<1>10. Counted'
  <2>1. SUFFICES ASSUME age' > 0 PROVE Gap' <= age' /\ StopSample + 4 - 2 * D <= age'
    BY <1>1, Zenon DEF Counted
  <2>2. age > 0 /\ age # StopSample
    BY <1>2, <1>7, <1>8, <1>9, <2>1 DEF AgeOK, Settling, Listening
  <2>3. age' = age + 1 /\ Gap <= age /\ TxTime <= age + Slack
    BY <1>2, <1>7, <2>2, Zenon DEF Counted, InPace
  <2>4. QED
    BY <1>1, <1>4, <1>6, <2>3
<1>11. Quiet'
  <2>1. Gap' <= StopSample + 2 /\ Gap' <= StopSample + 3
    BY <1>1, <1>5
  <2>2. QED
    BY <1>1, <2>1, Zenon DEF Quiet
<1>12. Armed'
  <2>1. SUFFICES ASSUME age' = Listening PROVE tx = 1
    BY <1>3 DEF Armed, Listening
  <2>2. ~(age > 0 /\ age # StopSample)
    BY <1>7, <2>1 DEF Listening
  <2>3. age \in {Settling, StopSample, Listening}
    BY <1>2, <2>2 DEF AgeOK, Settling, Listening
  <2>4. QED
    BY <1>7, <1>9, <2>1, <2>3
<1>13. QED
  BY <1>3, <1>5, <1>7, <1>10, <1>11, <1>12, Zenon DEF Paced, Opening, InPace, Sounds, Ready

(* A transmitter at rest with no word to take.                             *)
LEMMA Rests ==
    ASSUME AvoidsTick, InTime, Ample, EchoInv, Step, txfsm = "idle", ~rxrdyi
    PROVE  Paced'
<1>1. /\ TypeOK /\ Transmitter /\ tx \in Bit /\ rx \in Bit /\ Edge(rx) /\ (top16 => div16 = 0)
      /\ StopSample \in Nat /\ D \in Nat /\ D > 2
      /\ Gap \in Int /\ Gap' \in Int /\ Gap' <= Gap + 1
      /\ age \in Int /\ age <= StopSample /\ D' = D /\ StopSample' = StopSample
  BY EchoFacts
<1>2. TxControl /\ AgeOK /\ Counted /\ Quiet /\ Armed /\ RxInv
  BY DEF EchoInv, Paced
<1>3. txfsm' = "idle" /\ ~clrdivtx' /\ tx' = 1 /\ ~clrdivtx
  <2>1. TxIdle
    BY <1>1 DEF Transmitter, TxStart, TxEdge, TxShift, TxStop
  <2>2. ~clrdivtx' /\ ~clrdivtx
    BY <1>2, <2>1, Zenon DEF TxIdle, TxControl
  <2>3. tx_reg \in Word
    BY <1>1, TypeParts DEF TxTypes
  <2>4. tx' = 1
    BY <2>1, <2>3 DEF TxIdle, tx, Word
  <2>5. QED
    BY <2>1, <2>2, <2>4 DEF TxIdle
<1>4. /\ AgeOK'
      /\ age > 0 /\ age # StopSample => age' = age + 1 /\ age' > 0
      /\ age = StopSample => age' \in {Settling, Listening}
      /\ age' = Settling => tx = 0 /\ (age = Settling \/ age = StopSample)
      /\ age = Listening => age' = IF tx = 0 THEN 1 ELSE Listening
      /\ age = Settling => age' = IF tx = 1 THEN Listening ELSE Settling
  BY AgeStep
<1>5. Listening < 0 /\ Settling < 0 /\ Listening # Settling
  BY DEF Settling, Listening
<1>6. age = Listening => tx = 1
  BY <1>2, <1>3, Zenon DEF Armed
<1>7. tx = 0 => Gap <= StopSample + 2
  BY <1>2, Zenon DEF Quiet
<1>8. Counted'
  <2>1. SUFFICES ASSUME age' > 0 PROVE Gap' <= age' /\ StopSample + 4 - 2 * D <= age'
    BY <1>1, Zenon DEF Counted
  <2>2. age > 0 /\ age # StopSample
    BY <1>2, <1>4, <1>5, <1>6, <2>1 DEF AgeOK, Settling, Listening
  <2>3. age' = age + 1 /\ Gap <= age /\ StopSample + 4 - 2 * D <= age
    BY <1>2, <1>4, <2>2, Zenon DEF Counted
  <2>4. QED
    BY <1>1, <2>3
<1>9. Quiet'
  <2>1. tx' # 0
    BY <1>3
  <2>2. age' = Settling => Gap' <= StopSample + 3
    BY <1>1, <1>4, <1>7
  <2>3. Settling' = Settling
    BY DEF Settling
  <2>4. QED
    BY <1>1, <2>1, <2>2, <2>3, Zenon DEF Quiet
<1>10. Ready'
  <2>1. SUFFICES ASSUME rxrdyi' PROVE /\ age' = Listening
                                      /\ rxfsm' = "idle" /\ Elapsed' = Done /\ LastBit' /\ Phase' = 2
    <3>1. Listening' = Listening /\ Done' = Done
      BY DEF Listening, Done, Sample, Nominal
    <3>2. QED
      BY <1>3, <3>1, Zenon DEF Ready
  <2>2. rxfsm = "stop" /\ toprx /\ Gap = StopSample + 3 /\ Elapsed' = Done /\ LastBit'
    BY <1>2, <2>1, GapStep
  <2>3. rxfsm' = "idle"
    BY <1>1, <2>1, <2>2 DEF Edge, Receiver, RxIdle, RxStart, RxEdge, RxShift, RxStop
  <2>4. Phase' = 2
    <3>1. RxTypes /\ DivTypes
      BY <1>1, TypeParts
    <3>2. Phase = 1 /\ ~clrdivrx
      BY <1>2, <2>2 DEF RxInv, RxTicking, RxControl
    <3>3. /\ top16 => Phase = D
          /\ ~clrdivrx => Phase' = Phase + 1 - (IF top16 THEN D ELSE 0)
      BY <1>1, <3>1, PhaseStep DEF DivTypes, Edge, RxTypes
    <3>4. ~top16
      BY <1>1, <3>2, <3>3
    <3>5. QED
      BY <3>2, <3>3, <3>4
  <2>5. ~(age > 0)
    <3>1. age > 0 => Gap <= age
      BY <1>2, Zenon DEF Counted
    <3>2. QED
      BY <1>1, <2>2, <3>1
  <2>6. age \in {Settling, Listening}
    BY <1>2, <2>5 DEF AgeOK
  <2>7. tx = 1
    BY <1>1, <1>7, <2>2 DEF Bit
  <2>8. age' = Listening
    BY <1>4, <1>5, <2>6, <2>7
  <2>9. QED
    BY <2>2, <2>3, <2>4, <2>8
<1>11. QED
  BY <1>3, <1>4, <1>8, <1>9, <1>10, Zenon DEF Paced, Opening, InPace, Sounds, Armed

(* The word in rxrdyi is taken.                                            *)
LEMMA Takes ==
    ASSUME AvoidsTick, InTime, Ample, EchoInv, Step, rxrdyi
    PROVE  /\ Paced' /\ clrdivtx' /\ txfsm' = "start" /\ rxfsm' = "idle" /\ LastBit'
           /\ txfsm = "idle" /\ age = Listening /\ rxfsm = "idle" /\ ~clrdivtx /\ LastBit
           /\ age' = Listening /\ ~rxrdyi' /\ Holds
<1>1. /\ TypeOK /\ SenderOK /\ Transmitter /\ tx \in Bit /\ rx \in Bit /\ Edge(rx) /\ (top16 => div16 = 0)
      /\ StopSample \in Nat /\ D \in Nat /\ D > 2 /\ Gap' \in Int
  BY EchoFacts
<1>2. TxControl /\ AgeOK /\ Armed /\ RxInv
  BY DEF EchoInv, Paced
<1>3. txfsm = "idle" /\ age = Listening /\ rxfsm = "idle" /\ Elapsed = Done /\ LastBit /\ Phase = 2
  BY Zenon DEF EchoInv, Paced, Ready
<1>4. ~clrdivtx /\ ~wait_a_bit_tx
  BY <1>2, <1>3, Zenon DEF TxControl
<1>5. TxIdle
  BY <1>1, <1>3 DEF Transmitter, TxStart, TxEdge, TxShift, TxStop
<1>6. clrdivtx' /\ ~wait_a_bit_tx'
  BY <1>4, <1>5, Zenon DEF TxIdle
<1>7. txfsm' = "start"
  BY <1>5 DEF TxIdle
<1>8. ~toptx'
  <2>1. RxTypes /\ DivTypes
    BY <1>1, TypeParts
  <2>2. top16 => Phase = D
    BY <1>1, <2>1, PhaseStep DEF DivTypes, Edge, RxTypes
  <2>3. ~top16
    BY <1>1, <1>3, <2>2
  <2>4. QED
    BY <1>1, <2>3, Zenon DEF Edge, TxDiv, Tops
<1>9. frame # << >>
  <2>1. Len(<< >>) = 0 /\ 0 # 1
    BY EmptySeq
  <2>2. QED
    BY <1>3, <2>1, Zenon DEF LastBit
<1>10. rx = 1
  <2>1. rx = frame[Len(frame)]
    BY <1>1, <1>3, <1>9, RxBit, Zenon DEF LastBit
  <2>2. QED
    BY <1>1, <1>9, <2>1 DEF SenderOK
<1>11. RxIdle(rx)
  BY <1>1, <1>3 DEF Edge, Receiver, RxStart, RxEdge, RxShift, RxStop
<1>12. rxfsm' = "idle"
  BY <1>10, <1>11 DEF RxIdle
<1>13. ~rxrdyi'
  BY <1>11, Zenon DEF RxIdle
<1>14. left > 1
  <2>1. SUFFICES ASSUME ~(left > 1) PROVE FALSE
    OBVIOUS
  <2>2. left = 1 /\ bitLength \in Nat
    BY <1>1, <1>9, <2>1, TimesOf DEF SenderOK
  <2> DEFINE l == Len(frame)
             p == (ndbits + 2) * bitLength
             q == (ndbits + 3) * bitLength
  <2>3. l = 1 /\ sendersBit = ndbits + 3 - l
    BY <1>3, Zenon DEF sendersBit, LastBit
  <2>4. sendersBit = ndbits + 2
    <3> HIDE DEF l
    <3>1. QED
      BY <2>3
  <2>5. Elapsed = p + (bitLength - 1) /\ q = p + bitLength /\ p \in Int
    BY <1>1, <1>9, <2>2, <2>4, ElapsedIs
  <2>6. Done + 1 + D <= q /\ Done \in Int
    BY <1>1, <1>9, Margin, HalfTimes
  <2> HIDE DEF p, q
  <2>7. QED
    BY <1>1, <1>3, <2>2, <2>5, <2>6
<1>15. frame' # << >> /\ Elapsed' = Elapsed + 1 /\ Holds
  <2>1. frame' # << >> /\ Elapsed' = Elapsed + 1 /\ (Holds \/ NextBit)
    BY <1>1, <1>9, <1>14, ElapsedStep DEF Step
  <2>2. ~NextBit
    BY <1>14 DEF NextBit
  <2>3. QED
    BY <2>1, <2>2
<1>16. LastBit'
  BY <1>3, <1>15, Zenon DEF LastBit, Holds
<1>17. Gap' = 0
  <2>1. Done' = Done /\ Done \in Int
    BY HalfTimes DEF Done, Sample, Nominal
  <2>2. Gap' = (Done + 1) - (Done + 1)
    BY <1>3, <1>12, <1>15, <1>16, <2>1 DEF Gap
  <2>3. QED
    BY <2>1, <2>2
<1>18. tx = 1
  BY <1>2, <1>3, <1>4, Zenon DEF Armed
<1>19. AgeOK' /\ age' = Listening
  <2>1. AgeOK' /\ (age = Listening => age' = IF tx = 0 THEN 1 ELSE Listening)
    BY AgeStep
  <2>2. QED
    BY <1>3, <1>18, <2>1
<1>20. Paced'
  <2>1. Listening' = Listening /\ ~(Listening > 0) /\ "start" # "idle"
    BY DEF Listening
  <2>2. Opening'
    BY <1>6, <1>8, <1>12, <1>16, <1>17, <1>19, <2>1, Zenon DEF Opening
  <2>3. Counted'
    BY <1>19, <2>1, Zenon DEF Counted
  <2>4. QED
    BY <1>6, <1>7, <1>13, <1>19, <2>1, <2>2, <2>3, Zenon
       DEF Paced, InPace, Sounds, Quiet, Armed, Ready
<1>21. QED
  BY <1>3, <1>4, <1>6, <1>7, <1>12, <1>13, <1>15, <1>16, <1>19, <1>20

(* The transmitter's first cycle.                                          *)
LEMMA Opens ==
    ASSUME AvoidsTick, InTime, Ample, EchoInv, Step, clrdivtx
    PROVE  Paced' /\ txfsm = "start" /\ txfsm' = "start" /\ age' = 1 /\ ~clrdivtx' /\ ~rxrdyi'
<1>1. /\ TypeOK /\ SenderOK /\ Transmitter /\ tx \in Bit /\ rx \in Bit /\ Edge(rx) /\ (top16 => div16 = 0)
      /\ StopSample \in Nat /\ D \in Nat /\ D > 2
      /\ Gap \in Int /\ Gap' \in Int /\ Gap' <= Gap + 1 /\ D' = D
  BY EchoFacts
<1>2. TxControl /\ AgeOK /\ RxInv
  BY DEF EchoInv, Paced
<1>3. age = Listening /\ ~wait_a_bit_tx /\ ~toptx /\ Gap = 0 /\ LastBit /\ rxfsm = "idle"
  BY Zenon DEF EchoInv, Paced, Opening
<1>4. txfsm = "start" /\ tx = 0
  BY <1>2 DEF TxControl
<1>5. TxStart
  BY <1>1, <1>4 DEF Transmitter, TxIdle, TxEdge, TxShift, TxStop
<1>6. ~wait_a_bit_tx' /\ ~clrdivtx'
  BY <1>3, <1>5, Zenon DEF TxStart
<1>7. txfsm' = "start" /\ tx' = 0
  BY <1>3, <1>4, <1>5 DEF TxStart, tx
<1>8. AgeOK' /\ age' = 1
  <2>1. AgeOK' /\ (age = Listening => age' = IF tx = 0 THEN 1 ELSE Listening)
    BY AgeStep
  <2>2. QED
    BY <1>3, <1>4, <2>1
<1>9. RxIdle(rx)
  BY <1>1, <1>3 DEF Edge, Receiver, RxStart, RxEdge, RxShift, RxStop
<1>10. ~rxrdyi'
  BY <1>9, Zenon DEF RxIdle
<1>11. txdiv' = 0 /\ ~toptx'
  BY <1>1 DEF Edge, TxDiv, Divided, Tops
<1>12. Phase' \in 1 .. D
  <2>1. RxTypes /\ DivTypes
    BY <1>1, TypeParts
  <2>2. ~clrdivrx
    BY <1>2, <1>3 DEF RxInv, RxControl
  <2>3. /\ Phase \in 0 .. D /\ Phase' \in 0 .. D /\ (top16 => Phase = D)
        /\ Phase' = Phase + 1 - (IF top16 THEN D ELSE 0)
    BY <1>1, <2>1, <2>2, PhaseStep DEF DivTypes, Edge, RxTypes
  <2>4. QED
    BY <1>1, <2>3
<1>13. TxTime' = Phase'
  <2>1. TxHalves' = 0 /\ Count(toptx') = 0
    BY <1>6, <1>7, <1>11 DEF TxHalves, Count
  <2>2. TxTicks' = 0
    BY <1>11, <2>1 DEF TxTicks
  <2>3. TxTime' = D * 0 + Phase'
    BY <1>1, <2>2, Zenon DEF TxTime
  <2>4. D * 0 = 0 /\ Phase' \in Int
    BY <1>1, <1>12
  <2> HIDE DEF TxTime, Phase
  <2>5. QED
    BY <2>3, <2>4
<1>14. Slack' \in Int /\ D - 1 <= Slack'
  BY <1>1 DEF Slack
<1>15. /\ Gap' <= TxTime' /\ age' <= TxTime' /\ TxTime' <= age' + Slack'
       /\ Gap' <= age'
  <2>1. 1 <= TxTime' /\ TxTime' <= D /\ TxTime' \in Int
    BY <1>1, <1>12, <1>13
  <2>2. Gap' <= 1
    BY <1>1, <1>3
  <2>3. TxTime' <= 1 + Slack'
    <3>1. \A t, d, x \in Int : t <= d /\ d - 1 <= x => t <= 1 + x
      OBVIOUS
    <3>2. D \in Int
      BY <1>1
    <3>3. QED
      BY <1>14, <2>1, <3>1, <3>2, Zenon
  <2>4. Gap' <= TxTime'
    BY <1>1, <2>1, <2>2
  <2>5. QED
    BY <1>8, <2>1, <2>2, <2>3, <2>4, Zenon
<1>16. Paced'
  <2>1. age' > 0 /\ ~(age' < 0) /\ age' # Listening' /\ "start" # "idle"
    BY <1>8 DEF Listening
  <2>2. InPace'
    BY <1>15, <2>1, Zenon DEF InPace
  <2>3. Counted'
    BY <1>7, <1>15, <2>1, Zenon DEF Counted
  <2>4. QED
    BY <1>6, <1>7, <1>8, <1>10, <2>1, <2>2, <2>3, Zenon DEF Paced, Opening, Quiet, Armed, Ready
<1>17. QED
  BY <1>4, <1>6, <1>7, <1>8, <1>10, <1>16

(* The pace is kept in every cycle.                                        *)
LEMMA EchoStep ==
    ASSUME AvoidsTick, InTime, Ample, EchoInv, [Step]_vars
    PROVE  EchoInv'
<1>1. RxInv /\ TxControl /\ TxTicking /\ Paced
  BY DEF EchoInv
<1>2. RxInv'
  BY <1>1, RxStep
<1>3. CASE Step
  <2>1. TypeOK /\ Transmitter
    BY <1>3, EchoFacts
  <2>2. TxControl'
    BY <1>1, <2>1, TypeParts, TxControlStep
  <2>3. TxTicking'
    BY <1>1, <1>3, TxTickingStep
  <2>4. Paced'
    <3>1. CASE clrdivtx
      BY <1>3, <3>1, Opens
    <3>2. CASE rxrdyi
      BY <1>3, <3>2, Takes
    <3>3. CASE txfsm = "idle" /\ ~rxrdyi
      BY <1>3, <3>3, Rests
    <3>4. CASE txfsm # "idle" /\ ~clrdivtx
      <4>1. Sounds
        BY <3>4 DEF Sounds
      <4>2. QED
        BY <1>3, <4>1, Ends, GoesOn
    <3>5. QED
      BY <3>1, <3>2, <3>3, <3>4
  <2>5. QED
    BY <1>2, <2>2, <2>3, <2>4 DEF EchoInv
<1>4. CASE UNCHANGED vars
  <2>1. /\ UNCHANGED <<rxfsm, rx_reg, rxbitcnt, dout, wait_a_bitrx, rxrdyi, clrdivrx>>
        /\ UNCHANGED <<txfsm, tx_reg, txbitcnt, wait_a_bit_tx, clrdivtx>>
        /\ UNCHANGED <<div16, top16, rxdiv, toprx, txdiv, toptx>>
        /\ UNCHANGED <<frame, bitLength, left, heard, age, due>>
    BY <1>4, Zenon DEF vars, moduleVars, receiver, transmitter, dividers, sender, listener
  <2>2. /\ tx' = tx /\ Phase' = Phase /\ D' = D /\ StopSample' = StopSample /\ Done' = Done
        /\ LastBit' = LastBit
    BY <2>1, Zenon DEF tx, Phase, D, StopSample, Half, Done, Sample, Nominal, LastBit
  <2>3. Elapsed' = Elapsed
    BY <2>1, Zenon DEF Elapsed, sendersBit
  <2>4. Gap' = Gap /\ Slack' = Slack
    BY <2>1, <2>2, <2>3, Zenon DEF Gap, Slack
  <2>5. TxTime' = TxTime
    <3>1. TxHalves' = TxHalves
      BY <2>1, Zenon DEF TxHalves
    <3>2. TxTicks' = TxTicks
      BY <2>1, <3>1, Zenon DEF TxTicks, Count
    <3>3. QED
      BY <2>2, <3>2, Zenon DEF TxTime
  <2>6. TxControl'
    BY <1>1, <2>1, <2>2, Zenon DEF TxControl
  <2>7. TxTicking'
    BY <1>1, <2>1, <2>2, <2>4, Zenon DEF TxTicking
  <2>8. AgeOK' /\ Opening' /\ InPace' /\ Counted' /\ Quiet' /\ Armed' /\ Ready'
    <3>1. AgeOK /\ Opening /\ InPace /\ Counted /\ Quiet /\ Armed /\ Ready
      BY <1>1 DEF Paced
    <3>2. AgeOK' /\ Armed' /\ Quiet'
      BY <2>1, <2>2, <2>4, <3>1, Zenon DEF AgeOK, Armed, Quiet, Settling, Listening
    <3>3. Opening' /\ Ready'
      BY <2>1, <2>2, <2>3, <2>4, <3>1, Zenon DEF Opening, Ready, Listening
    <3>4. InPace' /\ Counted'
      BY <2>1, <2>2, <2>4, <2>5, <3>1, Zenon DEF InPace, Counted, Sounds
    <3>5. QED
      BY <3>2, <3>3, <3>4
  <2>9. QED
    BY <1>2, <2>6, <2>7, <2>8 DEF EchoInv, Paced
<1>5. QED
  BY <1>3, <1>4

(* All is quiet at first, and the transmitter at rest.                     *)
LEMMA EchoInit == Ample /\ EInit => EchoInv
<1> SUFFICES ASSUME Ample, EInit PROVE EchoInv
    OBVIOUS
<1>1. RxInv
  BY RxInit
<1>2. /\ txfsm = "idle" /\ ~wait_a_bit_tx /\ ~clrdivtx /\ ~toptx /\ ~rxrdyi
      /\ rxfsm = "idle" /\ frame = << >> /\ age = Settling
  BY Zenon DEF EInit, Init
<1>3. Settling # Listening /\ ~(Settling > 0) /\ D \in Nat /\ StopSample \in Nat /\ D <= StopSample
  <2>1. Half \in Nat \ {0} /\ D \in Nat \ {0} /\ D <= Half /\ StopSample \in Nat /\ 5 * Half <= StopSample
    BY HalfTimes
  <2>2. QED
    BY <2>1 DEF Settling, Listening
<1>4. Gap = D
  <2>1. ~LastBit
    <3>1. Len(<< >>) = 0 /\ 0 # 1
      BY EmptySeq
    <3>2. QED
      BY <1>2, <3>1, Zenon DEF LastBit
  <2>2. Gap = 0 + D
    BY <1>2, <2>1, Zenon DEF Gap, Elapsed
  <2>3. QED
    BY <1>3, <2>2
<1>5. TxControl
  BY <1>2 DEF TxControl
<1>6. Quiet
  <2>1. D <= StopSample + 2 /\ D <= StopSample + 3
    BY <1>3
  <2>2. QED
    BY <1>4, <2>1, Zenon DEF Quiet
<1>7. AgeOK
  BY <1>2 DEF AgeOK
<1>8. QED
  BY <1>1, <1>2, <1>3, <1>5, <1>6, <1>7, Zenon
     DEF EchoInv, TxTicking, Paced, Opening, InPace, Sounds, Counted, Armed, Ready

-----------------------------------------------------------------------------
(* What the listener has heard. *)

\* The age at which the listener takes data bit k.
Middle(k) == k * Nominal + Half

\* The listener has a bit for every middle it is past.
HeardOK ==
    /\ heard \in Seq(Bit)
    /\ age < 0 => heard = << >>
    /\ age > 0 => /\ Len(heard) <= ndbits + 1
                  /\ Len(heard) > 0 => Middle(Len(heard)) < age
                  /\ age <= Middle(Len(heard) + 1)

(* The middles of the bits lie a bit apart.                                *)
LEMMA Middles ==
    /\ \A k \in Int : Middle(k) \in Int /\ Middle(k + 1) = Middle(k) + Nominal
    /\ \A j, k \in Int : j < k => Middle(j + 1) <= Middle(k)
    /\ Middle(ndbits + 2) = StopSample /\ Nominal \in Nat /\ Nominal > 1 /\ Half < Middle(1) /\ Half > 0
<1>1. Nominal \in Nat /\ Half \in Nat \ {0} /\ Nominal = 2 * Half /\ StopSample = (ndbits + 2) * Nominal + Half
  BY HalfTimes
<1>2. \A k \in Int : Middle(k) \in Int /\ Middle(k + 1) = Middle(k) + Nominal
  <2>1. SUFFICES ASSUME NEW k \in Int
                 PROVE  Middle(k) \in Int /\ Middle(k + 1) = Middle(k) + Nominal
    OBVIOUS
  <2>2. (k + 1) * Nominal = k * Nominal + Nominal
    BY <1>1
  <2>3. QED
    BY <1>1, <2>2 DEF Middle
<1>3. \A j, k \in Int : j < k => Middle(j + 1) <= Middle(k)
  <2>1. SUFFICES ASSUME NEW j \in Int, NEW k \in Int, j < k PROVE Middle(j + 1) <= Middle(k)
    OBVIOUS
  <2>2. (j + 1) * Nominal <= k * Nominal
    BY <1>1, <2>1
  <2>3. (j + 1) * Nominal \in Int /\ k * Nominal \in Int
    BY <1>1
  <2> DEFINE p == (j + 1) * Nominal
             q == k * Nominal
  <2> HIDE DEF p, q
  <2>4. p + Half <= q + Half
    BY <1>1, <2>2, <2>3 DEF p, q
  <2>5. QED
    BY <2>4 DEF p, q, Middle
<1>4. Middle(ndbits + 2) = StopSample
  BY <1>1 DEF Middle
<1>5. Nominal > 1 /\ Half < Middle(1) /\ Half > 0
  BY <1>1 DEF Middle
<1>6. QED
  BY <1>1, <1>2, <1>3, <1>4, <1>5

(* Bit by bit, the listener hears a whole word and then the stop bit.      *)
LEMMA HeardStep ==
    ASSUME AgeOK, HeardOK, tx \in Bit, Listener
    PROVE  /\ HeardOK'
           /\ HearsBit => /\ age > 0 /\ age = Middle(Len(heard) + 1) /\ Len(heard) \in 0 .. ndbits
                          /\ heard' = Append(heard, tx)
           /\ HearsStop => age > 0 /\ age = StopSample /\ Len(heard) = ndbits + 1 /\ heard' = << >>
           /\ ~HearsBit /\ ~HearsStop => heard' = heard
<1> DEFINE l == Len(heard)
<1>1. l \in Nat /\ heard \in Seq(Bit)
  BY LenProperties DEF HeardOK
<1>2. age < 0 => l = 0
  BY EmptySeq DEF HeardOK
<1>3. age > 0 => l <= ndbits + 1 /\ (l > 0 => Middle(l) < age) /\ age <= Middle(l + 1)
  BY DEF HeardOK
<1>4. /\ HearsStop <=> age = StopSample
      /\ HearsBit <=> \E k \in 1 .. ndbits + 1 : age = Middle(k)
      /\ age = Settling => age' = IF tx = 1 THEN Listening ELSE Settling
      /\ age = Listening => age' = IF tx = 0 THEN 1 ELSE Listening
      /\ age = StopSample => age' = IF tx = 1 THEN Listening ELSE Settling
      /\ age > 0 /\ age # StopSample => age' = age + 1
  BY ListenerStep DEF Middle
<1>5. age \in Int /\ (age > 0 \/ age = Settling \/ age = Listening) /\ StopSample \in Nat /\ StopSample > 0
      /\ Settling = -2 /\ Listening = -1
  BY HalfTimes DEF AgeOK, Settling, Listening
<1>6. heard' = IF HearsBit THEN Append(heard, tx) ELSE IF HearsStop THEN << >> ELSE heard
  BY DEF Listener
<1>7. Len(Append(heard, tx)) = l + 1 /\ Append(heard, tx) \in Seq(Bit)
  BY <1>1, AppendProperties
<1>8. \A k \in Int : Middle(k) \in Int
  BY Middles
<1>9. HeardOK' <=> /\ heard' \in Seq(Bit)
                   /\ age' < 0 => heard' = << >>
                   /\ age' > 0 => /\ Len(heard') <= ndbits + 1
                                  /\ Len(heard') > 0 => Middle(Len(heard')) < age'
                                  /\ age' <= Middle(Len(heard') + 1)
  BY Zenon DEF HeardOK, Middle, Nominal, Half, D, Bit
<1> HIDE DEF l
<1>10. CASE HearsBit
  <2>1. PICK k \in 1 .. ndbits + 1 : age = Middle(k)
    BY <1>4, <1>10
  <2>2. Middle(k) > 0 /\ Middle(k) # StopSample
    <3>1. Middle(0 + 1) <= Middle(k) /\ Middle(k + 1) <= Middle(ndbits + 2) /\ Middle(k + 1) = Middle(k) + Nominal
      <4>1. 0 < k /\ k < ndbits + 2 /\ k \in Int /\ ndbits + 2 \in Int
        BY <2>1
      <4>2. QED
        <5>1. 0 \in Int
          OBVIOUS
        <5>2. QED
          BY <4>1, <5>1, Middles, Zenon
    <3>2. 0 + 1 = 1 /\ 1 \in Int /\ k \in Int
      BY <2>1
    <3>3. QED
      BY <1>8, <3>1, <3>2, Middles, HalfTimes
  <2>3. age > 0 /\ age' = age + 1 /\ age' > 0 /\ ~HearsStop
    BY <1>4, <1>5, <2>1, <2>2
  <2>4. k = l + 1
    <3>1. ~(k <= l)
      <4>1. SUFFICES ASSUME k <= l PROVE FALSE
        OBVIOUS
      <4>2. l > 0 /\ Middle(l) < Middle(k) /\ Middle(l) \in Int /\ Middle(k) \in Int
        BY <1>1, <1>3, <1>8, <2>1, <2>3, <4>1
      <4>3. k = l \/ (k < l /\ Middle(k + 1) <= Middle(l) /\ Middle(k + 1) = Middle(k) + Nominal)
        BY <1>1, <2>1, <4>1, Middles
      <4>4. QED
        BY <4>2, <4>3, Middles
    <3>2. ~(l + 1 < k)
      <4>1. SUFFICES ASSUME l + 1 < k PROVE FALSE
        OBVIOUS
      <4>2. Middle(k) <= Middle(l + 1) /\ Middle(l + 1) \in Int /\ Middle(k) \in Int
        BY <1>1, <1>3, <1>8, <2>1, <2>3
      <4>3. l + 1 \in Int
        BY <1>1
      <4>4. Middle(l + 1 + 1) <= Middle(k) /\ Middle(l + 1 + 1) = Middle(l + 1) + Nominal
        BY <2>1, <4>1, <4>3, Middles
      <4>5. QED
        BY <4>2, <4>4, Middles
    <3>3. QED
      BY <1>1, <2>1, <3>1, <3>2
  <2>5. heard' = Append(heard, tx) /\ l \in 0 .. ndbits /\ age = Middle(l + 1)
    BY <1>1, <1>6, <1>10, <2>1, <2>4
  <2>6. Len(heard') = l + 1 /\ heard' \in Seq(Bit)
    BY <1>7, <2>5
  <2>7. Middle(l + 1) < age' /\ age' <= Middle(l + 1 + 1) /\ l + 1 <= ndbits + 1
    <3>1. l + 1 \in Int
      BY <1>1
    <3>2. Middle(l + 1 + 1) = Middle(l + 1) + Nominal /\ Middle(l + 1) \in Int
      BY <3>1, Middles
    <3> DEFINE a == Middle(l + 1)
               b == Middle(l + 1 + 1)
    <3>3. a \in Int /\ b = a + Nominal /\ age = a /\ l <= ndbits /\ l \in Int
      BY <1>1, <2>5, <3>2
    <3> HIDE DEF a, b
    <3>4. a < age' /\ age' <= b /\ l + 1 <= ndbits + 1
      BY <2>3, <3>3, Middles
    <3>5. QED
      BY <3>4, Zenon DEF a, b
  <2>8. HeardOK'
    <3>1. Len(heard') <= ndbits + 1 /\ Middle(Len(heard')) < age' /\ age' <= Middle(Len(heard') + 1)
      BY <2>6, <2>7, Zenon
    <3>2. ~(age' < 0)
      BY <1>5, <2>3
    <3>3. QED
      BY <1>9, <2>6, <3>1, <3>2, Zenon
  <2>9. QED
    BY <1>10, <2>3, <2>5, <2>8 DEF l
<1>11. CASE HearsStop
  <2>1. age = StopSample /\ age > 0 /\ ~HearsBit
    <3>1. \A k \in 1 .. ndbits + 1 : Middle(k) # StopSample
      <4>1. SUFFICES ASSUME NEW k \in 1 .. ndbits + 1 PROVE Middle(k) # StopSample
        OBVIOUS
      <4>2. Middle(k + 1) <= Middle(ndbits + 2) /\ Middle(k + 1) = Middle(k) + Nominal /\ Middle(k) \in Int
        <5>1. k < ndbits + 2 /\ k \in Int /\ ndbits + 2 \in Int
          OBVIOUS
        <5>2. QED
          BY <5>1, Middles
      <4>3. QED
        BY <4>2, Middles
    <3>2. QED
      BY <1>4, <1>5, <1>11, <3>1
  <2>2. l = ndbits + 1
    <3>1. SUFFICES ASSUME l < ndbits + 1 PROVE FALSE
      BY <1>1, <1>3, <2>1
    <3>2. l + 1 < ndbits + 2 /\ l + 1 \in Int
      BY <1>1, <3>1
    <3>3. Middle(l + 1 + 1) <= Middle(ndbits + 2) /\ Middle(l + 1 + 1) = Middle(l + 1) + Nominal /\ Middle(l + 1) \in Int
      BY <3>2, Middles
    <3>4. QED
      BY <1>3, <2>1, <3>3, Middles
  <2>3. heard' = << >> /\ age' < 0
    BY <1>4, <1>5, <1>6, <1>11, <2>1
  <2>4. HeardOK'
    <3>1. ~(age' > 0)
      BY <1>4, <1>5, <2>1
    <3>2. << >> \in Seq(Bit)
      BY EmptySeq
    <3>3. QED
      BY <1>9, <2>3, <3>1, <3>2, Zenon
  <2>5. QED
    BY <1>11, <2>1, <2>2, <2>3, <2>4 DEF l
<1>12. CASE ~HearsBit /\ ~HearsStop
  <2>1. heard' = heard
    BY <1>6, <1>12
  <2>2. CASE age > 0
    <3>1. age' = age + 1 /\ age' > 0 /\ ~(age' < 0)
      BY <1>4, <1>5, <1>12, <2>2
    <3>2. age # Middle(l + 1)
      <4>1. CASE l = ndbits + 1
        <5>1. l + 1 = ndbits + 2
          BY <4>1
        <5>2. QED
          BY <1>4, <1>12, <5>1, Middles
      <4>2. CASE l < ndbits + 1
        <5>1. l + 1 \in 1 .. ndbits + 1
          BY <1>1, <4>2
        <5>2. QED
          BY <1>4, <1>12, <5>1
      <4>3. QED
        BY <1>1, <1>3, <2>2, <4>1, <4>2
    <3>3. age' <= Middle(l + 1) /\ (l > 0 => Middle(l) < age')
      <4>1. Middle(l + 1) \in Int /\ Middle(l) \in Int
        BY <1>1, <1>8
      <4>2. QED
        BY <1>3, <1>5, <2>2, <3>1, <3>2, <4>1
    <3>4. Len(heard') <= ndbits + 1 /\ (Len(heard') > 0 => Middle(Len(heard')) < age')
          /\ age' <= Middle(Len(heard') + 1)
      <4>1. Len(heard') = l
        BY <2>1 DEF l
      <4>2. QED
        BY <1>3, <2>2, <3>3, <4>1, Zenon
    <3>5. QED
      <4>1. heard' \in Seq(Bit)
        BY <1>1, <2>1
      <4>2. HeardOK'
        BY <1>9, <3>1, <3>4, <4>1, Zenon
      <4>3. QED
        BY <1>12, <2>1, <4>2, Zenon
  <2>3. CASE age = Settling \/ age = Listening
    <3>1. heard = << >> /\ l = 0
      BY <1>2, <1>5, <2>3 DEF HeardOK
    <3>2. heard' = << >> /\ Len(heard') = 0 /\ heard' \in Seq(Bit)
      BY <2>1, <3>1 DEF l
    <3>3. age' \in {Settling, Listening, 1}
      BY <1>4, <1>5, <2>3
    <3>4. age' > 0 => age' = 1
      BY <1>5, <3>3
    <3>5. 1 <= Middle(0 + 1) /\ 0 <= ndbits + 1 /\ ~(0 > 0)
      <4>1. 0 + 1 = 1 /\ Middle(1) \in Int
        BY <1>8
      <4>2. QED
        BY <4>1, Middles, HalfTimes
    <3>6. QED
      <4>1. Len(heard') <= ndbits + 1 /\ ~(Len(heard') > 0)
        BY <3>2
      <4>2. age' > 0 => age' <= Middle(Len(heard') + 1)
        BY <3>2, <3>4, <3>5, Zenon
      <4>3. HeardOK'
        BY <1>9, <3>2, <4>1, <4>2, Zenon
      <4>4. QED
        BY <1>12, <2>1, <4>3, Zenon
  <2>4. QED
    BY <1>5, <2>2, <2>3
<1>13. QED
  BY <1>10, <1>11, <1>12

(* At the middle of a bit the transmitter has that bit on tx.              *)
LEMMA BitOnLine ==
    ASSUME AvoidsTick, InTime, Ample, EchoInv, HeardOK, Step, HearsBit
    PROVE  /\ txfsm \in {"edge", "shift"} /\ txbitcnt = Len(heard) /\ Len(heard) \in 0 .. ndbits
           /\ heard' = Append(heard, tx) /\ age > 0 /\ age # StopSample
<1> DEFINE l == Len(heard)
           h == TxHalves
           y == (h + 1) * Half
           z == (2 * l + 3) * Half
<1>1. /\ TypeOK /\ Listener /\ tx \in Bit /\ StopSample \in Nat /\ Half \in Nat
      /\ D \in Nat /\ D > 2 /\ 2 * D <= Half /\ age \in Int
  BY EchoFacts
<1>2. AgeOK /\ TxTicking /\ Opening /\ InPace /\ Counted
  BY DEF EchoInv, Paced
<1>3. age > 0 /\ age = Middle(l + 1) /\ l \in 0 .. ndbits /\ heard' = Append(heard, tx)
  BY <1>1, <1>2, HeardStep
<1> HIDE DEF l
<1>4. age = z /\ z \in Int
  <2>1. (l + 1) * Nominal + Half = (2 * (l + 1) + 1) * Half
    <3>1. Nominal = 2 * Half /\ l \in Int
      BY <1>3, HalfTimes
    <3>2. QED
      BY <1>1, <3>1
  <2>2. 2 * (l + 1) + 1 = 2 * l + 3 /\ z \in Int
    BY <1>1, <1>3
  <2>3. QED
    BY <1>3, <2>1, <2>2, Zenon DEF Middle
<1>5. z + 2 * Half <= StopSample
  <2>1. 2 * l + 5 <= 5 + 2 * ndbits /\ 2 * l + 5 \in Nat
    BY <1>3
  <2>2. Half * (2 * l + 5) <= Half * (5 + 2 * ndbits)
    BY <1>1, <2>1, Products
  <2>3. Half * (2 * l + 5) = z + 2 * Half /\ Half * (5 + 2 * ndbits) = StopSample
    BY <1>1, <1>3 DEF StopSample
  <2>4. QED
    BY <2>2, <2>3, Zenon
<1> HIDE DEF z
<1>6. age # StopSample /\ txfsm # "idle"
  <2>1. txfsm = "idle" => StopSample + 4 - 2 * D <= age
    BY <1>2, <1>3 DEF Counted
  <2>2. QED
    BY <1>1, <1>4, <1>5, <2>1
<1>7. Sounds
  <2>1. ~(age = Listening)
    BY <1>3 DEF Listening
  <2>2. QED
    BY <1>2, <1>6, <2>1, Zenon DEF Sounds, Opening
<1>8. age <= TxTime /\ TxTime <= age + Slack
  BY <1>2, <1>3, <1>7, Zenon DEF InPace
<1>9. Slack \in Int /\ Slack <= 2 * D - 2
  BY <1>1 DEF Slack
<1>10. /\ TxTime \in Int /\ h \in 0 .. 4 + 2 * ndbits /\ Phase \in 0 .. D
       /\ h * Half + Phase <= TxTime
       /\ ~toptx => TxTime <= y
       /\ toptx => TxTime = y + Phase
  BY <1>1, <1>2, <1>6, TxTimeIs
<1>11. h \in Int /\ h * Half \in Int /\ y = h * Half + Half /\ y \in Int /\ l \in Int
  BY <1>1, <1>3, <1>10
<1> HIDE DEF h
<1>12. \A m \in Int : m * Half \in Int /\ (m < h => (m + 1) * Half <= h * Half)
                                    /\ (h < m => (h + 1) * Half <= m * Half)
  <2>1. SUFFICES ASSUME NEW m \in Int
                 PROVE  m * Half \in Int /\ (m < h => (m + 1) * Half <= h * Half)
                                    /\ (h < m => (h + 1) * Half <= m * Half)
    OBVIOUS
  <2>2. m * Half \in Int
    BY <1>1
  <2>3. m < h => (m + 1) * Half <= h * Half
    BY <1>1, <1>11
  <2>4. h < m => (h + 1) * Half <= m * Half
    BY <1>1, <1>11
  <2>5. QED
    BY <2>2, <2>3, <2>4
<1> DEFINE x == h * Half
<1>13. ~(h < 2 * l + 2)
  <2>1. SUFFICES ASSUME h < 2 * l + 2 PROVE FALSE
    OBVIOUS
  <2>2. y <= (2 * l + 2) * Half
    <3>1. 2 * l + 2 \in Int
      BY <1>11
    <3>2. (h + 1) * Half <= (2 * l + 2) * Half
      BY <1>12, <2>1, <3>1, Zenon
    <3>3. QED
      BY <3>2, Zenon
  <2>3. (2 * l + 2) * Half + Half = z
    BY <1>1, <1>11 DEF z
  <2>4. y + Half <= z
    <3> DEFINE u == (2 * l + 2) * Half
    <3>1. u \in Int
      BY <1>1, <1>11
    <3> HIDE DEF u, y
    <3>2. QED
      BY <1>1, <1>4, <1>11, <2>2, <2>3, <3>1 DEF u
  <2> HIDE DEF y
  <2>5. TxTime <= y + D
    BY <1>1, <1>10, <1>11
  <2>6. QED
    BY <1>1, <1>4, <1>8, <1>10, <1>11, <2>4, <2>5
<1>14. ~(2 * l + 3 < h)
  <2>1. SUFFICES ASSUME 2 * l + 3 < h PROVE FALSE
    OBVIOUS
  <2>2. (2 * l + 3 + 1) * Half <= x
    <3>1. 2 * l + 3 \in Int
      BY <1>11
    <3>2. QED
      BY <1>12, <2>1, <3>1, Zenon
  <2>3. (2 * l + 3 + 1) * Half = z + Half
    BY <1>1, <1>11 DEF z
  <2>4. z + Half <= x /\ x \in Int /\ x + Phase <= TxTime
    BY <1>10, <1>11, <2>2, <2>3
  <2> HIDE DEF x
  <2>5. QED
    BY <1>1, <1>4, <1>8, <1>9, <1>10, <2>4
<1>15. h = 2 * l + 2 \/ h = 2 * l + 3
  BY <1>11, <1>13, <1>14
<1>16. txbitcnt \in 0 .. ndbits /\ txfsm \in States
  BY <1>1, TypeParts DEF TxTypes
<1>17. txfsm \in {"edge", "shift"} /\ txbitcnt = l
  <2>1. CASE txfsm = "start"
    <3>1. h \in {0, 1}
      BY <2>1 DEF h, TxHalves
    <3>2. QED
      BY <1>3, <1>15, <3>1
  <2>2. CASE txfsm = "edge"
    <3>1. h = 2 + 2 * txbitcnt
      BY <2>2 DEF h, TxHalves
    <3>2. QED
      BY <1>3, <1>15, <1>16, <2>2, <3>1
  <2>3. CASE txfsm = "shift"
    <3>1. h = 3 + 2 * txbitcnt
      BY <2>3 DEF h, TxHalves
    <3>2. QED
      BY <1>3, <1>15, <1>16, <2>3, <3>1
  <2>4. CASE txfsm = "stop"
    <3>1. h = 4 + 2 * ndbits
      BY <2>4 DEF h, TxHalves
    <3>2. QED
      BY <1>3, <1>15, <3>1
  <2>5. QED
    BY <1>6, <1>16, <2>1, <2>2, <2>3, <2>4 DEF States
<1>18. QED
  BY <1>3, <1>6, <1>17 DEF l

-----------------------------------------------------------------------------
(* The words. *)

Line(w) == <<0>> \o w \o <<1>>

\* A word is on its way in from its start bit to the end of its stop bit's
\* sample, and on its way out from there to the sample of its stop bit.
MoreBits == Len(frame) > 1
Incoming == rxrdyi \/ rxfsm # "idle" \/ MoreBits
Outgoing == clrdivtx \/ age > 0

\* The bits of w: the rest on the line, those that are in in the receiver's
\* register, the ones to come in the transmitter's, the others heard.
OnLine(w) == \A i \in 1 .. Len(frame) : frame[i] = Line(w)[sendersBit + i]
Arriving(w) ==
    /\ OnLine(w)
    /\ rxfsm \in {"edge", "shift"} =>
         \A i \in 1 .. rxbitcnt : rx_reg[ndbits + 1 - rxbitcnt + i] = w[i]
    /\ rxfsm = "stop" => rx_reg = w
    /\ rxrdyi => dout = w
Leaving(w) ==
    /\ txfsm = "start" => dout = w
    /\ txfsm \in {"edge", "shift"} =>
         \A i \in 1 .. ndbits + 1 - txbitcnt : tx_reg[i] = w[txbitcnt + i]
    /\ \A i \in 1 .. Len(heard) : heard[i] = w[i]

\* The words that are due: the one on its way out before the one on its way in.
Going(w) == IF Outgoing THEN <<w>> ELSE << >>
Coming(w) == IF Incoming THEN <<w>> ELSE << >>
WordInv ==
    \E a, b \in Word : /\ due = Going(b) \o Coming(a)
                       /\ Incoming => Arriving(a)
                       /\ Outgoing => Leaving(b)

(* What is due first, and what is due without it.                          *)
LEMMA Queues ==
    ASSUME NEW b \in Word, NEW r \in Seq(Word)
    PROVE  LET q == <<b>> \o r IN q # << >> /\ Head(q) = b /\ SubSeq(q, 2, Len(q)) = r
<1> DEFINE q == <<b>> \o r
<1>1. <<b>> \in Seq(Word) /\ Len(<<b>>) = 1 /\ <<b>>[1] = b /\ Len(r) \in Nat
  BY LenProperties
<1>2. /\ q \in Seq(Word) /\ Len(q) = 1 + Len(r)
      /\ \A i \in 1 .. 1 + Len(r) : q[i] = IF i <= 1 THEN <<b>>[i] ELSE r[i - 1]
  BY <1>1, ConcatProperties
<1> HIDE DEF q
<1>3. q # << >>
  BY <1>1, <1>2, EmptySeq
<1>4. Head(q) = b
  <2>1. Head(q) = q[1]
    BY <1>2, <1>3, HeadTailProperties
  <2>2. q[1] = <<b>>[1]
    BY <1>1, <1>2
  <2>3. QED
    BY <1>1, <2>1, <2>2
<1>5. Tail(q) = r
  <2>1. /\ Tail(q) \in Seq(Word) /\ Len(Tail(q)) = Len(q) - 1
        /\ \A i \in 1 .. Len(Tail(q)) : Tail(q)[i] = q[i + 1]
    BY <1>2, <1>3, HeadTailProperties
  <2>2. Len(Tail(q)) = Len(r)
    BY <1>1, <1>2, <2>1
  <2>3. ASSUME NEW i \in 1 .. Len(Tail(q)) PROVE Tail(q)[i] = r[i]
    <3>1. i + 1 \in 1 .. 1 + Len(r) /\ ~(i + 1 <= 1) /\ i + 1 - 1 = i
      BY <1>1, <2>2
    <3>2. q[i + 1] = r[i + 1 - 1]
      BY <1>2, <3>1
    <3>3. QED
      BY <2>1, <3>1, <3>2
  <2>4. QED
    BY <2>1, <2>2, <2>3, SeqEqual
<1>6. Tail(q) = SubSeq(q, 2, Len(q))
  BY <1>2, <1>3, TailIsSubSeq
<1>7. QED
  BY <1>3, <1>4, <1>5, <1>6 DEF q

(* A frame keeps the bits of its word, whichever it has left.              *)
LEMMA LineStep ==
    ASSUME SenderOK, Holds \/ NextBit \/ Waits, NEW w, OnLine(w)
    PROVE  OnLine(w)'
<1>1. CASE Holds \/ Waits
  <2>1. frame' = frame
    BY <1>1 DEF Holds, Waits, sender
  <2>2. QED
    BY <2>1, Zenon DEF OnLine, sendersBit, Line
<1>2. CASE NextBit
  <2>1. frame # << >> /\ frame' = Tail(frame)
    BY <1>2 DEF NextBit
  <2>2. /\ Tail(frame) \in Seq(Bit) /\ Len(Tail(frame)) = Len(frame) - 1
        /\ \A i \in 1 .. Len(Tail(frame)) : Tail(frame)[i] = frame[i + 1]
    BY <2>1, HeadTailProperties DEF SenderOK
  <2> DEFINE l == Len(frame)
             m == Len(frame')
  <2>3. l \in Nat /\ m = l - 1 /\ m \in Nat
    BY <2>1, <2>2, LenProperties DEF SenderOK
  <2>4. sendersBit = ndbits + 3 - l /\ sendersBit' = ndbits + 3 - m
    BY DEF sendersBit
  <2>5. \A i \in 1 .. m : frame'[i] = frame[i + 1]
    BY <2>1, <2>2
  <2>6. \A i \in 1 .. l : frame[i] = Line(w)[sendersBit + i]
    BY DEF OnLine
  <2> HIDE DEF l, m
  <2>7. sendersBit' = sendersBit + 1 /\ sendersBit \in Int
    BY <2>3, <2>4
  <2>8. ASSUME NEW i \in 1 .. m PROVE frame'[i] = Line(w)[sendersBit' + i]
    <3>1. i + 1 \in 1 .. l /\ sendersBit + (i + 1) = sendersBit' + i
      BY <2>3, <2>7
    <3>2. frame[i + 1] = Line(w)[sendersBit + (i + 1)]
      BY <2>6, <3>1, Zenon
    <3>3. QED
      BY <2>5, <3>1, <3>2, Zenon
  <2>9. QED
    BY <2>8, Zenon DEF OnLine, Line, m
<1>3. QED
  BY <1>1, <1>2

(* A new frame has all the bits of its word, which is the one that is due. *)
LEMMA SendsLine ==
    ASSUME NEW w \in Word, frame' = Line(w)
    PROVE  OnLine(w)' /\ MoreBits' /\ SubSeq(frame', 2, ndbits + 2) = w
<1>1. /\ Line(w) \in Seq(Bit) /\ Len(Line(w)) = ndbits + 3
      /\ \A i \in 2 .. ndbits + 2 : Line(w)[i] = w[i - 1]
  BY FrameIs DEF Line
<1>2. Len(frame') = ndbits + 3
  BY <1>1
<1>3. MoreBits'
  BY <1>2 DEF MoreBits
<1>4. sendersBit' = 0
  BY <1>2 DEF sendersBit
<1>5. OnLine(w)'
  <2>1. \A i \in 1 .. Len(frame') : frame'[i] = Line(w)[sendersBit' + i]
    <3>1. SUFFICES ASSUME NEW i \in 1 .. Len(frame') PROVE frame'[i] = Line(w)[sendersBit' + i]
      OBVIOUS
    <3>2. sendersBit' + i = i
      BY <1>2, <1>4
    <3>3. QED
      BY <3>2, Zenon
  <2>2. QED
    BY <2>1, Zenon DEF OnLine, Line
<1>6. SubSeq(frame', 2, ndbits + 2) = w
  <2> DEFINE f == Line(w)
             s == SubSeq(f, 2, ndbits + 2)
  <2>1. w \in Seq(Bit) /\ Len(w) = ndbits + 1
    <3>1. w \in Seq(Bit) /\ DOMAIN w = 1 .. ndbits + 1
      BY SeqDef DEF Word
    <3>2. QED
      BY <3>1, LenProperties
  <2>2. \A i \in 2 .. ndbits + 2 : f[i] \in Bit
    BY <1>1 DEF Word
  <2> HIDE DEF f
  <2>3. /\ s \in Seq(Bit) /\ Len(s) = IF 2 <= ndbits + 2 THEN (ndbits + 2) - 2 + 1 ELSE 0
        /\ \A i \in 1 .. (ndbits + 2) - 2 + 1 : s[i] = f[2 + i - 1]
    BY <2>2, SubSeqProperties
  <2> HIDE DEF s
  <2>4. Len(s) = ndbits + 1 /\ \A i \in 1 .. ndbits + 1 : s[i] = f[i + 1]
    BY <2>3
  <2>5. \A i \in 1 .. Len(s) : s[i] = w[i]
    BY <1>1, <2>4 DEF f
  <2>6. s = w
    BY <2>1, <2>3, <2>4, <2>5, SeqEqual
  <2>7. QED
    BY <2>6 DEF s, f
<1>7. QED
  BY <1>3, <1>5, <1>6

(* Words come in one at a time.                                            *)
LEMMA IncomingStep ==
    ASSUME AvoidsTick, InTime, Ample, EchoInv, Step
    PROVE  /\ Sends => ~Incoming /\ ~rxrdyi /\ rxfsm' = "idle" /\ ~rxrdyi'
           /\ ~Sends /\ ~rxrdyi => (Incoming' <=> Incoming)
           /\ rxrdyi => Incoming /\ ~Incoming' /\ ~Sends
<1>1. /\ TypeOK /\ SenderOK /\ RxControl /\ RxTicking /\ Follows
      /\ rx \in Bit /\ Edge(rx) /\ (Sends \/ Holds \/ NextBit \/ Waits)
  BY EchoFacts DEF EchoInv, RxInv, Types, Step
<1>2. Len(frame) \in Nat /\ Len(<< >>) = 0
  BY <1>1, LenProperties, EmptySeq DEF SenderOK
<1>3. frame = << >> \/ Len(frame) = 1 => rx = 1 /\ ~MoreBits
  <2>1. frame = << >> => rx = 1 /\ ~MoreBits
    BY <1>1, <1>2, RxBit DEF MoreBits
  <2>2. ASSUME frame # << >>, Len(frame) = 1 PROVE rx = 1 /\ ~MoreBits
    BY <1>1, <2>2, RxBit DEF SenderOK, MoreBits
  <2>3. QED
    BY <2>1, <2>2
<1>4. ASSUME rxrdyi PROVE Incoming /\ ~Incoming' /\ ~Sends
  <2>1. rxfsm' = "idle" /\ LastBit' /\ ~rxrdyi' /\ Holds
    BY <1>4, Takes
  <2>2. ~MoreBits'
    <3>1. Len(frame') = 1 => ~(Len(frame') > 1)
      OBVIOUS
    <3>2. QED
      BY <2>1, <3>1, Zenon DEF LastBit, MoreBits
  <2>3. ~Sends
    <3>1. frame # << >> /\ left > 1
      BY <2>1 DEF Holds
    <3>2. QED
      BY <3>1 DEF Sends
  <2>4. QED
    BY <1>4, <2>1, <2>2, <2>3, Zenon DEF Incoming
<1>5. rx = 1 /\ rxfsm = "idle" => rxfsm' = "idle" /\ ~rxrdyi'
  <2>1. SUFFICES ASSUME rx = 1, rxfsm = "idle" PROVE rxfsm' = "idle" /\ ~rxrdyi'
    OBVIOUS
  <2>2. RxIdle(rx)
    BY <1>1, <2>1 DEF Edge, Receiver, RxStart, RxEdge, RxShift, RxStop
  <2>3. rxfsm' = "idle"
    BY <2>1, <2>2 DEF RxIdle
  <2>4. QED
    BY <2>2, <2>3, Zenon DEF RxIdle
<1>6. ASSUME Sends PROVE ~Incoming /\ ~rxrdyi /\ rxfsm' = "idle" /\ ~rxrdyi'
  <2>1. frame = << >> \/ (Len(frame) = 1 /\ left = 1)
    BY <1>6 DEF Sends
  <2>2. rxfsm = "idle"
    <3>1. SUFFICES ASSUME rxfsm # "idle" PROVE FALSE
      OBVIOUS
    <3>2. frame # << >> /\ Elapsed <= Done - 1
      BY <1>1, <3>1, BusyIsInTime
    <3>3. Len(frame) > 1 \/ left > 1
      BY <1>1, <3>2, FrameGoesOn
    <3>4. ~(1 > 1)
      OBVIOUS
    <3>5. QED
      BY <2>1, <3>2, <3>3, <3>4, Zenon
  <2>3. rx = 1 /\ ~MoreBits
    BY <1>3, <2>1
  <2>4. ~rxrdyi
    BY <1>4, <1>6
  <2>5. QED
    BY <1>5, <2>2, <2>3, <2>4, Zenon DEF Incoming
<1>7. ASSUME ~Sends, ~rxrdyi, Incoming PROVE Incoming'
  <2>1. CASE rxfsm # "idle"
    <3>1. RxStart \/ RxEdge \/ RxShift(rx) \/ RxStop
      BY <1>1, <2>1 DEF Edge, Receiver, RxIdle
    <3>2. CASE RxStop /\ toprx
      BY <3>2, Zenon DEF RxStop, Incoming
    <3>3. CASE ~(RxStop /\ toprx)
      BY <3>1, <3>3 DEF RxStart, RxEdge, RxShift, RxStop, Incoming
    <3>4. QED
      BY <3>2, <3>3
  <2>2. CASE rxfsm = "idle"
    <3>1. MoreBits
      BY <1>7, <2>2, Zenon DEF Incoming
    <3>2. AtRest
      BY <1>1, <2>2, Zenon DEF Follows, AtRest
    <3>3. rx = 0
      BY <1>1, <1>3, <3>1, <3>2, IdleSees DEF Bit
    <3>4. RxIdle(rx)
      BY <1>1, <2>2 DEF Edge, Receiver, RxStart, RxEdge, RxShift, RxStop
    <3>5. rxfsm' = "start"
      BY <3>3, <3>4 DEF RxIdle
    <3>6. QED
      BY <3>5 DEF Incoming
  <2>3. QED
    BY <2>1, <2>2
<1>8. ASSUME ~Sends, ~Incoming PROVE ~Incoming'
  <2>1. rxfsm = "idle" /\ ~MoreBits
    BY <1>8, Zenon DEF Incoming
  <2>2. frame = << >> \/ Len(frame) = 1
    <3>1. frame # << >> => Len(frame) \in 1 .. ndbits + 3
      BY <1>1, RxBit
    <3>2. \A n \in 1 .. ndbits + 3 : ~(n > 1) => n = 1
      OBVIOUS
    <3>3. QED
      BY <2>1, <3>1, <3>2, Zenon DEF MoreBits
  <2>3. ~MoreBits'
    <3>1. CASE NextBit
      <4>1. frame' = Tail(frame) /\ frame # << >>
        BY <3>1 DEF NextBit
      <4>2. Len(frame') = Len(frame) - 1 /\ Len(frame) = 1
        BY <1>1, <2>2, <4>1, HeadTailProperties DEF SenderOK
      <4>3. QED
        BY <4>2 DEF MoreBits
    <3>2. CASE Holds \/ Waits
      BY <2>1, <3>2 DEF Holds, Waits, sender, MoreBits
    <3>3. QED
      BY <1>1, <1>8, <3>1, <3>2
  <2>4. rxfsm' = "idle" /\ ~rxrdyi'
    BY <1>3, <1>5, <2>1, <2>2
  <2>5. QED
    BY <2>3, <2>4, Zenon DEF Incoming
<1>9. QED
  BY <1>4, <1>6, <1>7, <1>8, Zenon

(* Words go out one at a time.                                             *)
LEMMA OutgoingStep ==
    ASSUME AvoidsTick, InTime, Ample, EchoInv, Step
    PROVE  /\ HearsStop => Outgoing /\ ~Outgoing' /\ ~rxrdyi
           /\ rxrdyi => ~Outgoing /\ Outgoing'
           /\ ~rxrdyi /\ ~HearsStop => (Outgoing' <=> Outgoing)
<1>1. /\ Transmitter /\ Listener /\ AgeOK /\ Armed /\ Opening /\ StopSample > 0
  BY EchoFacts, HalfTimes DEF EchoInv, Paced
<1>2. HearsStop <=> age = StopSample
  BY <1>1, ListenerStep
<1>3. /\ age > 0 /\ age # StopSample => age' > 0
      /\ age = StopSample => age' \in {Settling, Listening}
      /\ age = Listening => age' = IF tx = 0 THEN 1 ELSE Listening
      /\ age = Settling => age' = IF tx = 1 THEN Listening ELSE Settling
  BY AgeStep
<1>4. ~(Settling > 0) /\ ~(Listening > 0) /\ Settling # StopSample /\ Listening # StopSample
  BY <1>1, HalfTimes DEF Settling, Listening
<1>5. ~rxrdyi => ~clrdivtx'
  BY <1>1, Zenon DEF Transmitter, TxIdle, TxStart, TxEdge, TxShift, TxStop
<1>6. ASSUME rxrdyi PROVE ~Outgoing /\ Outgoing' /\ age = Listening
  <2>1. clrdivtx' /\ ~clrdivtx /\ age = Listening
    BY <1>6, Takes
  <2>2. QED
    BY <1>4, <2>1, Zenon DEF Outgoing
<1>7. ASSUME HearsStop PROVE Outgoing /\ ~Outgoing' /\ ~rxrdyi
  <2>1. age = StopSample /\ age > 0 /\ ~(age' > 0)
    BY <1>1, <1>2, <1>3, <1>4, <1>7
  <2>2. ~rxrdyi
    BY <1>4, <1>6, <2>1
  <2>3. QED
    BY <1>5, <2>1, <2>2, Zenon DEF Outgoing
<1>8. ASSUME ~rxrdyi, ~HearsStop, Outgoing PROVE Outgoing'
  <2>1. CASE clrdivtx
    <3>1. age' = 1
      BY <2>1, Opens
    <3>2. age' > 0
      BY <3>1
    <3>3. QED
      BY <3>2, Zenon DEF Outgoing
  <2>2. CASE ~clrdivtx
    <3>1. age > 0
      BY <1>8, <2>2, Zenon DEF Outgoing
    <3>2. QED
      BY <1>2, <1>3, <1>8, <3>1, Zenon DEF Outgoing
  <2>3. QED
    BY <2>1, <2>2
<1>9. ASSUME ~rxrdyi, ~HearsStop, ~Outgoing PROVE ~Outgoing'
  <2>1. ~clrdivtx /\ ~(age > 0)
    BY <1>9, Zenon DEF Outgoing
  <2>2. age = Listening => tx = 1
    BY <1>1, <2>1, Zenon DEF Armed
  <2>3. age = Settling \/ age = Listening
    BY <1>1, <2>1 DEF AgeOK
  <2>4. ~(age' > 0)
    BY <1>3, <1>4, <2>2, <2>3
  <2>5. QED
    BY <1>5, <1>9, <2>4, Zenon DEF Outgoing
<1>10. QED
  BY <1>6, <1>7, <1>8, <1>9, Zenon

(* The bits of a word go from the line into the receiver's register.       *)
LEMMA ArrivesStep ==
    ASSUME AvoidsTick, InTime, Ample, EchoInv, Step, ~Sends, ~rxrdyi,
           NEW w \in Word, Arriving(w)
    PROVE  Arriving(w)'
<1>1. /\ TypeOK /\ SenderOK /\ RxInv /\ RxControl
      /\ rx \in Bit /\ Receiver(rx) /\ (Holds \/ NextBit \/ Waits)
  BY EchoFacts DEF EchoInv, RxInv, Types, Step, Edge
<1>2. RxTypes /\ rxbitcnt \in 0 .. ndbits /\ rx_reg \in Word
  BY <1>1, TypeParts DEF RxTypes
<1>3. OnLine(w)'
  BY <1>1, LineStep DEF Arriving
<1> DEFINE In == \A i \in 1 .. rxbitcnt : rx_reg[ndbits + 1 - rxbitcnt + i] = w[i]
<1>4. CASE RxIdle(rx)
  <2>1. rxfsm' \in {"idle", "start"}
    BY <1>4 DEF RxIdle
  <2>2. rxfsm' \notin {"edge", "shift"} /\ rxfsm' # "stop"
    BY <2>1
  <2>3. ~rxrdyi'
    BY <1>4, Zenon DEF RxIdle
  <2>4. QED
    BY <1>3, <2>2, <2>3, Zenon DEF Arriving
<1>5. CASE RxStart
  <2>1. rxfsm' \in {"start", "edge"} /\ rxbitcnt' = 0
    BY <1>1, <1>5 DEF RxStart, RxControl
  <2>2. rxfsm' # "stop" /\ \A i \in 1 .. rxbitcnt' : FALSE
    BY <2>1
  <2>3. ~rxrdyi'
    BY <1>5, Zenon DEF RxStart
  <2>4. QED
    BY <1>3, <2>2, <2>3, Zenon DEF Arriving
<1>6. CASE RxEdge
  <2>1. rxfsm' \in {"edge", "shift"} /\ rxfsm = "edge"
    BY <1>6 DEF RxEdge
  <2>2. rxfsm' # "stop" /\ rxfsm \in {"edge", "shift"}
    BY <2>1
  <2>3. ~rxrdyi' /\ rxbitcnt' = rxbitcnt /\ rx_reg' = rx_reg
    BY <1>6, Zenon DEF RxEdge
  <2>4. In
    BY <2>2, Zenon DEF Arriving
  <2>5. QED
    BY <1>3, <2>2, <2>3, <2>4, Zenon DEF Arriving
<1>7. CASE RxShift(rx) /\ ~toprx
  <2>1. rxfsm' = "shift" /\ rxfsm = "shift"
    BY <1>7 DEF RxShift
  <2>2. rxfsm' # "stop" /\ rxfsm \in {"edge", "shift"}
    BY <2>1
  <2>3. ~rxrdyi' /\ rxbitcnt' = rxbitcnt /\ rx_reg' = rx_reg
    BY <1>7, Zenon DEF RxShift
  <2>4. In
    BY <2>2, Zenon DEF Arriving
  <2>5. QED
    BY <1>3, <2>2, <2>3, <2>4, Zenon DEF Arriving
<1>8. CASE RxShift(rx) /\ toprx
  <2>1. rxfsm = "shift" /\ rx_reg' = RxShifted(rx)
        /\ rxbitcnt' = (IF rxbitcnt = ndbits THEN rxbitcnt ELSE rxbitcnt + 1)
        /\ rxfsm' = (IF rxbitcnt = ndbits THEN "stop" ELSE "edge")
    BY <1>8 DEF RxShift
  <2>2. ~rxrdyi'
    BY <1>8, Zenon DEF RxShift
  <2>3. In
    BY <2>1 DEF Arriving
  <2>4. frame # << >> /\ sendersBit = rxbitcnt + 1
    BY <1>1, <1>8, <2>1, SampleIs
  <2>5. rx = w[rxbitcnt + 1]
    <3>1. rx = frame[1] /\ 1 \in 1 .. Len(frame)
      BY <1>1, <2>4, RxBit
    <3>2. frame[1] = Line(w)[sendersBit + 1]
      BY <3>1, Zenon DEF Arriving, OnLine
    <3>3. sendersBit + 1 = rxbitcnt + 2
      BY <1>2, <2>4
    <3>4. ASSUME NEW n \in 0 .. ndbits PROVE Line(w)[n + 2] = w[n + 1]
      <4>1. Line(w)[n + 2] = w[(n + 2) - 1]
        BY FrameIs DEF Line
      <4>2. (n + 2) - 1 = n + 1
        OBVIOUS
      <4>3. QED
        BY <4>1, <4>2, Zenon
    <3>5. Line(w)[rxbitcnt + 2] = w[rxbitcnt + 1]
      BY <1>2, <3>4, Zenon
    <3>6. QED
      BY <3>1, <3>2, <3>3, <3>5, Zenon
  <2>6. /\ rx_reg' \in Word
        /\ \A i \in 1 .. ndbits + 1 : rx_reg'[i] = IF i = ndbits + 1 THEN rx ELSE rx_reg[i + 1]
    BY <1>1, <1>2, <2>1, ShiftIs DEF RxShifted
  <2>7. \A i \in 1 .. rxbitcnt + 1 : rx_reg'[ndbits - rxbitcnt + i] = w[i]
    <3>1. SUFFICES ASSUME NEW i \in 1 .. rxbitcnt + 1
                   PROVE  rx_reg'[ndbits - rxbitcnt + i] = w[i]
      OBVIOUS
    <3>2. ndbits - rxbitcnt + i \in 1 .. ndbits + 1
      BY <1>2
    <3>3. CASE i = rxbitcnt + 1
      <4>1. ndbits - rxbitcnt + i = ndbits + 1
        BY <1>2, <3>3
      <4>2. QED
        BY <2>5, <2>6, <3>2, <3>3, <4>1, Zenon
    <3>4. CASE i # rxbitcnt + 1
      <4>1. /\ i \in 1 .. rxbitcnt /\ ndbits - rxbitcnt + i # ndbits + 1
            /\ ndbits - rxbitcnt + i + 1 = ndbits + 1 - rxbitcnt + i
        BY <1>2, <3>4
      <4>2. rx_reg[ndbits + 1 - rxbitcnt + i] = w[i]
        BY <2>3, <4>1, Zenon
      <4>3. rx_reg'[ndbits - rxbitcnt + i] = rx_reg[ndbits - rxbitcnt + i + 1]
        BY <2>6, <3>2, <4>1, Zenon
      <4>4. QED
        BY <4>1, <4>2, <4>3, Zenon
    <3>5. QED
      BY <3>3, <3>4
  <2>8. CASE rxbitcnt = ndbits
    <3>1. rxfsm' = "stop" /\ rxfsm' \notin {"edge", "shift"}
      BY <2>1, <2>8
    <3>2. \A i \in 1 .. ndbits + 1 : rx_reg'[i] = w[i]
      <4>1. SUFFICES ASSUME NEW i \in 1 .. ndbits + 1 PROVE rx_reg'[i] = w[i]
        OBVIOUS
      <4>2. i \in 1 .. rxbitcnt + 1 /\ ndbits - rxbitcnt + i = i
        BY <2>8
      <4>3. QED
        BY <2>7, <4>2, Zenon
    <3>3. rx_reg' = w
      BY <2>6, <3>2 DEF Word
    <3>4. QED
      BY <1>3, <2>2, <3>1, <3>3, Zenon DEF Arriving
  <2>9. CASE rxbitcnt # ndbits
    <3>1. rxfsm' # "stop" /\ rxbitcnt' = rxbitcnt + 1
      BY <2>1, <2>9
    <3>2. \A i \in 1 .. rxbitcnt' : rx_reg'[ndbits + 1 - rxbitcnt' + i] = w[i]
      <4>1. SUFFICES ASSUME NEW i \in 1 .. rxbitcnt + 1
                     PROVE  rx_reg'[ndbits + 1 - (rxbitcnt + 1) + i] = w[i]
        BY <3>1
      <4>2. ndbits + 1 - (rxbitcnt + 1) + i = ndbits - rxbitcnt + i
        BY <1>2
      <4>3. QED
        BY <2>7, <4>2, Zenon
    <3>3. QED
      BY <1>3, <2>2, <3>1, <3>2, Zenon DEF Arriving
  <2>10. QED
    BY <2>8, <2>9
<1>9. CASE RxStop
  <2>1. rxfsm = "stop" /\ rxfsm' \in {"idle", "stop"} /\ rx_reg' = rx_reg
    BY <1>9 DEF RxStop
  <2>2. rxfsm' \notin {"edge", "shift"}
    BY <2>1
  <2>3. rx_reg = w
    BY <2>1, Zenon DEF Arriving
  <2>4. rxrdyi' => dout' = rx_reg
    BY <1>9, Zenon DEF RxStop
  <2>5. QED
    BY <1>3, <2>1, <2>2, <2>3, <2>4, Zenon DEF Arriving
<1>10. QED
  BY <1>1, <1>4, <1>5, <1>6, <1>7, <1>8, <1>9 DEF Receiver

(* The bits of a word go from the transmitter's register to the listener.  *)
LEMMA LeavesStep ==
    ASSUME AvoidsTick, InTime, Ample, EchoInv, HeardOK, Step, ~rxrdyi, ~HearsStop,
           NEW w \in Word, Leaving(w)
    PROVE  Leaving(w)'
<1>1. /\ TypeOK /\ TxControl /\ AgeOK /\ tx \in Bit /\ rx \in Bit /\ Receiver(rx) /\ Transmitter /\ Listener
  BY EchoFacts DEF EchoInv, Paced, Edge
<1>2. TxTypes /\ txbitcnt \in 0 .. ndbits /\ tx_reg \in Word
  BY <1>1, TypeParts DEF TxTypes
<1> DEFINE Out == \A i \in 1 .. ndbits + 1 - txbitcnt : tx_reg[i] = w[txbitcnt + i]
           Heard == \A i \in 1 .. Len(heard) : heard[i] = w[i]
<1>3. Heard'
  <2>1. CASE HearsBit
    <3>1. /\ txfsm \in {"edge", "shift"} /\ txbitcnt = Len(heard) /\ Len(heard) \in 0 .. ndbits
          /\ heard' = Append(heard, tx)
      BY <2>1, BitOnLine
    <3>2. tx = w[Len(heard) + 1]
      <4>1. Out
        BY <3>1, Zenon DEF Leaving
      <4>2. 1 \in 1 .. ndbits + 1 - txbitcnt
        BY <1>2
      <4>3. tx_reg[1] = w[txbitcnt + 1]
        BY <4>1, <4>2, Zenon
      <4>4. QED
        BY <3>1, <4>3, Zenon DEF tx
    <3>3. /\ Len(Append(heard, tx)) = Len(heard) + 1
          /\ Append(heard, tx)[Len(heard) + 1] = tx
          /\ \A i \in 1 .. Len(heard) : Append(heard, tx)[i] = heard[i]
      BY <1>1, AppendProperties DEF HeardOK
    <3>4. Heard
      BY Zenon DEF Leaving
    <3> DEFINE l == Len(heard)
    <3>5. l \in Nat /\ Len(heard') = l + 1 /\ heard'[l + 1] = w[l + 1]
          /\ \A i \in 1 .. l : heard'[i] = w[i]
      BY <3>1, <3>2, <3>3, <3>4
    <3> HIDE DEF l
    <3>6. \A i \in 1 .. l + 1 : i = l + 1 \/ i \in 1 .. l
      BY <3>5
    <3>7. \A i \in 1 .. l + 1 : heard'[i] = w[i]
      BY <3>5, <3>6, Zenon
    <3>8. QED
      BY <3>5, <3>7, Zenon
  <2>2. CASE ~HearsBit
    <3>1. heard' = heard
      BY <1>1, <2>2, HeardStep
    <3>2. QED
      BY <3>1, Zenon DEF Leaving
  <2>3. QED
    BY <2>1, <2>2
<1>4. CASE TxIdle
  <2>1. txfsm' = "idle"
    BY <1>4 DEF TxIdle
  <2>2. txfsm' # "start" /\ txfsm' \notin {"edge", "shift"}
    BY <2>1
  <2>3. QED
    BY <1>3, <2>2, Zenon DEF Leaving
<1>5. CASE TxStart
  <2>1. txfsm = "start" /\ txbitcnt' = txbitcnt /\ txbitcnt = 0
    BY <1>1, <1>5, Zenon DEF TxStart, TxControl
  <2>2. dout = w
    BY <2>1, Zenon DEF Leaving
  <2>3. dout' = dout
    <3>1. ~rxrdyi'
      <4>1. CASE clrdivtx
        BY <4>1, Opens
      <4>2. CASE ~clrdivtx
        <5>1. Sounds
          BY <2>1, <4>2 DEF Sounds
        <5>2. QED
          BY <5>1, SoundsInTime
      <4>3. QED
        BY <4>1, <4>2
    <3>2. QED
      <4>1. CASE RxStop
        <5>1. ~toprx
          BY <3>1, <4>1, Zenon DEF RxStop
        <5>2. QED
          BY <4>1, <5>1 DEF RxStop
      <4>2. CASE ~RxStop
        BY <1>1, <4>2 DEF Receiver, RxIdle, RxStart, RxEdge, RxShift
      <4>3. QED
        BY <4>1, <4>2
  <2>4. CASE toptx /\ wait_a_bit_tx
    <3>1. txfsm' = "edge" /\ tx_reg' = dout
      BY <1>5, <2>4, Zenon DEF TxStart
    <3>2. txfsm' # "start"
      BY <3>1
    <3>3. \A i \in 1 .. ndbits + 1 - txbitcnt' : tx_reg'[i] = w[txbitcnt' + i]
      <4>1. SUFFICES ASSUME NEW i \in 1 .. ndbits + 1 - 0 PROVE w[i] = w[0 + i]
        BY <2>1, <2>2, <3>1
      <4>2. 0 + i = i
        OBVIOUS
      <4>3. QED
        BY <4>2
    <3>4. QED
      BY <1>3, <3>2, <3>3, Zenon DEF Leaving
  <2>5. CASE ~(toptx /\ wait_a_bit_tx)
    <3>1. txfsm' = "start"
      BY <1>5, <2>1, <2>5, Zenon DEF TxStart
    <3>2. txfsm' \notin {"edge", "shift"}
      BY <3>1
    <3>3. QED
      BY <1>3, <2>2, <2>3, <3>2, Zenon DEF Leaving
  <2>6. QED
    BY <2>4, <2>5
<1>6. CASE TxEdge \/ (TxShift /\ ~toptx)
  <2>1. txfsm \in {"edge", "shift"} /\ txfsm' # "start"
    BY <1>6 DEF TxEdge, TxShift
  <2>2. txbitcnt' = txbitcnt /\ tx_reg' = tx_reg
    BY <1>6, Zenon DEF TxEdge, TxShift
  <2>3. Out
    BY <2>1, Zenon DEF Leaving
  <2>4. QED
    BY <1>3, <2>1, <2>2, <2>3, Zenon DEF Leaving
<1>7. CASE TxShift /\ toptx
  <2>1. /\ txfsm = "shift" /\ tx_reg' = Append(Tail(tx_reg), 0)
        /\ txbitcnt' = (IF txbitcnt = ndbits THEN txbitcnt ELSE txbitcnt + 1)
        /\ txfsm' = (IF txbitcnt = ndbits THEN "stop" ELSE "edge")
    BY <1>7 DEF TxShift
  <2>2. CASE txbitcnt = ndbits
    <3>1. txfsm' \notin {"edge", "shift"} /\ txfsm' # "start"
      BY <2>1, <2>2
    <3>2. QED
      BY <1>3, <3>1, Zenon DEF Leaving
  <2>3. CASE txbitcnt # ndbits
    <3>1. txfsm' # "start" /\ txbitcnt' = txbitcnt + 1
      BY <2>1, <2>3
    <3>2. Out
      BY <2>1 DEF Leaving
    <3>3. \A i \in 1 .. ndbits + 1 : tx_reg'[i] = IF i = ndbits + 1 THEN 0 ELSE tx_reg[i + 1]
      BY <1>2, <2>1, ShiftIs DEF Bit
    <3>4. \A i \in 1 .. ndbits + 1 - txbitcnt' : tx_reg'[i] = w[txbitcnt' + i]
      <4>1. SUFFICES ASSUME NEW i \in 1 .. ndbits + 1 - (txbitcnt + 1)
                     PROVE  tx_reg'[i] = w[txbitcnt + 1 + i]
        BY <3>1
      <4>2. /\ i \in 1 .. ndbits + 1 /\ i # ndbits + 1 /\ i + 1 \in 1 .. ndbits + 1 - txbitcnt
            /\ txbitcnt + (i + 1) = txbitcnt + 1 + i
        BY <1>2
      <4>3. tx_reg'[i] = tx_reg[i + 1]
        BY <3>3, <4>2
      <4>4. tx_reg[i + 1] = w[txbitcnt + (i + 1)]
        BY <3>2, <4>2, Zenon
      <4>5. QED
        BY <4>2, <4>3, <4>4, Zenon
    <3>5. QED
      BY <1>3, <3>1, <3>4, Zenon DEF Leaving
  <2>4. QED
    BY <2>2, <2>3
<1>8. CASE TxStop
  <2>1. txfsm' \in {"idle", "stop"}
    BY <1>8 DEF TxStop
  <2>2. txfsm' # "start" /\ txfsm' \notin {"edge", "shift"}
    BY <2>1
  <2>3. QED
    BY <1>3, <2>2, Zenon DEF Leaving
<1>9. QED
  BY <1>1, <1>4, <1>5, <1>6, <1>7, <1>8 DEF Transmitter

(* The word that has come in is the one that goes out.                     *)
LEMMA TakesWord ==
    ASSUME AvoidsTick, InTime, Ample, EchoInv, HeardOK, Step, rxrdyi,
           NEW w \in Word, Arriving(w)
    PROVE  Leaving(w)'
<1>1. txfsm' = "start" /\ age = Listening /\ rxfsm = "idle"
  BY Takes
<1>2. AgeOK /\ tx \in Bit /\ Listener /\ Receiver(rx)
  BY EchoFacts DEF EchoInv, Paced, Edge
<1>3. dout' = dout /\ dout = w
  <2>1. RxIdle(rx)
    BY <1>1, <1>2 DEF Receiver, RxStart, RxEdge, RxShift, RxStop
  <2>2. QED
    BY <2>1, Zenon DEF RxIdle, Arriving
<1>4. heard' = << >>
  <2>1. heard = << >> /\ ~(age > 0)
    BY <1>1 DEF HeardOK, Listening
  <2>2. ~HearsBit /\ ~HearsStop => heard' = heard
    BY <1>2, HeardStep
  <2>3. ~HearsBit /\ ~HearsStop
    BY <1>2, <2>1, HeardStep
  <2>4. QED
    BY <2>1, <2>2, <2>3
<1>5. \A i \in 1 .. Len(heard') : heard'[i] = w[i]
  <2>1. Len(heard') = 0
    BY <1>4
  <2>2. QED
    BY <2>1
<1>6. txfsm' \notin {"edge", "shift"}
  BY <1>1
<1>7. QED
  BY <1>3, <1>5, <1>6, Zenon DEF Leaving

(* The sender does one thing in a cycle.                                   *)
LEMMA SendsOnly ==
    ASSUME SenderOK, Sends, Holds \/ NextBit \/ Waits
    PROVE  FALSE
<1>1. PICK w \in Words : frame' = Line(w)
  BY DEF Sends, Line
<1>2. w \in Word
  OBVIOUS
<1>3. Len(frame') = ndbits + 3 /\ frame' # << >>
  BY <1>1, <1>2, FrameIs DEF Line
<1>4. frame = << >> \/ (Len(frame) = 1 /\ left = 1)
  BY DEF Sends
<1>5. CASE Holds
  BY <1>4, <1>5 DEF Holds
<1>6. CASE NextBit
  <2>1. frame # << >> /\ frame' = Tail(frame) /\ Len(frame) = 1
    BY <1>4, <1>6 DEF NextBit
  <2>2. Len(frame') = 0
    BY <2>1, HeadTailProperties DEF SenderOK
  <2>3. QED
    BY <1>3, <2>2
<1>7. CASE Waits
  BY <1>3, <1>7 DEF Waits, sender
<1>8. QED
  BY <1>5, <1>6, <1>7

(* A word that has been heard to the end is the word that was sent.        *)
LEMMA HeardWord ==
    ASSUME NEW w \in Word, Leaving(w), heard \in Seq(Bit), Len(heard) = ndbits + 1
    PROVE  heard = w
<1>1. w \in Seq(Bit) /\ Len(w) = ndbits + 1
  <2>1. w \in Seq(Bit) /\ DOMAIN w = 1 .. ndbits + 1
    BY SeqDef DEF Word
  <2>2. QED
    BY <2>1, LenProperties
<1>2. \A i \in 1 .. Len(heard) : heard[i] = w[i]
  BY Zenon DEF Leaving
<1>3. QED
  BY <1>1, <1>2, SeqEqual

(* Every word that is due is on its way, and the listener takes the first. *)
LEMMA WordStep ==
    ASSUME AvoidsTick, InTime, Ample, EchoInv, HeardOK, WordInv, Step
    PROVE  WordInv' /\ (HearsStop => due # << >> /\ heard = Head(due))
<1>1. SenderOK /\ AgeOK /\ tx \in Bit /\ Listener
  BY EchoFacts DEF EchoInv, Paced
<1>2. PICK a \in Word, b \in Word :
        due = Going(b) \o Coming(a) /\ (Incoming => Arriving(a)) /\ (Outgoing => Leaving(b))
  BY Zenon DEF WordInv
<1>3. /\ Outgoing => Going(b) = <<b>>
      /\ ~Outgoing => Going(b) = << >>
      /\ Incoming => Coming(a) = <<a>>
      /\ ~Incoming => Coming(a) = << >>
      /\ Outgoing' => Going(b)' = <<b>> /\ Going(a)' = <<a>>
      /\ ~Outgoing' => Going(b)' = << >>
      /\ Incoming' => \A w \in Word : Coming(w)' = <<w>>
      /\ ~Incoming' => Coming(a)' = << >>
  BY Zenon DEF Going, Coming
<1>4. /\ << >> \in Seq(Word) /\ \A w \in Word : <<w>> \in Seq(Word)
      /\ Going(b) \in Seq(Word) /\ Coming(a) \in Seq(Word) /\ Going(b)' \in Seq(Word)
  <2>1. << >> \in Seq(Word) /\ \A w \in Word : <<w>> \in Seq(Word)
    OBVIOUS
  <2>2. QED
    BY <1>3, <2>1, Zenon
<1>5. \A s \in Seq(Word) : s \o << >> = s /\ << >> \o s = s
  BY ConcatEmptySeq
<1>6. /\ Sends => ~Incoming /\ ~rxrdyi /\ rxfsm' = "idle" /\ ~rxrdyi'
      /\ ~Sends /\ ~rxrdyi => (Incoming' <=> Incoming)
      /\ rxrdyi => Incoming /\ ~Incoming' /\ ~Sends
  BY IncomingStep
<1>7. /\ HearsStop => Outgoing /\ ~Outgoing' /\ ~rxrdyi
      /\ rxrdyi => ~Outgoing /\ Outgoing'
      /\ ~rxrdyi /\ ~HearsStop => (Outgoing' <=> Outgoing)
  BY OutgoingStep
<1>8. ASSUME HearsStop
      PROVE  due # << >> /\ heard = Head(due) /\ SubSeq(due, 2, Len(due)) = Coming(a)
  <2>1. Leaving(b) /\ due = <<b>> \o Coming(a)
    BY <1>2, <1>3, <1>7, <1>8, Zenon
  <2>2. due # << >> /\ Head(due) = b /\ SubSeq(due, 2, Len(due)) = Coming(a)
    BY <1>4, <2>1, Queues, Zenon
  <2>3. heard \in Seq(Bit) /\ Len(heard) = ndbits + 1
    BY <1>1, <1>8, HeardStep DEF HeardOK
  <2>4. QED
    BY <2>1, <2>2, <2>3, HeardWord
<1> DEFINE base == IF HearsStop THEN SubSeq(due, 2, Len(due)) ELSE due
<1>9. ASSUME ~rxrdyi PROVE base = Going(b)' \o Coming(a)
  <2>1. CASE HearsStop
    <3>1. base = Coming(a)
      BY <1>8, <2>1, Zenon
    <3>2. Going(b)' = << >>
      BY <1>3, <1>7, <2>1, Zenon
    <3>3. << >> \o Coming(a) = Coming(a)
      BY <1>4, <1>5
    <3>4. QED
      BY <3>1, <3>2, <3>3, Zenon
  <2>2. CASE ~HearsStop
    <3>1. Going(b)' = Going(b)
      BY <1>3, <1>7, <1>9, <2>2, Zenon
    <3>2. QED
      BY <1>2, <2>2, <3>1, Zenon
  <2>3. QED
    BY <2>1, <2>2
<1>10. ASSUME ~rxrdyi, Outgoing' PROVE Leaving(b)'
  <2>1. ~HearsStop /\ Leaving(b)
    BY <1>2, <1>7, <1>10, Zenon
  <2>2. QED
    BY <1>10, <2>1, LeavesStep
<1>11. CASE Sends /\ Due(<<SubSeq(frame', 2, ndbits + 2)>>)
  <2>1. PICK w \in Words : frame' = Line(w)
    BY <1>11 DEF Sends, Line
  <2>2. w \in Word
    OBVIOUS
  <2>3. OnLine(w)' /\ MoreBits' /\ SubSeq(frame', 2, ndbits + 2) = w
    BY <2>1, <2>2, SendsLine
  <2>4. ~rxrdyi /\ ~Incoming /\ rxfsm' = "idle" /\ ~rxrdyi' /\ Incoming'
    BY <1>6, <1>11, <2>3, Zenon DEF Incoming
  <2>5. due' = base \o <<w>>
    BY <1>11, <2>3, Zenon DEF Due
  <2>6. base = Going(b)'
    <3>1. base = Going(b)' \o << >>
      BY <1>3, <1>9, <2>4, Zenon
    <3>2. QED
      BY <1>4, <1>5, <3>1, Zenon
  <2>7. due' = Going(b)' \o Coming(w)'
    BY <1>3, <2>2, <2>4, <2>5, <2>6, Zenon
  <2>8. Arriving(w)'
    <3>1. rxfsm' \notin {"edge", "shift"} /\ rxfsm' # "stop"
      BY <2>4
    <3>2. QED
      BY <2>3, <2>4, <3>1, Zenon DEF Arriving
  <2>9. Outgoing' => Leaving(b)'
    BY <1>10, <2>4
  <2>10. WordInv'
    BY <2>2, <2>7, <2>8, <2>9, Zenon DEF WordInv, Word, Bit
  <2>11. QED
    BY <1>8, <2>10
<1>12. CASE (Holds \/ NextBit \/ Waits) /\ Due(<< >>)
  <2>1. ~Sends
    BY <1>1, <1>12, SendsOnly
  <2>2. due' = base \o << >>
    BY <1>12, Zenon DEF Due
  <2>3. CASE ~rxrdyi
    <3>1. Incoming' <=> Incoming
      BY <1>6, <2>1, <2>3, Zenon
    <3>2. Coming(a)' = Coming(a)
      BY <3>1, Zenon DEF Coming
    <3>3. base = Going(b)' \o Coming(a)
      BY <1>9, <2>3
    <3>4. base \o << >> = base
      <4>1. base \in Seq(Word)
        BY <1>4, <3>3, ConcatProperties
      <4>2. QED
        BY <1>5, <4>1, Zenon
    <3>5. due' = Going(b)' \o Coming(a)'
      BY <2>2, <3>2, <3>3, <3>4, Zenon
    <3>6. Incoming' => Arriving(a)'
      <4>1. SUFFICES ASSUME Incoming' PROVE Arriving(a)'
        OBVIOUS
      <4>2. Arriving(a)
        BY <1>2, <3>1, <4>1, Zenon
      <4>3. QED
        BY <2>1, <2>3, <4>2, ArrivesStep
    <3>7. Outgoing' => Leaving(b)'
      BY <1>10, <2>3
    <3>8. WordInv'
      BY <3>5, <3>6, <3>7, Zenon DEF WordInv, Word, Bit
    <3>9. QED
      BY <1>8, <3>8
  <2>4. CASE rxrdyi
    <3>1. Incoming /\ ~Incoming' /\ ~Outgoing /\ Outgoing' /\ ~HearsStop
      BY <1>6, <1>7, <2>4, Zenon
    <3>2. due = <<a>>
      <4>1. due = << >> \o <<a>>
        BY <1>2, <1>3, <3>1, Zenon
      <4>2. QED
        BY <1>4, <1>5, <4>1, Zenon
    <3>3. due' = <<a>> \o << >>
      BY <2>2, <3>1, <3>2, Zenon
    <3>4. due' = Going(a)' \o Coming(a)'
      BY <1>3, <3>1, <3>3, Zenon
    <3>5. Leaving(a)'
      BY <1>2, <2>4, <3>1, TakesWord
    <3>6. WordInv'
      BY <3>1, <3>4, <3>5, Zenon DEF WordInv, Word, Bit
    <3>7. QED
      BY <1>8, <3>6
  <2>5. QED
    BY <2>3, <2>4
<1>13. QED
  BY <1>11, <1>12 DEF Step

\* The inductive invariant of the whole echo.
WholeInv == EchoInv /\ HeardOK /\ WordInv

(* The whole invariant is kept in every cycle.                             *)
LEMMA WholeStep ==
    ASSUME AvoidsTick, InTime, Ample, WholeInv, [Step]_vars
    PROVE  WholeInv'
<1>1. EchoInv /\ HeardOK /\ WordInv
  BY DEF WholeInv
<1>2. EchoInv'
  BY <1>1, EchoStep
<1>3. CASE Step
  <2>1. HeardOK'
    BY <1>1, <1>3, EchoFacts, HeardStep DEF EchoInv, Paced
  <2>2. WordInv'
    BY <1>1, <1>3, WordStep
  <2>3. QED
    BY <1>2, <2>1, <2>2 DEF WholeInv
<1>4. CASE UNCHANGED vars
  <2>1. /\ UNCHANGED <<rxfsm, rx_reg, rxbitcnt, dout, wait_a_bitrx, rxrdyi, clrdivrx>>
        /\ UNCHANGED <<txfsm, tx_reg, txbitcnt, wait_a_bit_tx, clrdivtx>>
        /\ UNCHANGED <<frame, bitLength, left, heard, age, due>>
    BY <1>4, Zenon DEF vars, moduleVars, receiver, transmitter, sender, listener
  <2>2. HeardOK'
    BY <1>1, <2>1, Zenon DEF HeardOK, Middle, Nominal, Half, D, Bit
  <2>3. PICK a \in Word, b \in Word :
          due = Going(b) \o Coming(a) /\ (Incoming => Arriving(a)) /\ (Outgoing => Leaving(b))
    BY <1>1, Zenon DEF WordInv
  <2>4. (Incoming' <=> Incoming) /\ (Outgoing' <=> Outgoing)
    BY <2>1, Zenon DEF Incoming, Outgoing, MoreBits
  <2>5. Going(b)' = Going(b) /\ Coming(a)' = Coming(a)
    BY <2>4, Zenon DEF Going, Coming
  <2>6. Arriving(a) => Arriving(a)'
    BY <2>1, Zenon DEF Arriving, OnLine, sendersBit, Line
  <2>7. Leaving(b) => Leaving(b)'
    BY <2>1, Zenon DEF Leaving
  <2>8. due' = Going(b)' \o Coming(a)'
    BY <2>1, <2>3, <2>5, Zenon
  <2>9. WordInv'
    BY <2>3, <2>4, <2>6, <2>7, <2>8, Zenon DEF WordInv, Word, Bit
  <2>10. QED
    BY <1>2, <2>2, <2>9 DEF WholeInv
<1>5. QED
  BY <1>3, <1>4

(* At first nothing is due.                                                *)
LEMMA WholeInit == Ample /\ EInit => WholeInv
<1> SUFFICES ASSUME Ample, EInit PROVE WholeInv
    OBVIOUS
<1>1. EchoInv
  BY EchoInit
<1>2. /\ rxfsm = "idle" /\ ~rxrdyi /\ ~clrdivtx /\ frame = << >>
      /\ age = Settling /\ heard = << >> /\ due = << >>
  BY Zenon DEF EInit, Init
<1>3. HeardOK
  BY <1>2, EmptySeq DEF HeardOK, Settling
<1>4. ~Incoming /\ ~Outgoing
  <2>1. ~MoreBits
    BY <1>2 DEF MoreBits
  <2>2. ~(age > 0)
    BY <1>2 DEF Settling
  <2>3. QED
    BY <1>2, <2>1, <2>2, Zenon DEF Incoming, Outgoing
<1>5. WordInv
  <2>1. Zeros \in Word
    BY DEF Zeros, Word, Bit
  <2>2. due = Going(Zeros) \o Coming(Zeros)
    <3>1. << >> \o << >> = << >>
      BY ConcatEmptySeq
    <3>2. QED
      BY <1>2, <1>4, <3>1, Zenon DEF Going, Coming
  <2>3. QED
    BY <1>4, <2>1, <2>2, Zenon DEF WordInv
<1>6. QED
  BY <1>1, <1>3, <1>5 DEF WholeInv

(* No more than two words are due, and the transmitter is free for the     *)
(* word that is ready.                                                     *)
LEMMA WholeSays == WholeInv => NothingLost /\ NoOverrun
<1> SUFFICES ASSUME WholeInv PROVE NothingLost /\ NoOverrun
    OBVIOUS
<1>1. PICK a \in Word, b \in Word : due = Going(b) \o Coming(a)
  BY Zenon DEF WholeInv, WordInv
<1>2. NothingLost
  <2>1. Going(b) \in Seq(Word) /\ Len(Going(b)) \in 0 .. 1
    <3>1. CASE Outgoing
      BY <3>1 DEF Going
    <3>2. CASE ~Outgoing
      BY <3>2 DEF Going
    <3>3. QED
      BY <3>1, <3>2
  <2>2. Coming(a) \in Seq(Word) /\ Len(Coming(a)) \in 0 .. 1
    <3>1. CASE Incoming
      BY <3>1 DEF Coming
    <3>2. CASE ~Incoming
      BY <3>2 DEF Coming
    <3>3. QED
      BY <3>1, <3>2
  <2>3. Len(due) = Len(Going(b)) + Len(Coming(a))
    BY <1>1, <2>1, <2>2, ConcatProperties
  <2>4. \A m, n \in 0 .. 1 : m + n <= 2
    OBVIOUS
  <2>5. QED
    BY <2>1, <2>2, <2>3, <2>4, Zenon DEF NothingLost
<1>3. NoOverrun
  BY Zenon DEF WholeInv, EchoInv, Paced, Ready, NoOverrun
<1>4. QED
  BY <1>2, <1>3

(* With a sender in time whose start bits do not meet the receiver's tick, *)
(* and dividers that are not too short, every word is echoed: whole, in    *)
(* order, none left out and none overrun.                                  *)
THEOREM EchoComplete ==
    ASSUME AvoidsTick, InTime, Ample PROVE Spec => WordsEchoed
<1> DEFINE Hears == HearsStop => due # << >> /\ heard = Head(due)
<1>1. WholeInv /\ [Step]_vars => [Hears]_vars
  BY WordStep DEF WholeInv
<1> HIDE DEF Hears
<1>2. WholeInv /\ [Step]_vars => WholeInv'
  BY WholeStep
<1>3. EInit => WholeInv
  BY WholeInit
<1>4. WholeInv => NothingLost /\ NoOverrun
  BY WholeSays
<1>5. Spec => [][Hears]_vars /\ [](NothingLost /\ NoOverrun)
  BY <1>1, <1>2, <1>3, <1>4, PTL DEF Spec
<1>6. QED
  BY <1>5 DEF WordsEchoed, EchoesWords, Hears
================================================================================
