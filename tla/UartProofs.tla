-------------------------------- MODULE UartProofs --------------------------------
(***************************************************************************)
(* The parts of the UART.  For every divisor of the baud generators, every *)
(* drift between the two clocks up to three and a half ticks in a frame,   *)
(* and every frame of up to eight bits: the receiver keeps in step with    *)
(* the transmitter, and the link is a channel that loses, repeats or       *)
(* changes no word.                                                        *)
(*                                                                         *)
(* For every depth above one and every set of words: the FIFO keeps its    *)
(* types, under the counting client its pointers stay count registers      *)
(* apart and it implements a bounded queue of Depth - 1 words, and a       *)
(* client who goes by the status flags never has a word overwritten        *)
(* unread.                                                                 *)
(***************************************************************************)
EXTENDS UartLink, FifoUse, SequenceTheorems, TLAPS

USE MAssumption, FrameAssumption, MaxDriftAssumption

-----------------------------------------------------------------------------
(* Types. *)

States == {"idle", "start", "data", "stop"}
Buffers == [1 .. Width -> Bit]

Types ==
    /\ txState \in States /\ rxState \in States
    /\ txS \in 0 .. 15 /\ rxS \in 0 .. 15
    /\ txN \in 0 .. 7 /\ rxN \in 0 .. 7
    /\ txB \in Buffers /\ rxB \in Buffers
    /\ line \in Bit
    /\ txCount \in 0 .. M - 1 /\ rxCount \in 0 .. M - 1
    /\ lead \in -MaxDrift .. MaxDrift
    /\ sent \in Seq(Words) /\ rcvd \in Seq(Words)

(* A shift drops the first bit and adds one behind the last.               *)
LEMMA ShiftIs ==
    ASSUME NEW b \in Buffers, NEW bit \in Bit
    PROVE  /\ Append(Tail(b), bit) \in Buffers
           /\ \A i \in 1 .. Width : Append(Tail(b), bit)[i] = IF i = Width THEN bit ELSE b[i + 1]
<1>1. Width \in Nat /\ Width >= 1
  OBVIOUS
<1>2. b \in Seq(Bit) /\ Len(b) = Width /\ b # << >>
  <2>1. b \in Seq(Bit) /\ DOMAIN b = 1 .. Width
    BY <1>1, SeqDef DEF Buffers
  <2>2. Len(b) \in Nat /\ DOMAIN b = 1 .. Len(b)
    BY <2>1, LenProperties
  <2>3. QED
    BY <1>1, <2>1, <2>2, EmptySeq
<1>3. /\ Tail(b) \in Seq(Bit) /\ Len(Tail(b)) = Width - 1
      /\ \A i \in 1 .. Width - 1 : Tail(b)[i] = b[i + 1]
  BY <1>2, HeadTailProperties
<1>4. /\ Append(Tail(b), bit) \in Seq(Bit) /\ Len(Append(Tail(b), bit)) = Width - 1 + 1
      /\ Append(Tail(b), bit)[Width - 1 + 1] = bit
      /\ \A i \in 1 .. Width - 1 : Append(Tail(b), bit)[i] = Tail(b)[i]
  BY <1>3, AppendProperties
<1>5. Width - 1 + 1 = Width
  BY <1>1
<1>6. Append(Tail(b), bit) \in Buffers
  BY <1>4, <1>5, LenProperties DEF Buffers
<1>7. QED
  BY <1>1, <1>3, <1>4, <1>5, <1>6

(* The received word is the upper bits of the shift register.              *)
LEMMA DoutIs ==
    ASSUME rxB \in Buffers
    PROVE  Rx!dout \in Words /\ \A i \in 1 .. DBIT : Rx!dout[i] = rxB[Width - DBIT + i]
<1> DEFINE low == Width - DBIT + 1
<1>1. low \in Int /\ Width \in Int /\ \A i \in low .. Width : rxB[i] \in Bit
  BY DEF Buffers
<1>2. /\ SubSeq(rxB, low, Width) \in Seq(Bit)
      /\ Len(SubSeq(rxB, low, Width)) = IF low <= Width THEN Width - low + 1 ELSE 0
      /\ \A i \in 1 .. Width - low + 1 : SubSeq(rxB, low, Width)[i] = rxB[low + i - 1]
  <2> HIDE DEF low
  <2>1. QED
    BY <1>1, SubSeqProperties
<1>3. low <= Width /\ Width - low + 1 = DBIT /\ \A i \in 1 .. DBIT : low + i - 1 = Width - DBIT + i
  OBVIOUS
<1>4. Rx!dout = SubSeq(rxB, low, Width)
  BY DEF Rx!dout
<1> HIDE DEF low
<1>5. Len(Rx!dout) = DBIT /\ \A i \in 1 .. DBIT : Rx!dout[i] = rxB[Width - DBIT + i]
  BY <1>2, <1>3, <1>4
<1>6. Rx!dout \in Words
  BY <1>2, <1>4, <1>5, LenProperties DEF Words
<1>7. QED
  BY <1>5, <1>6

(* The baud generators.                                                    *)
LEMMA BaudIs ==
    ASSUME Types
    PROVE  /\ TxBaud!Edge => txCount' = (IF txCount = M - 1 THEN 0 ELSE txCount + 1) /\ txCount' \in 0 .. M - 1
           /\ RxBaud!Edge => rxCount' = (IF rxCount = M - 1 THEN 0 ELSE rxCount + 1) /\ rxCount' \in 0 .. M - 1
           /\ TxBaud!max_tick <=> txCount = M - 1
           /\ RxBaud!max_tick <=> rxCount = M - 1
BY DEF Types, TxBaud!Edge, RxBaud!Edge, TxBaud!max_tick, RxBaud!max_tick

(* An edge of the transmitter keeps its registers in range.                *)
LEMMA TxTypes ==
    ASSUME Types, NEW tick \in BOOLEAN, NEW start \in BOOLEAN, NEW din \in Buffers,
           Tx!Edge(tick, start, din)
    PROVE  txState' \in States /\ txS' \in 0 .. 15 /\ txN' \in 0 .. 7 /\ txB' \in Buffers /\ line' \in Bit
<1>1. /\ txState \in States /\ txS \in 0 .. 15 /\ txN \in 0 .. 7 /\ txB \in Buffers /\ line \in Bit
      /\ Append(Tail(txB), 0) \in Buffers /\ txB[1] \in Bit
  <2>1. txB \in Buffers /\ 0 \in Bit /\ 1 \in 1 .. Width
    BY DEF Types, Bit
  <2>2. txB[1] \in Bit
    BY <2>1 DEF Buffers
  <2>3. QED
    BY <2>1, <2>2, ShiftIs DEF Types
<1>2. Tx!Inc(txS) \in 0 .. 15 /\ (txN + 1) % 8 \in 0 .. 7
  BY <1>1 DEF Tx!Inc
<1>3. CASE Tx!Idle(start, din)
  BY <1>1, <1>3 DEF Tx!Idle, States, Bit
<1>4. CASE Tx!Start(tick)
  BY <1>1, <1>2, <1>4 DEF Tx!Start, States, Bit
<1>5. CASE Tx!Data(tick)
  <2>1. txState' = txState \/ txState' = "stop"
    BY <1>5 DEF Tx!Data
  <2>2. txS' = 0 \/ txS' = txS \/ txS' = Tx!Inc(txS)
    BY <1>5 DEF Tx!Data
  <2>3. txN' = txN \/ txN' = (txN + 1) % 8
    BY <1>5 DEF Tx!Data
  <2>4. (txB' = txB \/ txB' = Append(Tail(txB), 0)) /\ line' = txB[1]
    BY <1>5 DEF Tx!Data
  <2>5. txS' \in 0 .. 15
    BY <1>1, <1>2, <2>2
  <2>6. txN' \in 0 .. 7
    BY <1>1, <1>2, <2>3
  <2>7. txB' \in Buffers /\ line' \in Bit
    BY <1>1, <2>4
  <2>8. QED
    BY <1>1, <2>1, <2>5, <2>6, <2>7 DEF States
<1>6. CASE Tx!Stop(tick)
  BY <1>1, <1>2, <1>6 DEF Tx!Stop, States, Bit
<1>7. QED
  BY <1>3, <1>4, <1>5, <1>6 DEF Tx!Edge

(* An edge of the receiver keeps its registers in range.                   *)
LEMMA RxTypes ==
    ASSUME Types, NEW tick \in BOOLEAN, Rx!Edge(tick, line)
    PROVE  rxState' \in States /\ rxS' \in 0 .. 15 /\ rxN' \in 0 .. 7 /\ rxB' \in Buffers
<1>1. /\ rxState \in States /\ rxS \in 0 .. 15 /\ rxN \in 0 .. 7 /\ rxB \in Buffers /\ line \in Bit
      /\ Append(Tail(rxB), line) \in Buffers
  BY ShiftIs DEF Types, Bit
<1>2. Rx!Inc(rxS) \in 0 .. 15 /\ (rxN + 1) % 8 \in 0 .. 7
  BY <1>1 DEF Rx!Inc
<1>3. [i \in 1 .. Width |-> line] \in Buffers
  BY <1>1 DEF Buffers
<1>4. CASE Rx!Idle(line)
  BY <1>1, <1>4 DEF Rx!Idle, States
<1>5. CASE Rx!Start(tick)
  BY <1>1, <1>2, <1>5 DEF Rx!Start, States
<1>6. CASE Rx!Data(tick, line)
  <2>1. rxState' = rxState \/ rxState' = "stop"
    BY <1>6 DEF Rx!Data
  <2>2. rxS' = 0 \/ rxS' = rxS \/ rxS' = Rx!Inc(rxS)
    BY <1>6 DEF Rx!Data
  <2>3. rxN' = rxN \/ rxN' = (rxN + 1) % 8
    BY <1>6 DEF Rx!Data
  <2>4. rxB' = rxB \/ rxB' = Append(Tail(rxB), line) \/ rxB' = [i \in 1 .. Width |-> line]
    BY <1>6 DEF Rx!Data, Rx!ShiftIn, Rx!ShiftThrough
  <2>5. rxS' \in 0 .. 15
    BY <1>1, <1>2, <2>2
  <2>6. rxN' \in 0 .. 7
    BY <1>1, <1>2, <2>3
  <2>7. rxB' \in Buffers
    BY <1>1, <1>3, <2>4
  <2>8. QED
    BY <1>1, <2>1, <2>5, <2>6, <2>7 DEF States
<1>7. CASE Rx!Stop(tick)
  BY <1>1, <1>2, <1>7 DEF Rx!Stop, Rx!rx_done_tick, States
<1>8. QED
  BY <1>4, <1>5, <1>6, <1>7 DEF Rx!Edge

(* Every step keeps the types.                                             *)
LEMMA TypeStep == Types /\ [Next]_vars => Types'
<1> SUFFICES ASSUME Types, [Next]_vars PROVE Types'
  OBVIOUS
<1>1. (txCount = M - 1) \in BOOLEAN /\ TxBaud!max_tick \in BOOLEAN /\ RxBaud!max_tick \in BOOLEAN
  BY DEF TxBaud!max_tick, RxBaud!max_tick
<1>2. ASSUME NEW w \in Words, TxTakes(w) PROVE Types'
  <2>1. Din(w) \in Buffers
    BY DEF Din, Words, Buffers, Bit
  <2>2. txState' \in States /\ txS' \in 0 .. 15 /\ txN' \in 0 .. 7 /\ txB' \in Buffers /\ line' \in Bit
    BY <1>1, <1>2, <2>1, TxTypes DEF TxTakes
  <2>3. lead' = 0 /\ txCount' \in 0 .. M - 1 /\ UNCHANGED <<rxState, rxS, rxN, rxB, rxCount, rcvd>>
    BY <1>2, BaudIs DEF TxTakes, Drift, rxVars
  <2>4. sent' \in Seq(Words)
    BY <1>2, AppendProperties DEF Types, TxTakes
  <2>5. QED
    BY <2>2, <2>3, <2>4 DEF Types, Words, Buffers, Bit, States
<1>3. CASE TxRuns
  <2>1. txState' \in States /\ txS' \in 0 .. 15 /\ txN' \in 0 .. 7 /\ txB' \in Buffers /\ line' \in Bit
    <3>1. txB \in Buffers
      BY DEF Types
    <3>2. QED
      BY <1>1, <1>3, <3>1, TxTypes DEF TxRuns
  <2>2. lead' \in -MaxDrift .. MaxDrift
    BY <1>3 DEF TxRuns, Drift, Types
  <2>3. txCount' \in 0 .. M - 1 /\ UNCHANGED <<rxState, rxS, rxN, rxB, rxCount, sent, rcvd>>
    BY <1>3, BaudIs DEF TxRuns, rxVars
  <2>4. QED
    BY <2>1, <2>2, <2>3 DEF Types, Words, Buffers, Bit, States
<1>4. CASE RxRuns
  <2>1. rxState' \in States /\ rxS' \in 0 .. 15 /\ rxN' \in 0 .. 7 /\ rxB' \in Buffers
    BY <1>1, <1>4, RxTypes DEF RxRuns
  <2>2. lead' \in -MaxDrift .. MaxDrift
    BY <1>4 DEF RxRuns, Types
  <2>3. rxCount' \in 0 .. M - 1 /\ UNCHANGED <<txState, txS, txN, txB, line, txCount, sent>>
    BY <1>4, BaudIs DEF RxRuns, txVars
  <2>4. rcvd' \in Seq(Words)
    <3>1. Rx!dout \in Words /\ rcvd \in Seq(Words)
      BY DoutIs DEF Types
    <3>2. rcvd' = rcvd \/ rcvd' = Append(rcvd, Rx!dout)
      BY <1>4 DEF RxRuns
    <3>3. QED
      BY <3>1, <3>2, AppendProperties
  <2>5. QED
    BY <2>1, <2>2, <2>3, <2>4 DEF Types, Words, Buffers, Bit, States
<1>5. CASE Reset
  <2>1. [i \in 1 .. Width |-> 0] \in Buffers
    BY DEF Buffers, Bit
  <2>2. QED
    BY <1>5, <2>1, EmptySeq
       DEF Reset, Tx!Reset, Rx!Reset, TxBaud!Reset, RxBaud!Reset, Types, States, Bit, Words, Buffers
<1>6. CASE UNCHANGED vars
  BY <1>6 DEF vars, txVars, rxVars, Types, Words, Buffers, Bit, States
<1>7. QED
  BY <1>2, <1>3, <1>4, <1>5, <1>6 DEF Next

(* The types hold after a reset.                                           *)
LEMMA TypeInit == Init => Types
<1>1. [i \in 1 .. Width |-> 0] \in Buffers
  BY DEF Buffers, Bit
<1>2. QED
  BY <1>1, EmptySeq
     DEF Init, Tx!Init, Rx!Init, TxBaud!Init, RxBaud!Init, Types, States, Bit

(* However the two clocks drift, both ends keep their counters in range    *)
(* and announce words only.                                                *)
THEOREM TypeCorrect == Spec => []TypeOK
<1>1. Types => TypeOK
  BY DEF Types, TypeOK, States, Buffers
<1>2. QED
  BY <1>1, TypeInit, TypeStep, PTL DEF Spec

-----------------------------------------------------------------------------
(* The two ends in time.  Ticks count from the beginning of the start bit, *)
(* and at the receiver from the edge it saw: the first sample is due in    *)
(* the middle of the first data bit, eight ticks after its beginning.      *)

TxTicks == IF txState = "start" THEN txS
           ELSE IF txState = "data" THEN 16 + 16 * txN + txS
           ELSE 16 + 16 * DBIT + txS

RxTicks == IF rxState = "start" THEN rxS
           ELSE IF rxState = "data" THEN 8 + 16 * rxN + rxS
           ELSE 8 + 16 * DBIT + rxS

Gap == TxTicks - RxTicks

\* One stop bit, and at most three and a half ticks of drift in a frame.
WithinDrift == SB_TICK = 16 /\ 2 * MaxDrift <= 7 * M

Counters ==
    /\ txState = "data" => txN < DBIT
    /\ rxState = "data" => rxN < DBIT
    /\ rxState = "start" => rxS <= 7

\* What the transmitter puts on the line with its next edge.
Level == IF txState = "start" THEN 0 ELSE IF txState = "data" THEN txB[1] ELSE 1

\* An edge of the transmitter within a bit ...
TxCounts ==
    /\ UNCHANGED <<txState, txN, txB>> /\ txS' \in {txS, txS + 1}

\* ... and one that turns to the next bit.
TxTurns ==
    /\ txS' = 0
    /\ \/ txState = "start" /\ txState' = "data" /\ txN' = 0 /\ txB' = txB
       \/ /\ txState = "data" /\ txState' = "data" /\ txN < DBIT - 1 /\ txN' = txN + 1
          /\ txB' = Append(Tail(txB), 0)
       \/ txState = "data" /\ txState' = "stop" /\ txN = DBIT - 1

TxMoves ==
    /\ txState # "idle" /\ line' = Level /\ lead' = lead + 1
    /\ M * TxTicks' + txCount' = M * TxTicks + txCount + 1
    /\ TxCounts \/ TxTurns

TxEnds ==
    /\ txState = "stop" /\ txState' = "idle" /\ txS = 15 /\ txCount = M - 1
    /\ line' = 1 /\ lead' = lead + 1

TxRests == txState = "idle" /\ txState' = "idle" /\ line' = 1 /\ lead' = 0

RxCounts ==
    /\ UNCHANGED <<rxState, rxN, rxB>> /\ rxS' \in {rxS, rxS + 1} /\ (rxState = "start" => rxS' <= 7)

RxOpens == rxState = "start" /\ rxState' = "data" /\ rxS' = 0 /\ rxN' = 0 /\ rxB' = rxB

RxSamples ==
    /\ rxState = "data" /\ rxS = 15 /\ rxS' = 0
    /\ ~ReadsNext => rxB' = Append(Tail(rxB), line)
    /\ \/ rxN = DBIT - 1 /\ rxState' = "stop" /\ rxN' = rxN
       \/ rxN < DBIT - 1 /\ rxState' = "data" /\ rxN' = rxN + 1

RxMoves ==
    /\ rxState # "idle" /\ rcvd' = rcvd
    /\ M * RxTicks' + rxCount' = M * RxTicks + rxCount + 1
    /\ RxCounts \/ RxOpens \/ RxSamples

RxEnds ==
    /\ rxState = "stop" /\ rxState' = "idle" /\ rxS = 15 /\ rxCount = M - 1
    /\ rcvd' = Append(rcvd, Rx!dout)

RxStarts ==
    /\ rxState = "idle" /\ line = 0
    /\ rxState' = "start" /\ rxS' = 0 /\ UNCHANGED <<rxN, rxB, rcvd>>

RxRests == rxState = "idle" /\ line = 1 /\ UNCHANGED <<rxState, rxS, rxN, rxB, rcvd>>

(* One tick more is M edges more.                                          *)
LEMMA OneTick ==
    ASSUME NEW k \in Int
    PROVE  M * k \in Int /\ M * (k + 1) = M * k + M
OBVIOUS

(* Products with the same M compare as their factors.                      *)
LEMMA Compare ==
    ASSUME NEW a \in Int, NEW b \in Int, a <= b
    PROVE  M * a <= M * b
<1>1. M * (b - a) >= 0 /\ M * b = M * a + M * (b - a)
  OBVIOUS
<1>2. M * a \in Int /\ M * (b - a) \in Int
  OBVIOUS
<1>3. QED
  BY <1>1, <1>2

(* An edge of the transmitter is one of these.                             *)
LEMMA TxRunsIs ==
    ASSUME Types, Counters, SB_TICK = 16, TxRuns
    PROVE  /\ TxMoves \/ TxEnds \/ TxRests
           /\ lead < MaxDrift /\ UNCHANGED <<rxState, rxS, rxN, rxB, rxCount, sent, rcvd>>
<1>1. /\ Tx!Edge(TxBaud!max_tick, FALSE, txB) /\ TxBaud!Edge /\ Drift /\ lead < MaxDrift
      /\ UNCHANGED <<rxState, rxS, rxN, rxB, rxCount, sent, rcvd>>
  BY DEF TxRuns, rxVars
<1>2. /\ txState \in States /\ txS \in 0 .. 15 /\ txN \in 0 .. 7 /\ txCount \in 0 .. M - 1 /\ M \in Nat
      /\ DBIT \in 1 .. 8 /\ (txState = "data" => txN < DBIT)
  BY DEF Types, Counters
<1>3. /\ txCount' = IF txCount = M - 1 THEN 0 ELSE txCount + 1
      /\ TxBaud!max_tick <=> txCount = M - 1
  BY <1>1, BaudIs
<1>4. TxTicks \in Nat
  BY <1>2 DEF TxTicks
\* The tick that goes with the edge, if any, is counted.
<1>5. ASSUME txState # "idle", TxTicks' = IF txCount = M - 1 THEN TxTicks + 1 ELSE TxTicks
      PROVE  M * TxTicks' + txCount' = M * TxTicks + txCount + 1
  <2>1. M * TxTicks \in Int /\ M * (TxTicks + 1) = M * TxTicks + M
    BY <1>4, OneTick
  <2>2. CASE txCount = M - 1
    BY <1>2, <1>3, <1>5, <2>1, <2>2
  <2>3. CASE txCount # M - 1
    BY <1>2, <1>3, <1>5, <2>1, <2>3
  <2>4. QED
    BY <2>2, <2>3
<1>6. txS # 15 => Tx!Inc(txS) = txS + 1
  BY <1>2 DEF Tx!Inc
<1>7. CASE txState = "idle"
  BY <1>1, <1>7 DEF Tx!Edge, Tx!Idle, Tx!Start, Tx!Data, Tx!Stop, Drift, TxRests
<1>8. CASE txState # "idle"
  <2>1. lead' = lead + 1
    BY <1>1, <1>8 DEF Drift
  <2>2. CASE txState = "start"
    <3>1. Tx!Start(TxBaud!max_tick)
      BY <1>1, <2>2 DEF Tx!Edge, Tx!Idle, Tx!Data, Tx!Stop
    <3>2. line' = Level /\ txB' = txB
      BY <2>2, <3>1 DEF Tx!Start, Level
    <3>3. CASE txCount = M - 1 /\ txS = 15
      <4>1. txState' = "data" /\ txS' = 0 /\ txN' = 0
        BY <1>3, <3>1, <3>3 DEF Tx!Start
      <4>2. TxTicks' = TxTicks + 1
        BY <2>2, <3>3, <4>1 DEF TxTicks
      <4>3. TxTurns
        BY <2>2, <3>2, <4>1 DEF TxTurns
      <4>4. QED
        BY <1>1, <1>5, <1>8, <2>1, <3>2, <3>3, <4>2, <4>3 DEF TxMoves
    <3>4. CASE ~(txCount = M - 1 /\ txS = 15)
      <4>1. txState' = txState /\ txN' = txN /\ txS' = IF txCount = M - 1 THEN txS + 1 ELSE txS
        BY <1>3, <1>6, <3>1, <3>4 DEF Tx!Start
      <4>2. TxTicks' = IF txCount = M - 1 THEN TxTicks + 1 ELSE TxTicks
        BY <2>2, <4>1 DEF TxTicks
      <4>3. TxCounts
        BY <3>2, <4>1 DEF TxCounts
      <4>4. QED
        BY <1>1, <1>5, <1>8, <2>1, <3>2, <4>2, <4>3 DEF TxMoves
    <3>5. QED
      BY <3>3, <3>4
  <2>3. CASE txState = "data"
    <3>1. Tx!Data(TxBaud!max_tick)
      BY <1>1, <2>3 DEF Tx!Edge, Tx!Idle, Tx!Start, Tx!Stop
    <3>2. line' = Level
      BY <2>3, <3>1 DEF Tx!Data, Level
    <3>3. CASE txCount = M - 1 /\ txS = 15
      <4>1. /\ txS' = 0 /\ txB' = Append(Tail(txB), 0)
            /\ IF txN = DBIT - 1 THEN txState' = "stop" /\ txN' = txN
               ELSE txN' = (txN + 1) % 8 /\ txState' = txState
        BY <1>3, <3>1, <3>3 DEF Tx!Data
      <4>2. txN < DBIT - 1 => (txN + 1) % 8 = txN + 1
        BY <1>2
      <4>3. TxTurns
        BY <1>2, <2>3, <4>1, <4>2 DEF TxTurns
      <4>4. TxTicks' = TxTicks + 1
        BY <1>2, <2>3, <3>3, <4>1, <4>2 DEF TxTicks
      <4>5. QED
        BY <1>1, <1>5, <1>8, <2>1, <3>2, <3>3, <4>3, <4>4 DEF TxMoves
    <3>4. CASE ~(txCount = M - 1 /\ txS = 15)
      <4>1. /\ txState' = txState /\ txN' = txN /\ txB' = txB
            /\ txS' = IF txCount = M - 1 THEN txS + 1 ELSE txS
        BY <1>3, <1>6, <3>1, <3>4 DEF Tx!Data
      <4>2. TxTicks' = IF txCount = M - 1 THEN TxTicks + 1 ELSE TxTicks
        BY <1>2, <2>3, <4>1 DEF TxTicks
      <4>3. TxCounts
        BY <4>1 DEF TxCounts
      <4>4. QED
        BY <1>1, <1>5, <1>8, <2>1, <3>2, <4>2, <4>3 DEF TxMoves
    <3>5. QED
      BY <3>3, <3>4
  <2>4. CASE txState = "stop"
    <3>1. Tx!Stop(TxBaud!max_tick)
      BY <1>1, <2>4 DEF Tx!Edge, Tx!Idle, Tx!Start, Tx!Data
    <3>2. line' = 1 /\ txN' = txN /\ txB' = txB /\ SB_TICK - 1 = 15
      BY <3>1 DEF Tx!Stop
    <3>3. CASE txCount = M - 1 /\ txS = 15
      <4>1. txState' = "idle"
        BY <1>3, <3>1, <3>2, <3>3 DEF Tx!Stop, Tx!tx_done_tick
      <4>2. QED
        BY <1>1, <2>1, <2>4, <3>2, <3>3, <4>1 DEF TxEnds
    <3>4. CASE ~(txCount = M - 1 /\ txS = 15)
      <4>1. txState' = txState /\ txS' = IF txCount = M - 1 THEN txS + 1 ELSE txS
        BY <1>3, <1>6, <3>1, <3>2, <3>4 DEF Tx!Stop, Tx!tx_done_tick
      <4>2. TxTicks' = IF txCount = M - 1 THEN TxTicks + 1 ELSE TxTicks
        BY <1>2, <2>4, <4>1 DEF TxTicks
      <4>3. TxCounts /\ line' = Level
        BY <2>4, <3>2, <4>1 DEF TxCounts, Level
      <4>4. QED
        BY <1>1, <1>5, <1>8, <2>1, <4>2, <4>3 DEF TxMoves
    <3>5. QED
      BY <3>3, <3>4
  <2>5. QED
    BY <1>2, <1>8, <2>2, <2>3, <2>4 DEF States
<1>9. QED
  BY <1>7, <1>8

(* An edge of the receiver is one of these.                                *)
LEMMA RxRunsIs ==
    ASSUME Types, Counters, SB_TICK = 16, RxRuns
    PROVE  /\ RxMoves \/ RxEnds \/ RxStarts \/ RxRests
           /\ lead > -MaxDrift /\ lead' = (IF txState = "idle" THEN 0 ELSE lead - 1)
           /\ rxCount' \in 0 .. M - 1
           /\ UNCHANGED <<txState, txS, txN, txB, line, txCount, sent>>
<1>1. /\ Rx!Edge(RxBaud!max_tick, line) /\ RxBaud!Edge
      /\ lead > -MaxDrift /\ lead' = (IF txState = "idle" THEN 0 ELSE lead - 1)
      /\ UNCHANGED <<txState, txS, txN, txB, line, txCount, sent>>
      /\ rcvd' = IF Rx!rx_done_tick(RxBaud!max_tick) THEN Append(rcvd, Rx!dout) ELSE rcvd
  BY DEF RxRuns, txVars
<1>2. /\ rxState \in States /\ rxS \in 0 .. 15 /\ rxN \in 0 .. 7 /\ rxCount \in 0 .. M - 1 /\ M \in Nat
      /\ DBIT \in 1 .. 8 /\ (rxState = "data" => rxN < DBIT) /\ (rxState = "start" => rxS <= 7)
      /\ line \in {0, 1}
  BY DEF Types, Counters, Bit
<1>3. /\ rxCount' = IF rxCount = M - 1 THEN 0 ELSE rxCount + 1
      /\ rxCount' \in 0 .. M - 1
      /\ RxBaud!max_tick <=> rxCount = M - 1
  BY <1>1, BaudIs
<1>4. RxTicks \in Nat
  BY <1>2 DEF RxTicks
<1>5. ASSUME RxTicks' = IF rxCount = M - 1 THEN RxTicks + 1 ELSE RxTicks
      PROVE  M * RxTicks' + rxCount' = M * RxTicks + rxCount + 1
  <2>1. M * RxTicks \in Int /\ M * (RxTicks + 1) = M * RxTicks + M
    BY <1>4, OneTick
  <2>2. CASE rxCount = M - 1
    BY <1>2, <1>3, <1>5, <2>1, <2>2
  <2>3. CASE rxCount # M - 1
    BY <1>2, <1>3, <1>5, <2>1, <2>3
  <2>4. QED
    BY <2>2, <2>3
<1>6. rxS # 15 => Rx!Inc(rxS) = rxS + 1
  BY <1>2 DEF Rx!Inc
<1>7. rxState # "stop" => rcvd' = rcvd
  BY <1>1 DEF Rx!rx_done_tick
<1>8. CASE rxState = "idle"
  <2>1. Rx!Idle(line)
    BY <1>1, <1>8 DEF Rx!Edge, Rx!Start, Rx!Data, Rx!Stop
  <2>2. RxStarts \/ RxRests
    BY <1>7, <1>8, <2>1 DEF Rx!Idle, RxStarts, RxRests
  <2>3. QED
    BY <1>1, <1>3, <2>2
<1>9. CASE rxState = "start"
  <2>1. Rx!Start(RxBaud!max_tick) /\ rcvd' = rcvd
    BY <1>1, <1>7, <1>9 DEF Rx!Edge, Rx!Idle, Rx!Data, Rx!Stop
  <2>2. CASE rxCount = M - 1 /\ rxS = 7
    <3>1. rxState' = "data" /\ rxS' = 0 /\ rxN' = 0 /\ rxB' = rxB
      BY <1>3, <2>1, <2>2 DEF Rx!Start
    <3>2. RxTicks' = RxTicks + 1 /\ RxOpens
      BY <1>9, <2>2, <3>1 DEF RxTicks, RxOpens
    <3>3. QED
      BY <1>1, <1>3, <1>5, <1>9, <2>1, <2>2, <3>2 DEF RxMoves
  <2>3. CASE ~(rxCount = M - 1 /\ rxS = 7)
    <3>1. rxState' = rxState /\ rxN' = rxN /\ rxB' = rxB /\ rxS' = IF rxCount = M - 1 THEN rxS + 1 ELSE rxS
      BY <1>2, <1>3, <1>6, <1>9, <2>1, <2>3 DEF Rx!Start
    <3>2. RxTicks' = IF rxCount = M - 1 THEN RxTicks + 1 ELSE RxTicks
      BY <1>9, <3>1 DEF RxTicks
    <3>3. RxCounts
      BY <1>2, <1>9, <2>3, <3>1 DEF RxCounts
    <3>4. QED
      BY <1>1, <1>3, <1>5, <1>9, <2>1, <3>2, <3>3 DEF RxMoves
  <2>4. QED
    BY <2>2, <2>3
<1>10. CASE rxState = "data"
  <2>1. Rx!Data(RxBaud!max_tick, line) /\ rcvd' = rcvd
    BY <1>1, <1>7, <1>10 DEF Rx!Edge, Rx!Idle, Rx!Start, Rx!Stop
  <2>2. CASE rxCount = M - 1 /\ rxS = 15
    <3>1. /\ rxS' = 0 /\ rxB' = IF ReadsNext THEN Rx!ShiftThrough(line) ELSE Rx!ShiftIn(line)
          /\ IF rxN = DBIT - 1 THEN rxState' = "stop" /\ rxN' = rxN
             ELSE rxN' = (rxN + 1) % 8 /\ rxState' = rxState
      BY <1>3, <2>1, <2>2 DEF Rx!Data
    <3>2. rxN < DBIT - 1 => (rxN + 1) % 8 = rxN + 1
      BY <1>2
    <3>3. ~ReadsNext => rxB' = Append(Tail(rxB), line)
      BY <3>1 DEF Rx!ShiftIn
    <3>4. RxSamples
      BY <1>2, <1>10, <2>2, <3>1, <3>2, <3>3 DEF RxSamples
    <3>5. RxTicks' = RxTicks + 1
      BY <1>2, <1>10, <2>2, <3>1, <3>2 DEF RxTicks
    <3>6. QED
      BY <1>1, <1>3, <1>5, <1>10, <2>1, <2>2, <3>4, <3>5 DEF RxMoves
  <2>3. CASE ~(rxCount = M - 1 /\ rxS = 15)
    <3>1. rxState' = rxState /\ rxN' = rxN /\ rxB' = rxB /\ rxS' = IF rxCount = M - 1 THEN rxS + 1 ELSE rxS
      BY <1>3, <1>6, <2>1, <2>3 DEF Rx!Data
    <3>2. RxTicks' = IF rxCount = M - 1 THEN RxTicks + 1 ELSE RxTicks
      BY <1>2, <1>10, <3>1 DEF RxTicks
    <3>3. RxCounts
      BY <1>10, <3>1 DEF RxCounts
    <3>4. QED
      BY <1>1, <1>3, <1>5, <1>10, <2>1, <3>2, <3>3 DEF RxMoves
  <2>4. QED
    BY <2>2, <2>3
<1>11. CASE rxState = "stop"
  <2>1. Rx!Stop(RxBaud!max_tick) /\ SB_TICK - 1 = 15
    BY <1>1, <1>11 DEF Rx!Edge, Rx!Idle, Rx!Start, Rx!Data
  <2>2. Rx!rx_done_tick(RxBaud!max_tick) <=> rxCount = M - 1 /\ rxS = 15
    BY <1>3, <1>11, <2>1 DEF Rx!rx_done_tick
  <2>3. CASE rxCount = M - 1 /\ rxS = 15
    <3>1. rxState' = "idle" /\ rcvd' = Append(rcvd, Rx!dout)
      BY <1>1, <1>3, <2>1, <2>2, <2>3 DEF Rx!Stop
    <3>2. RxEnds
      BY <1>11, <2>3, <3>1 DEF RxEnds
    <3>3. QED
      BY <1>1, <1>3, <3>2
  <2>4. CASE ~(rxCount = M - 1 /\ rxS = 15)
    <3>1. /\ rxState' = rxState /\ rxN' = rxN /\ rxB' = rxB /\ rcvd' = rcvd
          /\ rxS' = IF rxCount = M - 1 THEN rxS + 1 ELSE rxS
      BY <1>1, <1>3, <1>6, <2>1, <2>2, <2>4 DEF Rx!Stop
    <3>2. RxTicks' = IF rxCount = M - 1 THEN RxTicks + 1 ELSE RxTicks
      BY <1>2, <1>11, <3>1 DEF RxTicks
    <3>3. RxCounts
      BY <1>11, <3>1 DEF RxCounts
    <3>4. QED
      BY <1>1, <1>3, <1>5, <1>11, <3>1, <3>2, <3>3 DEF RxMoves
  <2>5. QED
    BY <2>3, <2>4
<1>12. QED
  BY <1>2, <1>8, <1>9, <1>10, <1>11 DEF States

-----------------------------------------------------------------------------
(* In step. *)

\* How far the two ends are apart in edges, but for what the clocks have drifted
\* since the frame began: this is settled when the receiver sees the start bit.
Skew == M * Gap + txCount - rxCount - lead

\* The receiver is idle between frames, for the beginning of the start bit, and
\* for the end of the stop bit.
Phases ==
    /\ rxState # "idle" => txState # "idle"
    /\ rxState = "idle" => txState # "data"
    /\ txState = "stop" /\ rxState = "idle" => txS >= 1

\* The line is what the transmitter is at, a cycle late.
LineInv ==
    /\ txState = "idle" => line = 1
    /\ txState = "start" /\ line = 1 => txS = 0 /\ rxState = "idle" /\ lead <= 0
    /\ txState = "data" /\ txS # 0 => line = txB[1]
    /\ txState = "stop" /\ txS # 0 => line = 1

StepInv ==
    /\ Counters /\ Phases /\ LineInv
    /\ txState = "start" /\ rxState = "idle" =>
         M * TxTicks + txCount - lead \in 0 .. M - 1 + MaxDrift
    /\ rxState # "idle" => Skew \in 2 - M .. M + MaxDrift

(* The drift moves the two ends apart by five ticks one way and by eight   *)
(* the other at the most.                                                  *)
LEMMA GapBounds ==
    ASSUME Types, WithinDrift, Skew \in 2 - M .. M + MaxDrift
    PROVE  /\ TxTicks \in Nat /\ RxTicks \in Nat /\ Gap \in -5 .. 8
           /\ Gap = 8 /\ lead < MaxDrift => txCount < rxCount
<1>1. TxTicks \in Nat /\ RxTicks \in Nat /\ Gap \in Int
  BY DEF Types, TxTicks, RxTicks, Gap
<1>2. /\ txCount \in 0 .. M - 1 /\ rxCount \in 0 .. M - 1 /\ lead \in -MaxDrift .. MaxDrift
      /\ M \in Nat /\ M >= 1 /\ MaxDrift \in Nat /\ 2 * MaxDrift <= 7 * M
  BY DEF Types, WithinDrift
<1> DEFINE far == M * Gap
<1>3. far \in Int
  BY <1>1, OneTick
<1>4. far + txCount - rxCount - lead >= 2 - M /\ far + txCount - rxCount - lead <= M + MaxDrift
  BY <1>3 DEF Skew
<1>5. Gap >= 9 => far >= 9 * M
  <2>1. Gap >= 9 => M * 9 <= M * Gap
    BY <1>1, Compare
  <2>2. QED
    BY <1>2, <1>3, <2>1
<1>6. Gap <= -6 => far <= -6 * M
  <2>1. Gap <= -6 => M * Gap <= M * (-6)
    BY <1>1, Compare
  <2>2. QED
    BY <1>2, <1>3, <2>1
<1>7. Gap = 8 => far = 8 * M
  BY <1>2
<1> HIDE DEF far
<1>8. far < 9 * M /\ far > -6 * M
  BY <1>2, <1>3, <1>4
<1>9. Gap \in -5 .. 8
  BY <1>1, <1>2, <1>3, <1>5, <1>6, <1>8
<1>10. far = 8 * M /\ lead < MaxDrift => txCount < rxCount
  BY <1>2, <1>4
<1>11. QED
  BY <1>1, <1>7, <1>9, <1>10

(* At the tick of a sample the transmitter is in the bit the receiver      *)
(* counts, past its first tick; at the end of the receiver's frame it is   *)
(* in the stop bit.                                                        *)
LEMMA WhereTheOtherIs ==
    ASSUME Types, Counters, WithinDrift, Skew \in 2 - M .. M + MaxDrift,
           txState # "idle", rxS = 15
    PROVE  /\ rxState = "data" => txState = "data" /\ txN = rxN /\ txS >= 1
           /\ rxState = "stop" => txState = "stop" /\ txS >= 1
<1>1. TxTicks \in Nat /\ RxTicks \in Nat /\ TxTicks - RxTicks \in -5 .. 8
  BY GapBounds DEF Gap
<1>2. /\ txS \in 0 .. 15 /\ txN \in 0 .. 7 /\ rxN \in 0 .. 7 /\ DBIT \in 1 .. 8
      /\ txState \in {"start", "data", "stop"}
      /\ (txState = "data" => txN < DBIT) /\ (rxState = "data" => rxN < DBIT)
  BY DEF Types, Counters, States
<1>3. CASE rxState = "data"
  <2>1. TxTicks >= 16 * rxN + 18 /\ TxTicks <= 16 * rxN + 31
    BY <1>1, <1>2, <1>3 DEF RxTicks
  <2>2. txState # "start"
    BY <1>2, <2>1 DEF TxTicks
  <2>3. txState # "stop"
    BY <1>2, <1>3, <2>1 DEF TxTicks
  <2>4. txState = "data" /\ TxTicks = 16 + 16 * txN + txS
    BY <1>2, <2>2, <2>3 DEF TxTicks
  <2>5. txN = rxN /\ txS >= 1
    BY <1>2, <2>1, <2>4
  <2>6. QED
    BY <1>3, <2>4, <2>5
<1>4. CASE rxState = "stop"
  <2>1. TxTicks >= 16 * DBIT + 18
    BY <1>1, <1>2, <1>4 DEF RxTicks
  <2>2. txState # "start" /\ txState # "data"
    BY <1>2, <2>1 DEF TxTicks
  <2>3. txState = "stop" /\ txS >= 1
    BY <1>2, <2>1, <2>2 DEF TxTicks
  <2>4. QED
    BY <1>4, <2>3
<1>5. QED
  BY <1>3, <1>4

(* The transmitter's edges keep the two ends in step: it cannot end its    *)
(* frame before the receiver has.                                          *)
LEMMA StepTx ==
    ASSUME Types, WithinDrift, StepInv, TxRuns
    PROVE  /\ StepInv'
           /\ TxEnds => rxState = "idle"
           /\ rxState = "idle" /\ TxTurns => txState # "start"
<1>1. /\ TxMoves \/ TxEnds \/ TxRests
      /\ lead < MaxDrift /\ UNCHANGED <<rxState, rxS, rxN, rxB, rxCount>>
  BY TxRunsIs DEF StepInv, WithinDrift
<1>2. /\ txState \in States /\ txS \in 0 .. 15 /\ txN \in 0 .. 7 /\ txCount \in 0 .. M - 1
      /\ rxState \in States /\ rxCount \in 0 .. M - 1 /\ rxS \in 0 .. 15
      /\ lead \in -MaxDrift .. MaxDrift /\ line \in {0, 1}
      /\ M \in Nat /\ M >= 1 /\ MaxDrift \in Nat /\ DBIT \in 1 .. 8 /\ 2 * MaxDrift <= 7 * M
  BY DEF Types, Bit, WithinDrift
<1>3. Counters /\ Phases /\ LineInv
  BY DEF StepInv
<1>4. Types'
  BY TypeStep DEF Next
<1>5. txCount' \in 0 .. M - 1 /\ txS' \in 0 .. 15
  BY <1>4 DEF Types
<1>6. CASE TxRests
  <2>1. rxState = "idle"
    BY <1>3, <1>6 DEF Phases, TxRests
  <2>2. QED
    BY <1>1, <1>3, <1>6, <2>1 DEF TxRests, TxEnds, TxTurns, StepInv, Counters, Phases, LineInv
<1>7. CASE TxEnds
  <2>1. rxState = "idle"
    <3>1. SUFFICES ASSUME rxState # "idle" PROVE FALSE
      OBVIOUS
    <3>2. Skew \in 2 - M .. M + MaxDrift
      BY <3>1 DEF StepInv
    <3>3. Gap \in -5 .. 8 /\ (Gap = 8 => txCount < rxCount)
      BY <1>1, <3>2, GapBounds
    <3>4. TxTicks = 16 + 16 * DBIT + 15 /\ txCount = M - 1
      BY <1>7 DEF TxEnds, TxTicks
    <3>5. RxTicks <= 16 * DBIT + 23 /\ RxTicks \in Nat
      BY <1>2, <1>3 DEF RxTicks, Counters, Types
    <3>6. Gap >= 8
      BY <1>2, <3>4, <3>5 DEF Gap
    <3>7. Gap = 8
      BY <3>3, <3>6
    <3>8. QED
      BY <1>2, <3>3, <3>4, <3>7
  <2>2. QED
    BY <1>1, <1>3, <1>7, <2>1 DEF TxEnds, TxTurns, StepInv, Counters, Phases, LineInv
<1>8. CASE TxMoves
  <2>1. /\ txState # "idle" /\ line' = Level /\ lead' = lead + 1
        /\ M * TxTicks' + txCount' = M * TxTicks + txCount + 1
        /\ TxCounts \/ TxTurns
    BY <1>8 DEF TxMoves
  <2>2. TxTicks \in Int /\ RxTicks \in Int /\ TxTicks' \in Int
    BY <1>2, <1>4 DEF TxTicks, RxTicks, Types
  <2>3. M * TxTicks \in Int /\ M * TxTicks' \in Int /\ M * RxTicks \in Int
    BY <2>2, OneTick
  <2>4. ~TxEnds
    BY <2>1 DEF TxEnds, TxCounts, TxTurns
  <2>5. CASE rxState = "idle" /\ txState = "start"
    <3>1. M * TxTicks + txCount - lead \in 0 .. M - 1 + MaxDrift /\ TxTicks = txS
      BY <2>5 DEF StepInv, TxTicks
    <3>2. M * TxTicks < 8 * M
      BY <1>1, <1>2, <2>3, <3>1
    <3>3. txS <= 7
      <4>1. TxTicks >= 8 => M * 8 <= M * TxTicks
        BY <2>2, Compare
      <4>2. QED
        BY <1>2, <2>2, <2>3, <3>1, <3>2, <4>1
    <3>4. CASE TxTurns
      <4>1. TxTicks' = 16 /\ TxTicks <= 7
        BY <2>5, <3>1, <3>3, <3>4 DEF TxTurns, TxTicks
      <4>2. M * 8 <= M * 9 /\ M * TxTicks <= M * 7 /\ M * TxTicks' = 16 * M
        BY <1>2, <2>2, <4>1, Compare
      <4>3. QED
        BY <1>2, <1>5, <2>1, <2>3, <4>2
    <3>5. CASE TxCounts
      <4>1. txState' = "start" /\ txS' \in {txS, txS + 1} /\ line' = 0
        BY <2>1, <2>5, <3>5 DEF TxCounts, Level
      <4>2. Phases' /\ Counters' /\ LineInv'
        BY <1>1, <1>3, <2>5, <4>1 DEF Phases, Counters, LineInv
      <4>3. M * TxTicks' + txCount' - lead' = M * TxTicks + txCount - lead
        BY <1>2, <1>5, <2>1, <2>3
      <4>4. StepInv'
        BY <1>1, <2>5, <3>1, <4>1, <4>2, <4>3 DEF StepInv
      <4>5. QED
        BY <2>4, <2>5, <4>1, <4>4 DEF TxTurns
    <3>6. QED
      BY <2>1, <3>4, <3>5
  <2>6. CASE rxState = "idle" /\ txState # "start"
    <3>1. txState = "stop" /\ txS >= 1
      BY <1>2, <1>3, <2>1, <2>6 DEF Phases, States
    <3>2. ~TxTurns
      BY <3>1 DEF TxTurns
    <3>3. txState' = "stop" /\ txS' >= 1 /\ line' = 1
      BY <1>2, <2>1, <3>1, <3>2 DEF TxCounts, Level
    <3>4. StepInv'
      BY <1>1, <1>3, <2>6, <3>3 DEF StepInv, Phases, Counters, LineInv
    <3>5. QED
      BY <2>4, <2>6, <3>4
  <2>7. CASE rxState # "idle"
    <3>1. Skew \in 2 - M .. M + MaxDrift
      BY <2>7 DEF StepInv
    <3>2. Skew' = Skew
      <4>1. RxTicks' = RxTicks
        BY <1>1 DEF RxTicks
      <4>2. M * Gap = M * TxTicks - M * RxTicks /\ M * Gap' = M * TxTicks' - M * RxTicks
        BY <1>2, <2>2, <4>1 DEF Gap
      <4>3. QED
        BY <1>1, <1>2, <1>5, <2>1, <2>3, <4>2 DEF Skew
    <3>3. txState' # "idle" /\ rxState' # "idle"
      BY <1>1, <2>1, <2>7 DEF TxCounts, TxTurns
    <3>4. Counters'
      BY <1>1, <1>2, <1>3, <2>1 DEF Counters, TxCounts, TxTurns
    <3>5. LineInv'
      <4>1. CASE TxCounts
        <5>1. txState = "data" => line' = txB'[1]
          BY <2>1, <4>1 DEF TxCounts, Level
        <5>2. QED
          BY <1>3, <2>1, <3>3, <4>1, <5>1 DEF LineInv, TxCounts, Level
      <4>2. CASE TxTurns
        BY <3>3, <4>2 DEF LineInv, TxTurns
      <4>3. QED
        BY <2>1, <4>1, <4>2
    <3>6. Phases'
      BY <3>3 DEF Phases
    <3>7. StepInv'
      BY <3>1, <3>2, <3>3, <3>4, <3>5, <3>6 DEF StepInv
    <3>8. QED
      BY <2>4, <2>7, <3>7
  <2>8. QED
    BY <2>5, <2>6, <2>7
<1>9. QED
  BY <1>1, <1>6, <1>7, <1>8

(* The receiver's edges keep the two ends in step: it starts on a start    *)
(* bit, samples the bit it counts, and ends in the stop bit.               *)
LEMMA StepRx ==
    ASSUME Types, WithinDrift, StepInv, RxRuns
    PROVE  /\ StepInv'
           /\ RxStarts => txState = "start"
           /\ RxSamples => txState = "data" /\ txN = rxN /\ line = txB[1]
           /\ RxEnds => txState = "stop" /\ txS >= 1
<1>1. /\ RxMoves \/ RxEnds \/ RxStarts \/ RxRests
      /\ UNCHANGED <<txState, txS, txN, txB, line, txCount>>
      /\ lead > -MaxDrift /\ lead' = IF txState = "idle" THEN 0 ELSE lead - 1
  <2>1. UNCHANGED <<txState, txS, txN, txB, line, txCount>>
    BY DEF RxRuns, txVars
  <2>2. QED
    BY <2>1, RxRunsIs DEF StepInv, WithinDrift, RxRuns
<1>2. /\ txState \in States /\ txS \in 0 .. 15 /\ txN \in 0 .. 7 /\ txCount \in 0 .. M - 1
      /\ rxState \in States /\ rxCount \in 0 .. M - 1 /\ rxS \in 0 .. 15 /\ rxN \in 0 .. 7
      /\ lead \in -MaxDrift .. MaxDrift /\ line \in {0, 1}
      /\ M \in Nat /\ M >= 1 /\ MaxDrift \in Nat /\ DBIT \in 1 .. 8
  BY DEF Types, Bit
<1>3. Counters /\ Phases /\ LineInv
  BY DEF StepInv
<1>4. Types'
  BY TypeStep DEF Next
<1>5. rxCount' \in 0 .. M - 1 /\ rxS' \in 0 .. 15 /\ rxN' \in 0 .. 7
  BY <1>4 DEF Types
<1>6. TxTicks' = TxTicks
  BY <1>1 DEF TxTicks
<1>7. CASE RxRests
  <2>1. rxState = "idle" /\ rxState' = "idle" /\ line = 1 /\ rxS' = rxS /\ rxN' = rxN
    BY <1>7 DEF RxRests
  <2>2. Counters' /\ Phases'
    BY <1>1, <1>3, <2>1 DEF Counters, Phases
  <2>3. CASE txState = "start"
    <3>1. txS = 0 /\ lead <= 0 /\ lead' = lead - 1 /\ TxTicks = 0
      BY <1>1, <1>3, <2>1, <2>3 DEF LineInv, TxTicks
    <3>2. M * TxTicks = 0
      BY <1>2, <3>1
    <3>3. M * TxTicks' + txCount' - lead' \in 0 .. M - 1 + MaxDrift
      BY <1>1, <1>2, <1>6, <3>1, <3>2
    <3>4. LineInv'
      BY <1>1, <1>2, <1>3, <2>1, <2>3, <3>1 DEF LineInv
    <3>5. QED
      BY <2>1, <2>2, <3>3, <3>4 DEF StepInv, RxStarts, RxSamples, RxEnds
  <2>4. CASE txState # "start"
    <3>1. LineInv'
      BY <1>1, <1>3, <2>4 DEF LineInv
    <3>2. QED
      BY <1>1, <2>1, <2>2, <2>4, <3>1 DEF StepInv, RxStarts, RxSamples, RxEnds
  <2>5. QED
    BY <2>3, <2>4
<1>8. CASE RxStarts
  <2>1. rxState = "idle" /\ line = 0 /\ rxState' = "start" /\ rxS' = 0 /\ rxN' = rxN
    BY <1>8 DEF RxStarts
  <2>2. txState = "start"
    BY <1>2, <1>3, <2>1 DEF Phases, LineInv, States
  <2>3. M * TxTicks + txCount - lead \in 0 .. M - 1 + MaxDrift
    BY <2>1, <2>2 DEF StepInv
  <2>4. lead' = lead - 1
    BY <1>1, <2>2
  <2>5. Skew' \in 2 - M .. M + MaxDrift
    <3>1. RxTicks' = 0 /\ TxTicks \in Nat
      BY <1>2, <2>1, <2>2 DEF RxTicks, TxTicks
    <3>2. Gap' = TxTicks
      BY <1>6, <3>1 DEF Gap
    <3>3. M * TxTicks \in Int
      BY <3>1, OneTick
    <3>4. Skew' = M * TxTicks + txCount - rxCount' - (lead - 1)
      BY <1>1, <2>4, <3>2 DEF Skew
    <3>5. QED
      BY <1>2, <1>5, <2>3, <3>3, <3>4
  <2>6. Counters' /\ Phases' /\ LineInv'
    BY <1>1, <1>3, <2>1, <2>2 DEF Counters, Phases, LineInv
  <2>7. StepInv'
    BY <2>1, <2>5, <2>6 DEF StepInv
  <2>8. QED
    BY <2>1, <2>2, <2>7 DEF RxSamples, RxEnds
<1>9. CASE RxMoves
  <2>1. /\ rxState # "idle" /\ M * RxTicks' + rxCount' = M * RxTicks + rxCount + 1
        /\ RxCounts \/ RxOpens \/ RxSamples
    BY <1>9 DEF RxMoves
  <2>2. txState # "idle" /\ lead' = lead - 1 /\ Skew \in 2 - M .. M + MaxDrift
    BY <1>1, <1>3, <2>1 DEF Phases, StepInv
  <2>3. rxState' # "idle"
    BY <2>1 DEF RxCounts, RxOpens, RxSamples
  <2>4. Skew' = Skew
    <3>1. TxTicks \in Int /\ RxTicks \in Int /\ RxTicks' \in Int
      BY <1>2, <1>5 DEF TxTicks, RxTicks
    <3>2. M * TxTicks \in Int /\ M * RxTicks \in Int /\ M * RxTicks' \in Int
      BY <3>1, OneTick
    <3>3. M * Gap = M * TxTicks - M * RxTicks /\ M * Gap' = M * TxTicks - M * RxTicks'
      BY <1>2, <1>6, <3>1 DEF Gap
    <3>4. /\ Skew = M * TxTicks - M * RxTicks + txCount - rxCount - lead
          /\ Skew' = M * TxTicks - M * RxTicks' + txCount - rxCount' - (lead - 1)
      BY <1>1, <2>2, <3>3 DEF Skew
    <3>5. QED
      BY <1>2, <1>5, <2>1, <3>2, <3>4
  <2>5. Counters'
    BY <1>1, <1>2, <1>3, <2>1 DEF Counters, RxCounts, RxOpens, RxSamples
  <2>6. Phases' /\ LineInv'
    BY <1>1, <1>3, <2>1, <2>2, <2>3 DEF Phases, LineInv
  <2>7. StepInv'
    BY <2>2, <2>3, <2>4, <2>5, <2>6 DEF StepInv
  <2>8. RxSamples => txState = "data" /\ txN = rxN /\ line = txB[1]
    <3>1. RxSamples => rxState = "data" /\ rxS = 15
      BY DEF RxSamples
    <3>2. RxSamples => txState = "data" /\ txN = rxN /\ txS >= 1
      BY <1>3, <2>2, <3>1, WhereTheOtherIs
    <3>3. QED
      BY <1>2, <1>3, <3>2 DEF LineInv
  <2>9. QED
    BY <2>1, <2>3, <2>7, <2>8 DEF RxStarts, RxEnds
<1>10. CASE RxEnds
  <2>1. rxState = "stop" /\ rxState' = "idle" /\ rxS = 15
    BY <1>10 DEF RxEnds
  <2>2. txState # "idle" /\ Skew \in 2 - M .. M + MaxDrift
    BY <1>3, <2>1 DEF Phases, StepInv
  <2>3. txState = "stop" /\ txS >= 1
    BY <1>3, <2>1, <2>2, WhereTheOtherIs
  <2>4. StepInv'
    BY <1>1, <1>3, <2>1, <2>3 DEF StepInv, Counters, Phases, LineInv
  <2>5. QED
    BY <2>1, <2>3, <2>4 DEF RxStarts, RxSamples
<1>11. QED
  BY <1>1, <1>7, <1>8, <1>9, <1>10

(* A word is taken when both ends are idle.                                *)
LEMMA StepTakes ==
    ASSUME Types, StepInv, NEW w \in Words, TxTakes(w)
    PROVE  /\ StepInv'
           /\ txState = "idle" /\ rxState = "idle" /\ txState' = "start" /\ txB' = Din(w)
           /\ UNCHANGED <<rxState, rxS, rxN, rxB, rcvd>> /\ sent' = Append(sent, w)
<1>1. /\ txState = "idle" /\ Tx!Edge(TxBaud!max_tick, TRUE, Din(w)) /\ lead' = 0
      /\ UNCHANGED <<rxState, rxS, rxN, rxB, rxCount, rcvd>> /\ sent' = Append(sent, w)
  BY DEF TxTakes, Drift, rxVars
<1>2. line' = 1 /\ txState' = "start" /\ txS' = 0 /\ txB' = Din(w) /\ txN' = txN
  BY <1>1 DEF Tx!Edge, Tx!Idle, Tx!Start, Tx!Data, Tx!Stop
<1>3. Counters /\ Phases /\ LineInv
  BY DEF StepInv
<1>4. rxState = "idle"
  BY <1>1, <1>3 DEF Phases
<1>5. Types'
  BY TypeStep DEF Next
<1>6. txCount' \in 0 .. M - 1 /\ M \in Nat /\ MaxDrift \in Nat
  BY <1>5 DEF Types
<1>7. TxTicks' = 0 /\ M * TxTicks' = 0
  BY <1>2, <1>6 DEF TxTicks
<1>8. M * TxTicks' + txCount' - lead' \in 0 .. M - 1 + MaxDrift
  <2>1. M * TxTicks' + txCount' - lead' = 0 + txCount' - 0
    BY <1>1, <1>7
  <2>2. QED
    BY <1>6, <2>1
<1>9. StepInv'
  BY <1>1, <1>2, <1>3, <1>4, <1>8 DEF StepInv, Counters, Phases, LineInv
<1>10. QED
  BY <1>1, <1>2, <1>4, <1>9

(* A reset brings both ends back in step.                                  *)
LEMMA StepReset ==
    ASSUME Reset
    PROVE  StepInv' /\ txState' = "idle" /\ rxState' = "idle" /\ sent' = << >> /\ rcvd' = << >>
BY DEF Reset, Tx!Reset, Rx!Reset, StepInv, Counters, Phases, LineInv

(* Every step keeps the two ends in step.                                  *)
LEMMA StepStep == Types /\ WithinDrift /\ StepInv /\ [Next]_vars => StepInv'
<1>1. ASSUME UNCHANGED vars PROVE StepInv' <=> StepInv
  BY <1>1 DEF vars, txVars, rxVars, StepInv, Counters, Phases, LineInv, TxTicks, RxTicks, Gap, Skew
<1>2. QED
  BY <1>1, StepTx, StepRx, StepTakes, StepReset DEF Next

(* The two ends start in step.                                             *)
LEMMA StepInit == Init => StepInv
BY DEF Init, Tx!Init, Rx!Init, StepInv, Counters, Phases, LineInv

(* As long as the drift within a frame is at most three and a half ticks,  *)
(* the receiver leaves idle on start bits only and takes every sample from *)
(* the bit it belongs to, in the middle of which the transmitter is.       *)
THEOREM KeepsInStep ==
    ASSUME WithinDrift PROVE Spec => InStep
<1> DEFINE Samples == rxState = "data" /\ rxS = 15 /\ rxS' = 0 /\ rxState' # "idle"
                         => txState = "data" /\ txN = rxN
           Starts == rxState = "idle" /\ rxState' = "start" => txState = "start"
<1>1. Types /\ StepInv /\ [Next]_vars => [Samples /\ Starts]_vars
  <2> SUFFICES ASSUME Types, StepInv, Next PROVE Samples /\ Starts
    OBVIOUS
  <2>1. CASE RxRuns
    <3>1. /\ RxStarts => txState = "start"
          /\ RxSamples => txState = "data" /\ txN = rxN
          /\ RxMoves \/ RxEnds \/ RxStarts \/ RxRests
      BY <2>1, StepRx, RxRunsIs DEF StepInv, WithinDrift
    <3>2. rxState = "data" /\ rxS = 15 /\ rxS' = 0 /\ (RxMoves \/ RxEnds \/ RxStarts \/ RxRests) => RxSamples
      BY DEF RxMoves, RxEnds, RxStarts, RxRests, RxCounts, RxOpens
    <3>3. rxState = "idle" /\ rxState' = "start" /\ (RxMoves \/ RxEnds \/ RxStarts \/ RxRests) => RxStarts
      BY DEF RxMoves, RxEnds, RxStarts, RxRests
    <3>4. QED
      BY <3>1, <3>2, <3>3
  <2>2. CASE TxRuns
    BY <2>2 DEF TxRuns, rxVars
  <2>3. ASSUME NEW w \in Words, TxTakes(w) PROVE Samples /\ Starts
    BY <2>3 DEF TxTakes, rxVars
  <2>4. CASE Reset
    BY <2>4, StepReset
  <2>5. QED
    BY <2>1, <2>2, <2>3, <2>4 DEF Next
<1>2. Init => Types /\ StepInv
  BY TypeInit, StepInit
<1>3. Types /\ StepInv /\ [Next]_vars => Types' /\ StepInv'
  BY TypeStep, StepStep
<1>4. [Samples /\ Starts]_vars => [Samples]_vars /\ [Starts]_vars
  OBVIOUS
<1>5. Spec => [][Samples]_vars /\ [][Starts]_vars
  BY <1>1, <1>2, <1>3, <1>4, PTL DEF Spec
<1>6. QED
  BY <1>5 DEF InStep, SamplesItsBit, StartsOnStartBit

-----------------------------------------------------------------------------
(* Words. *)

\* A word has been taken and not yet been announced.
UnderWay == txState # "idle" /\ ~(txState = "stop" /\ rxState = "idle")

\* Bits of it the receiver has.
RxGot == IF rxState = "data" THEN rxN ELSE IF rxState = "stop" THEN DBIT ELSE 0

\* The word under way: the transmitter holds the bits still to be sent, and the
\* receiver, at the top of its register, those that have arrived.
Carries(w) ==
    /\ sent = Append(rcvd, w)
    /\ txState = "start" => \A i \in 1 .. DBIT : txB[i] = w[i]
    /\ txState = "data" => \A i \in 1 .. DBIT - txN : txB[i] = w[txN + i]
    /\ \A i \in 1 .. RxGot : rxB[Width - RxGot + i] = w[i]

WordInv ==
    /\ ~UnderWay => sent = rcvd
    /\ UnderWay => \E w \in Words : Carries(w)

(* The transmitter's edges keep the word that is under way.                *)
LEMMA WordTx ==
    ASSUME Types, WithinDrift, StepInv, WordInv, TxRuns
    PROVE  WordInv' /\ UNCHANGED <<sent, rcvd>>
<1>1. /\ TxMoves \/ TxEnds \/ TxRests
      /\ UNCHANGED <<rxState, rxS, rxN, rxB, rxCount, sent, rcvd>>
  BY TxRunsIs DEF StepInv, WithinDrift
<1>2. /\ TxEnds => rxState = "idle"
      /\ rxState = "idle" => txState # "data"
      /\ rxState # "idle" => txState # "idle"
  BY StepTx DEF StepInv, Phases
<1>3. RxGot' = RxGot
  BY <1>1 DEF RxGot
<1>4. CASE TxRests \/ TxEnds
  <2>1. ~UnderWay /\ ~UnderWay'
    BY <1>1, <1>2, <1>4 DEF TxRests, TxEnds, UnderWay
  <2>2. QED
    BY <1>1, <2>1 DEF WordInv
<1>5. CASE TxMoves /\ TxCounts
  <2>1. UNCHANGED <<txState, txN, txB>>
    BY <1>5 DEF TxCounts
  <2>2. (UnderWay' <=> UnderWay) /\ \A w : Carries(w)' <=> Carries(w)
    BY <1>1, <1>3, <2>1 DEF UnderWay, Carries
  <2>3. QED
    BY <1>1, <2>2 DEF WordInv
<1>6. CASE TxMoves /\ TxTurns
  <2>1. UnderWay /\ UnderWay'
    BY <1>1, <1>2, <1>6 DEF TxTurns, UnderWay
  <2>2. PICK w \in Words : Carries(w)
    BY <2>1 DEF WordInv
  <2>3. txN \in 0 .. 7 /\ DBIT \in 1 .. 8 /\ Width \in Nat /\ DBIT <= Width /\ txB \in Buffers
    BY DEF Types
  <2>4. Carries(w)'
    <3>1. CASE txState = "start"
      BY <1>1, <1>3, <1>6, <2>2, <2>3, <3>1 DEF Carries, TxTurns
    <3>2. CASE txState = "data" /\ txState' = "data"
      <4>1. txN' = txN + 1 /\ txB' = Append(Tail(txB), 0) /\ txN < DBIT - 1
        BY <1>6, <3>2 DEF TxTurns
      <4>2. \A i \in 1 .. Width : txB'[i] = IF i = Width THEN 0 ELSE txB[i + 1]
        BY <2>3, <4>1, ShiftIs DEF Bit
      <4>3. \A i \in 1 .. DBIT - txN : txB[i] = w[txN + i]
        BY <2>2, <3>2 DEF Carries
      <4>4. ASSUME NEW i \in 1 .. DBIT - txN' PROVE txB'[i] = w[txN' + i]
        <5>1. i \in 1 .. Width /\ i # Width /\ i + 1 \in 1 .. DBIT - txN /\ txN + (i + 1) = txN' + i
          BY <2>3, <4>1
        <5>2. QED
          BY <4>2, <4>3, <5>1
      <4>5. QED
        BY <1>1, <1>3, <2>2, <3>2, <4>4 DEF Carries
    <3>3. CASE txState' = "stop"
      BY <1>1, <1>3, <2>2, <3>3 DEF Carries
    <3>4. QED
      BY <1>6, <3>1, <3>2, <3>3 DEF TxTurns
  <2>5. QED
    BY <1>1, <2>1, <2>4 DEF WordInv
<1>7. QED
  BY <1>1, <1>4, <1>5, <1>6 DEF TxMoves

(* The receiver's edges collect the word, and at the end announce it.      *)
LEMMA WordRx ==
    ASSUME Types, WithinDrift, ~ReadsNext, StepInv, WordInv, RxRuns
    PROVE  WordInv' /\ (UNCHANGED <<sent, rcvd>> \/ Channel!Receive)
<1>1. /\ RxMoves \/ RxEnds \/ RxStarts \/ RxRests
      /\ UNCHANGED <<txState, txS, txN, txB, line, txCount, sent>>
      /\ RxStarts => txState = "start"
      /\ RxSamples => txState = "data" /\ txN = rxN /\ line = txB[1]
      /\ RxEnds => txState = "stop" /\ txS >= 1
  <2>1. UNCHANGED <<txState, txS, txN, txB, line, txCount, sent>>
    BY DEF RxRuns, txVars
  <2>2. QED
    BY <2>1, RxRunsIs, StepRx DEF StepInv, WithinDrift
<1>2. /\ rxN \in 0 .. 7 /\ DBIT \in 1 .. 8 /\ Width \in Nat /\ DBIT <= Width
      /\ rxB \in Buffers /\ line \in Bit /\ (rxState = "data" => rxN < DBIT)
      /\ rxState # "idle" => txState # "idle"
      /\ rcvd \in Seq(Words)
  BY DEF Types, StepInv, Counters, Phases
<1>3. CASE RxRests
  BY <1>1, <1>3 DEF RxRests, WordInv, UnderWay, Carries, RxGot
<1>4. CASE RxStarts
  <2>1. rxState = "idle" /\ rxState' = "start" /\ rxB' = rxB /\ rcvd' = rcvd /\ txState = "start"
    BY <1>1, <1>4 DEF RxStarts
  <2>2. UnderWay /\ UnderWay' /\ RxGot = 0 /\ RxGot' = 0
    BY <1>1, <2>1 DEF UnderWay, RxGot
  <2>3. \A w : Carries(w)' <=> Carries(w)
    BY <1>1, <2>1, <2>2 DEF Carries
  <2>4. QED
    BY <1>1, <2>1, <2>2, <2>3 DEF WordInv
<1>5. CASE RxMoves
  <2>1. rxState # "idle" /\ rxState' # "idle" /\ rcvd' = rcvd /\ (RxCounts \/ RxOpens \/ RxSamples)
    BY <1>5 DEF RxMoves, RxCounts, RxOpens, RxSamples
  <2>2. UnderWay /\ UnderWay'
    BY <1>1, <1>2, <2>1 DEF UnderWay
  <2>3. PICK w \in Words : Carries(w)
    BY <2>2 DEF WordInv
  <2>4. Carries(w)'
    <3>1. CASE RxCounts
      <4>1. RxGot' = RxGot /\ rxB' = rxB
        BY <3>1 DEF RxCounts, RxGot
      <4>2. QED
        BY <1>1, <2>1, <2>3, <4>1 DEF Carries
    <3>2. CASE RxOpens
      <4>1. RxGot' = 0
        BY <3>2 DEF RxOpens, RxGot
      <4>2. QED
        BY <1>1, <2>1, <2>3, <4>1 DEF Carries
    <3>3. CASE RxSamples
      <4>1. /\ RxGot = rxN /\ RxGot' = rxN + 1 /\ rxB' = Append(Tail(rxB), line) /\ rxN < DBIT
            /\ txState = "data" /\ txN = rxN /\ line = txB[1]
        BY <1>1, <1>2, <3>3 DEF RxSamples, RxGot
      <4>2. \A i \in 1 .. Width : rxB'[i] = IF i = Width THEN line ELSE rxB[i + 1]
        BY <1>2, <4>1, ShiftIs
      <4>3. line = w[rxN + 1]
        <5>1. 1 \in 1 .. DBIT - txN
          BY <1>2, <4>1
        <5>2. QED
          BY <2>3, <4>1, <5>1 DEF Carries
      <4>4. \A i \in 1 .. rxN : rxB[Width - rxN + i] = w[i]
        BY <2>3, <4>1 DEF Carries
      <4>5. ASSUME NEW i \in 1 .. rxN + 1 PROVE rxB'[Width - (rxN + 1) + i] = w[i]
        <5>1. Width - (rxN + 1) + i \in 1 .. Width
          BY <1>2, <4>1
        <5>2. CASE i = rxN + 1
          <6>1. Width - (rxN + 1) + i = Width
            BY <1>2, <5>2
          <6>2. QED
            BY <4>2, <4>3, <5>1, <5>2, <6>1
        <5>3. CASE i # rxN + 1
          <6>1. /\ i \in 1 .. rxN /\ Width - (rxN + 1) + i # Width
                /\ Width - (rxN + 1) + i + 1 = Width - rxN + i
            BY <1>2, <5>3
          <6>2. QED
            BY <4>2, <4>4, <5>1, <6>1
        <5>4. QED
          BY <5>2, <5>3
      <4>6. QED
        BY <1>1, <2>1, <2>3, <4>1, <4>5 DEF Carries
    <3>4. QED
      BY <2>1, <3>1, <3>2, <3>3
  <2>5. QED
    BY <1>1, <2>1, <2>2, <2>4 DEF WordInv
<1>6. CASE RxEnds
  <2>1. rxState = "stop" /\ rxState' = "idle" /\ rcvd' = Append(rcvd, Rx!dout) /\ txState = "stop"
    BY <1>1, <1>6 DEF RxEnds
  <2>2. UnderWay /\ ~UnderWay' /\ RxGot = DBIT
    BY <1>1, <2>1 DEF UnderWay, RxGot
  <2>3. PICK w \in Words : Carries(w)
    BY <2>2 DEF WordInv
  <2>4. sent = Append(rcvd, w) /\ \A i \in 1 .. DBIT : rxB[Width - DBIT + i] = w[i]
    BY <2>2, <2>3 DEF Carries
  <2>5. Rx!dout = w
    <3>1. Rx!dout \in Words /\ \A i \in 1 .. DBIT : Rx!dout[i] = w[i]
      BY <1>2, <2>4, DoutIs
    <3>2. QED
      BY <2>3, <3>1 DEF Words
  <2>6. rcvd' = sent /\ sent' = sent
    BY <1>1, <2>1, <2>4, <2>5
  <2>7. Len(rcvd) < Len(sent) /\ sent[Len(rcvd) + 1] = w
    <3>1. Len(rcvd) \in Nat /\ Len(sent) = Len(rcvd) + 1 /\ sent[Len(rcvd) + 1] = w
      BY <1>2, <2>3, <2>4, AppendProperties, LenProperties
    <3>2. QED
      BY <3>1
  <2>8. Channel!Receive
    BY <2>1, <2>5, <2>6, <2>7 DEF Channel!Receive
  <2>9. QED
    BY <2>2, <2>6, <2>8 DEF WordInv
<1>7. QED
  BY <1>1, <1>3, <1>4, <1>5, <1>6

(* A word is taken when every earlier one has been announced.              *)
LEMMA WordTakes ==
    ASSUME Types, StepInv, WordInv, NEW w \in Words, TxTakes(w)
    PROVE  WordInv' /\ Channel!Send(w)
<1>1. /\ txState = "idle" /\ rxState = "idle" /\ txState' = "start" /\ txB' = Din(w)
      /\ UNCHANGED <<rxState, rxS, rxN, rxB, rcvd>> /\ sent' = Append(sent, w)
  BY StepTakes
<1>2. sent = rcvd
  BY <1>1 DEF WordInv, UnderWay
<1>3. UnderWay' /\ RxGot' = 0
  BY <1>1 DEF UnderWay, RxGot
<1>4. \A i \in 1 .. DBIT : Din(w)[i] = w[i]
  BY DEF Din
<1>5. Carries(w)'
  BY <1>1, <1>2, <1>3, <1>4 DEF Carries
<1>6. Channel!Send(w)
  <2>1. Len(sent) \in Nat
    BY LenProperties DEF Types
  <2>2. Len(sent) - Len(rcvd) < 1
    BY <1>2, <2>1
  <2>3. QED
    BY <1>1, <2>2 DEF Channel!Send
<1>7. QED
  BY <1>3, <1>5, <1>6 DEF WordInv

(* Every step keeps the words in order, and is a step of the channel.      *)
LEMMA WordStep ==
    ASSUME WithinDrift, ~ReadsNext, Types, StepInv, WordInv, [Next]_vars
    PROVE  WordInv' /\ [Channel!Next]_<<sent, rcvd>>
<1>1. ASSUME NEW w \in Words, TxTakes(w) PROVE WordInv' /\ Channel!Next
  BY <1>1, WordTakes DEF Channel!Next
<1>2. CASE TxRuns
  BY <1>2, WordTx
<1>3. CASE RxRuns
  BY <1>3, WordRx DEF Channel!Next
<1>4. CASE Reset
  <2>1. txState' = "idle" /\ rxState' = "idle" /\ sent' = << >> /\ rcvd' = << >>
    BY <1>4, StepReset
  <2>2. QED
    BY <2>1 DEF WordInv, UnderWay, Channel!Next, Channel!Clear
<1>5. CASE UNCHANGED vars
  BY <1>5 DEF vars, txVars, rxVars, WordInv, UnderWay, Carries, RxGot
<1>6. QED
  BY <1>1, <1>2, <1>3, <1>4, <1>5 DEF Next

(* As long as the drift within a frame is at most three and a half ticks,  *)
(* the transmitter and the receiver of usart.vhd are a channel: whatever   *)
(* words are sent, they are announced once, in order, bit for bit, and     *)
(* each before the next is taken.                                          *)
THEOREM IsAChannel ==
    ASSUME WithinDrift, ~ReadsNext PROVE Spec => ImplementsChannel
<1>1. Init => Types /\ StepInv /\ WordInv /\ Channel!Init
  <2>1. Init => WordInv /\ Channel!Init
    BY DEF Init, Tx!Init, Rx!Init, WordInv, UnderWay, Channel!Init
  <2>2. QED
    BY <2>1, TypeInit, StepInit
<1>2. Types /\ StepInv /\ WordInv /\ [Next]_vars
        => Types' /\ StepInv' /\ WordInv' /\ [Channel!Next]_<<sent, rcvd>>
  BY TypeStep, StepStep, WordStep
<1>3. Spec => Channel!Init /\ [][Channel!Next]_<<sent, rcvd>>
  BY <1>1, <1>2, PTL DEF Spec
<1>4. QED
  BY <1>3 DEF ImplementsChannel, Channel!Spec, Channel!vars

-----------------------------------------------------------------------------
(* The FIFO under the counting client. *)

IInv == CountTypes /\ CountedApart

USE DepthAssumption, ZeroAssumption

(* The word at the read port is a word, so what the ports carry in a cycle *)
(* is well typed.                                                          *)
LEMMA PortsStep ==
  ASSUME CountTypes, [CNext]_clientVars
  PROVE  io' \in [put : Data \cup {NoWord}, got : Data \cup {NoWord}]
<1>1. r_data \in Data
  BY DEF CountTypes, r_data
<1>2. QED
  BY <1>1 DEF CNext, CUse, CWrite, CRead, CWriteRead, CReset, clientVars, CountTypes

(* Every step of the counting client keeps the types and the distance      *)
(* between the pointers.                                                   *)
LEMMA IInvStep == IInv /\ [CNext]_clientVars => IInv'
<1> SUFFICES ASSUME IInv, [CNext]_clientVars PROVE IInv'
    OBVIOUS
<1> USE DEF IInv, CountTypes, CountedApart
<1>p. io' \in [put : Data \cup {NoWord}, got : Data \cup {NoWord}]
  BY PortsStep
<1>1. ASSUME NEW d \in Data, CWrite(d) PROVE IInv'
  <2>1. /\ ~full_reg
        /\ count < Capacity
        /\ array_reg' = [array_reg EXCEPT ![w_ptr_reg] = d]
        /\ w_ptr_reg' = Succ(w_ptr_reg)
        /\ r_ptr_reg' = r_ptr_reg
        /\ count' = count + 1
        /\ io' = [put |-> d, got |-> NoWord]
    BY <1>1 DEF CWrite, Write, Store
  <2>2. array_reg' \in [Slots -> Data]
    BY <2>1
  <2>3. /\ w_ptr_reg' \in Slots
        /\ r_ptr_reg' \in Slots
        /\ count' \in 0 .. Capacity
        /\ w_ptr_reg' = Ahead(count)'
        /\ w_ptr_reg' # r_ptr_reg
    BY <2>1 DEF Slots, Succ, Ahead, Capacity
  <2>4. full_reg' = FALSE /\ empty_reg' = FALSE
    BY <1>1, <2>1, <2>3 DEF CWrite, Write
  <2>5. QED
    BY <1>p, <2>2, <2>3, <2>4
<1>2. ASSUME NEW d \in Data, CWriteRead(d) PROVE IInv'
  <2>1. /\ array_reg' = [array_reg EXCEPT ![w_ptr_reg] = d]
        /\ w_ptr_reg' = Succ(w_ptr_reg)
        /\ r_ptr_reg' = Succ(r_ptr_reg)
        /\ UNCHANGED <<full_reg, empty_reg, count>>
    BY <1>2 DEF CWriteRead, WriteRead, Store
  <2>2. array_reg' \in [Slots -> Data]
    BY <2>1
  <2>3. /\ w_ptr_reg' \in Slots
        /\ r_ptr_reg' \in Slots
        /\ w_ptr_reg' = Ahead(count)'
    BY <2>1 DEF Slots, Succ, Ahead, Capacity
  <2>4. QED
    BY <1>p, <2>1, <2>2, <2>3
<1>3. CASE CRead
  <2>1. /\ count > 0
        /\ ~empty_reg
        /\ r_ptr_reg' = Succ(r_ptr_reg)
        /\ full_reg' = FALSE
        /\ UNCHANGED <<array_reg, w_ptr_reg>>
        /\ count' = count - 1
    BY <1>3 DEF CRead, Read
  <2>2. /\ r_ptr_reg' \in Slots
        /\ count' \in 0 .. Capacity
        /\ w_ptr_reg' = Ahead(count)'
        /\ Succ(r_ptr_reg) # Succ(w_ptr_reg)
    BY <2>1 DEF Slots, Succ, Ahead, Capacity
  <2>3. empty_reg' = FALSE
    BY <1>3, <2>2 DEF CRead, Read
  <2>4. QED
    BY <1>p, <2>1, <2>2, <2>3
<1>4. CASE CReset
  <2>1. /\ array_reg' \in [Slots -> Data]
        /\ w_ptr_reg' = 0 /\ r_ptr_reg' = 0
        /\ full_reg' = FALSE /\ empty_reg' = TRUE
        /\ count' = 0
    BY <1>4 DEF CReset, FifoReset
  <2>2. /\ w_ptr_reg' \in Slots
        /\ r_ptr_reg' \in Slots
        /\ count' \in 0 .. Capacity
        /\ w_ptr_reg' = Ahead(count)'
    BY <2>1 DEF Slots, Ahead, Capacity
  <2>3. QED
    BY <1>p, <2>1, <2>2
<1>5. CASE UNCHANGED clientVars
  BY <1>5 DEF clientVars, fifoVars, Ahead
<1>6. QED
  BY <1>1, <1>2, <1>3, <1>4, <1>5 DEF CNext, CUse

(* The initial state has the types and the distance.                       *)
LEMMA IInvInit == CInit => IInv
<1> SUFFICES ASSUME CInit PROVE IInv
    OBVIOUS
<1>1. array_reg \in [Slots -> Data]
  BY DEF CInit, FifoInit
<1>2. /\ w_ptr_reg \in Slots
      /\ r_ptr_reg \in Slots
      /\ count \in 0 .. Capacity
      /\ w_ptr_reg = Ahead(count)
  BY DEF CInit, FifoInit, Slots, Ahead, Capacity
<1>3. full_reg = FALSE /\ empty_reg = TRUE /\ count = 0 /\ io = [put |-> NoWord, got |-> NoWord]
  BY DEF CInit, FifoInit
<1>4. QED
  BY <1>1, <1>2, <1>3 DEF IInv, CountTypes, CountedApart

-----------------------------------------------------------------------------
(* Sequences that are another one with a word appended, or without its     *)
(* head.                                                                   *)

(* A sequence that agrees with s up to Len(s) and ends in d is s with d    *)
(* appended.                                                               *)
LEMMA IsAppend ==
  ASSUME NEW S, NEW s \in Seq(S), NEW t \in Seq(S), NEW d \in S,
         Len(t) = Len(s) + 1,
         \A i \in 1 .. Len(s) : t[i] = s[i],
         t[Len(s) + 1] = d
  PROVE  t = Append(s, d)
<1>1. /\ Append(s, d) \in Seq(S)
      /\ Len(Append(s, d)) = Len(s) + 1
      /\ \A i \in 1 .. Len(s) : Append(s, d)[i] = s[i]
      /\ Append(s, d)[Len(s) + 1] = d
  OBVIOUS
<1>2. Len(s) \in Nat
  BY LenProperties
<1>3. \A i \in 1 .. Len(t) : t[i] = Append(s, d)[i]
  BY <1>1, <1>2
<1>4. QED
  BY <1>1, <1>3, SeqEqual

(* A sequence one shorter than s that is s moved down by one is Tail(s).   *)
LEMMA IsTail ==
  ASSUME NEW S, NEW s \in Seq(S), NEW t \in Seq(S), s # << >>,
         Len(t) = Len(s) - 1,
         \A i \in 1 .. Len(t) : t[i] = s[i + 1]
  PROVE  t = Tail(s)
<1>1. /\ Tail(s) \in Seq(S)
      /\ Len(Tail(s)) = Len(s) - 1
      /\ \A i \in 1 .. Len(Tail(s)) : Tail(s)[i] = s[i + 1]
  BY HeadTailProperties
<1>2. QED
  BY <1>1, SeqEqual

-----------------------------------------------------------------------------
(* The queue the registers stand for. *)

\* The contents are count words, the registers after the read pointer in order.
ContentsFact ==
    /\ contents \in Seq(Data)
    /\ Len(contents) = count
    /\ \A i \in 1 .. count : contents[i] = array_reg[Ahead(i - 1)]

(* In every well-typed state the contents are a sequence of words.         *)
LEMMA ContentsAre == CountTypes => ContentsFact
<1> SUFFICES ASSUME CountTypes PROVE ContentsFact
    OBVIOUS
<1>1. count \in Nat
  BY DEF CountTypes, Capacity
<1>2. \A i \in 1 .. count : Ahead(i - 1) \in Slots
  BY DEF CountTypes, Capacity, Ahead, Slots
<1>3. contents \in [1 .. count -> Data]
  BY <1>1, <1>2 DEF contents, CountTypes
<1>4. contents \in Seq(Data)
  BY <1>1, <1>3, SeqDef
<1>5. Len(contents) = count
  BY <1>1, <1>3, <1>4, LenProperties
<1>6. QED
  BY <1>4, <1>5 DEF contents, ContentsFact

-----------------------------------------------------------------------------
(* The refinement. *)

(* Every step of the circuit under the counting client is a step of the    *)
(* bounded queue or leaves its contents alone.                             *)
LEMMA QueueStep == IInv /\ IInv' /\ ContentsFact /\ ContentsFact' /\ [CNext]_clientVars
                     => [Queue!Next]_(Queue!vars)
<1> SUFFICES ASSUME IInv, IInv', ContentsFact, ContentsFact', [CNext]_clientVars
             PROVE  [Queue!Next]_(Queue!vars)
    OBVIOUS
<1>t. /\ count \in 0 .. Capacity /\ Capacity \in Nat
      /\ array_reg \in [Slots -> Data]
      /\ r_ptr_reg \in Slots /\ w_ptr_reg \in Slots
      /\ w_ptr_reg = Ahead(count)
      /\ ~full_reg
  BY DEF IInv, CountTypes, CountedApart, Capacity
<1>c. /\ contents \in Seq(Data)
      /\ Len(contents) = count
      /\ \A i \in 1 .. count : contents[i] = array_reg[Ahead(i - 1)]
  BY DEF ContentsFact
<1>n. /\ contents' \in Seq(Data)
      /\ Len(contents') = count'
      /\ \A i \in 1 .. count' : contents'[i] = array_reg'[Ahead(i - 1)']
  BY DEF ContentsFact
<1>h. ASSUME count > 0 PROVE r_data = Head(contents)
  <2>1. Ahead(0) = r_ptr_reg
    BY <1>t DEF Ahead, Slots
  <2>2. Head(contents) = contents[1]
    BY <1>h, <1>c
  <2>3. QED
    BY <1>h, <1>t, <1>c, <2>1, <2>2 DEF r_data
<1>1. ASSUME NEW d \in Data, CWrite(d) PROVE Queue!Put(d)
  <2>1. /\ count < Capacity
        /\ array_reg' = [array_reg EXCEPT ![w_ptr_reg] = d]
        /\ r_ptr_reg' = r_ptr_reg
        /\ count' = count + 1
        /\ io' = [put |-> d, got |-> NoWord]
    BY <1>1, <1>t DEF CWrite, Write, Store
  <2>2. \A k \in 0 .. count : Ahead(k)' = Ahead(k) /\ Ahead(k) \in Slots
    BY <2>1, <1>t DEF Ahead, Slots, Capacity
  <2>3. \A k \in 0 .. count - 1 : Ahead(k) # w_ptr_reg
    BY <2>1, <1>t DEF Ahead, Slots, Capacity
  <2>4. \A i \in 1 .. count : contents'[i] = contents[i]
    BY <2>1, <2>2, <2>3, <1>t, <1>c, <1>n
  <2>5. contents'[count + 1] = d
    BY <2>1, <2>2, <1>t, <1>n
  <2>6. contents' = Append(contents, d)
    BY <2>1, <2>4, <2>5, <1>c, <1>n, IsAppend
  <2>7. QED
    BY <2>1, <2>6, <1>c DEF Queue!Put
<1>2. CASE CRead
  <2>1. /\ count > 0
        /\ r_ptr_reg' = Succ(r_ptr_reg)
        /\ array_reg' = array_reg
        /\ count' = count - 1
        /\ io' = [put |-> NoWord, got |-> r_data]
    BY <1>2 DEF CRead, Read
  <2>2. \A i \in 1 .. count - 1 : Ahead(i - 1)' = Ahead((i + 1) - 1)
    BY <2>1, <1>t DEF Ahead, Slots, Capacity, Succ
  <2>3. \A i \in 1 .. count' : contents'[i] = contents[i + 1]
    BY <2>1, <2>2, <1>t, <1>c, <1>n
  <2>4. contents # << >>
    BY <2>1, <1>c
  <2>5. contents' = Tail(contents)
    BY <2>1, <2>3, <2>4, <1>c, <1>n, IsTail
  <2>6. QED
    BY <1>h, <2>1, <2>4, <2>5 DEF Queue!Next, Queue!Get, Queue!vars
<1>3. ASSUME NEW d \in Data, CWriteRead(d) PROVE Queue!PutGet(d)
  <2>1. /\ count > 0
        /\ array_reg' = [array_reg EXCEPT ![w_ptr_reg] = d]
        /\ r_ptr_reg' = Succ(r_ptr_reg)
        /\ count' = count
        /\ io' = [put |-> d, got |-> r_data]
    BY <1>3, <1>t DEF CWriteRead, WriteRead, Store
  <2>2. \A k \in 0 .. count - 1 : Ahead(k)' = Ahead(k + 1) /\ Ahead(k + 1) \in Slots
    BY <2>1, <1>t DEF Ahead, Slots, Capacity, Succ
  <2>3. \A k \in 1 .. count - 1 : Ahead(k) # w_ptr_reg
    BY <2>1, <1>t DEF Ahead, Slots, Capacity
  <2>4. contents # << >>
    BY <2>1, <1>c
  <2>5. /\ Tail(contents) \in Seq(Data)
        /\ Len(Tail(contents)) = count - 1
        /\ \A i \in 1 .. count - 1 : Tail(contents)[i] = contents[i + 1]
    BY <2>4, <1>c, HeadTailProperties
  <2>6. \A i \in 1 .. count - 1 : contents'[i] = Tail(contents)[i]
    BY <2>1, <2>2, <2>3, <2>5, <1>t, <1>c, <1>n
  <2>7. contents'[count] = d
    BY <2>1, <2>2, <1>t, <1>n
  <2>8. contents' = Append(Tail(contents), d)
    BY <2>1, <2>5, <2>6, <2>7, <1>t, <1>n, IsAppend
  <2>9. QED
    BY <1>h, <2>1, <2>4, <2>8 DEF Queue!PutGet
<1>4. CASE CReset
  <2>1. count' = 0 /\ io' = [put |-> NoWord, got |-> NoWord]
    BY <1>4 DEF CReset
  <2>2. contents' = << >>
    BY <2>1, <1>n, EmptySeq
  <2>3. QED
    BY <2>1, <2>2 DEF Queue!Next, Queue!Clear, Queue!Idle
<1>5. CASE UNCHANGED clientVars
  BY <1>5 DEF clientVars, fifoVars, contents, Ahead, Queue!vars
<1>6. QED
  BY <1>1, <1>2, <1>3, <1>4, <1>5 DEF CNext, CUse, Queue!Next

-----------------------------------------------------------------------------
(* The client that goes by the flags. *)

FlagInv == FlagTypes /\ UnreadInWindow

\* Window as a function of the two pointers.
Between(w, r) == IF r <= w THEN r .. w - 1 ELSE Slots \ (w .. r - 1)

(* The register a write uses joins the window, and the others stay.        *)
LEMMA WindowAfterWrite ==
  ASSUME NEW w \in Slots, NEW r \in Slots, Succ(w) # r
  PROVE  Between(w, r) \cup {w} \subseteq Between(Succ(w), r)
BY DEF Slots, Succ, Between

(* Nothing but the register read leaves the window.                        *)
LEMMA WindowAfterRead ==
  ASSUME NEW w \in Slots, NEW r \in Slots, w # r
  PROVE  Between(w, r) \ {r} \subseteq Between(w, Succ(r))
BY DEF Slots, Succ, Between

(* A write and a read at once move the window by one register, if it holds *)
(* one.                                                                    *)
LEMMA WindowAfterBoth ==
  ASSUME NEW w \in Slots, NEW r \in Slots, w # r
  PROVE  (Between(w, r) \ {r}) \cup {w} \subseteq Between(Succ(w), Succ(r))
BY DEF Slots, Succ, Between

(* The window of a buffer just read when full is all but the register read. *)
LEMMA WindowAfterFullRead ==
  ASSUME NEW w \in Slots
  PROVE  Slots \ {w} \subseteq Between(w, Succ(w))
BY DEF Slots, Succ, Between

(* The window is empty when the pointers are equal, and never holds the    *)
(* register about to be written.                                           *)
LEMMA WindowExcludesWritePointer ==
  ASSUME NEW w \in Slots, NEW r \in Slots
  PROVE  w \notin Between(w, r) /\ (w = r => Between(w, r) = {})
BY DEF Slots, Between

(* The pointers meet only when full, or with nothing unread.               *)
LEMMA PointersMeet ==
  ASSUME FlagInv, ~full_reg
  PROVE  /\ unread \subseteq Between(w_ptr_reg, r_ptr_reg)
         /\ w_ptr_reg \notin unread
         /\ unread # {} => w_ptr_reg # r_ptr_reg
<1>1. w_ptr_reg \in Slots /\ r_ptr_reg \in Slots
  BY DEF FlagInv, FlagTypes
<1>2. unread \subseteq Between(w_ptr_reg, r_ptr_reg)
  BY DEF FlagInv, UnreadInWindow, Window, Between
<1>3. QED
  BY <1>1, <1>2, WindowExcludesWritePointer, Zenon

(* No use of the ports breaks the types.                                   *)
LEMMA FlagTypesStep ==
  ASSUME FlagTypes, [FNext]_flaggedVars
  PROVE  FlagTypes'
<1> USE DEF FlagTypes
<1>1. ASSUME NEW d \in Data, FWrite(d) PROVE FlagTypes'
  <2>1. /\ array_reg' = [array_reg EXCEPT ![w_ptr_reg] = d]
        /\ w_ptr_reg' = Succ(w_ptr_reg)
        /\ r_ptr_reg' = r_ptr_reg
        /\ full_reg' = (Succ(w_ptr_reg) = r_ptr_reg)
        /\ empty_reg' = FALSE
        /\ unread' = unread \cup {w_ptr_reg}
    BY <1>1 DEF FWrite, Write, Store
  <2>2. array_reg' \in [Slots -> Data] /\ unread' \in SUBSET Slots
    BY <2>1
  <2>3. w_ptr_reg' \in Slots /\ r_ptr_reg' \in Slots
    BY <2>1 DEF Slots, Succ
  <2>4. full_reg' \in BOOLEAN
    BY <2>1, Zenon
  <2>5. QED
    BY <2>1, <2>2, <2>3, <2>4
<1>2. ASSUME NEW d \in Data, FWriteRead(d) PROVE FlagTypes'
  <2>1. /\ array_reg' = IF full_reg THEN array_reg
                                    ELSE [array_reg EXCEPT ![w_ptr_reg] = d]
        /\ w_ptr_reg' = Succ(w_ptr_reg)
        /\ r_ptr_reg' = Succ(r_ptr_reg)
        /\ UNCHANGED <<full_reg, empty_reg>>
        /\ unread' = (unread \ {r_ptr_reg}) \cup (IF full_reg THEN {} ELSE {w_ptr_reg})
    BY <1>2 DEF FWriteRead, WriteRead, Store
  <2>2. array_reg' \in [Slots -> Data] /\ unread' \in SUBSET Slots
    BY <2>1
  <2>3. w_ptr_reg' \in Slots /\ r_ptr_reg' \in Slots
    BY <2>1 DEF Slots, Succ
  <2>4. QED
    BY <2>1, <2>2, <2>3
<1>3. CASE FRead
  <2>1. /\ r_ptr_reg' = Succ(r_ptr_reg)
        /\ full_reg' = FALSE
        /\ empty_reg' = (Succ(r_ptr_reg) = Succ(w_ptr_reg))
        /\ UNCHANGED <<array_reg, w_ptr_reg>>
        /\ unread' = unread \ {r_ptr_reg}
    BY <1>3 DEF FRead, Read
  <2>2. unread' \in SUBSET Slots /\ r_ptr_reg' \in Slots
    BY <2>1 DEF Slots, Succ
  <2>3. empty_reg' \in BOOLEAN
    BY <2>1, Zenon
  <2>4. QED
    BY <2>1, <2>2, <2>3
<1>4. CASE FReset
  <2>1. /\ array_reg' \in [Slots -> Data]
        /\ w_ptr_reg' = 0 /\ r_ptr_reg' = 0
        /\ full_reg' = FALSE /\ empty_reg' = TRUE
        /\ unread' = {}
    BY <1>4 DEF FReset, FifoReset
  <2>2. 0 \in Slots
    BY DEF Slots
  <2>3. QED
    BY <2>1, <2>2
<1>5. CASE UNCHANGED flaggedVars
  BY <1>5 DEF flaggedVars, fifoVars
<1>6. QED
  BY <1>1, <1>2, <1>3, <1>4, <1>5 DEF FNext, FUse

(* Every word not yet read stays between the pointers, or the buffer is    *)
(* full.                                                                   *)
LEMMA FlagStep == FlagInv /\ [FNext]_flaggedVars => FlagInv'
<1> SUFFICES ASSUME FlagInv, [FNext]_flaggedVars PROVE FlagInv'
    OBVIOUS
<1>p. FlagTypes /\ FlagTypes'
  BY FlagTypesStep DEF FlagInv
<1>t. /\ w_ptr_reg \in Slots /\ r_ptr_reg \in Slots
      /\ unread \in SUBSET Slots
      /\ full_reg => w_ptr_reg = r_ptr_reg
  BY <1>p DEF FlagTypes, FlagInv, UnreadInWindow
<1>w. Window' = Between(w_ptr_reg', r_ptr_reg')
  BY DEF Window, Between, Slots
<1>u. ~full_reg => /\ unread \subseteq Between(w_ptr_reg, r_ptr_reg)
                   /\ unread # {} => w_ptr_reg # r_ptr_reg
  BY PointersMeet
<1>s. SUFFICES UnreadInWindow'
  BY <1>p DEF FlagInv
<1>1. ASSUME NEW d \in Data, FWrite(d) PROVE UnreadInWindow'
  <2>1. /\ ~full_reg
        /\ w_ptr_reg' = Succ(w_ptr_reg)
        /\ r_ptr_reg' = r_ptr_reg
        /\ full_reg' = (Succ(w_ptr_reg) = r_ptr_reg)
        /\ unread' = unread \cup {w_ptr_reg}
    BY <1>1 DEF FWrite, Write
  <2>2. CASE Succ(w_ptr_reg) = r_ptr_reg
    BY <2>1, <2>2, Zenon DEF UnreadInWindow
  <2>3. CASE Succ(w_ptr_reg) # r_ptr_reg
    BY <2>1, <2>3, <1>t, <1>u, <1>w, WindowAfterWrite DEF UnreadInWindow
  <2>4. QED
    BY <2>2, <2>3
<1>2. ASSUME NEW d \in Data, FWriteRead(d) PROVE UnreadInWindow'
  <2>1. /\ unread # {}
        /\ w_ptr_reg' = Succ(w_ptr_reg)
        /\ r_ptr_reg' = Succ(r_ptr_reg)
        /\ full_reg' = full_reg
        /\ unread' = (unread \ {r_ptr_reg}) \cup (IF full_reg THEN {} ELSE {w_ptr_reg})
    BY <1>2 DEF FWriteRead, WriteRead
  <2>2. CASE full_reg
    BY <2>1, <2>2, <1>t DEF UnreadInWindow
  <2>3. CASE ~full_reg
    BY <2>1, <2>3, <1>t, <1>u, <1>w, WindowAfterBoth DEF UnreadInWindow
  <2>4. QED
    BY <2>2, <2>3
<1>3. CASE FRead
  <2>1. /\ r_ptr_reg' = Succ(r_ptr_reg)
        /\ w_ptr_reg' = w_ptr_reg
        /\ full_reg' = FALSE
        /\ unread' = unread \ {r_ptr_reg}
    BY <1>3 DEF FRead, Read
  <2>2. CASE full_reg
    BY <2>1, <2>2, <1>t, <1>w, WindowAfterFullRead DEF UnreadInWindow
  <2>3. CASE ~full_reg /\ unread # {}
    BY <2>1, <2>3, <1>t, <1>u, <1>w, WindowAfterRead DEF UnreadInWindow
  <2>4. CASE ~full_reg /\ unread = {}
    BY <2>4, <2>1 DEF UnreadInWindow
  <2>5. QED
    BY <2>2, <2>3, <2>4
<1>4. CASE FReset
  BY <1>4 DEF FReset, FifoReset, UnreadInWindow
<1>5. CASE UNCHANGED flaggedVars
  BY <1>5, <1>t, <1>u, <1>w DEF flaggedVars, fifoVars, UnreadInWindow
<1>6. QED
  BY <1>1, <1>2, <1>3, <1>4, <1>5 DEF FNext, FUse

(* A register that holds a word waiting to be read is not written.         *)
LEMMA UnreadStays ==
  ASSUME FlagInv, [FNext]_flaggedVars
  PROVE  \A s \in unread \cap unread' : array_reg'[s] = array_reg[s]
<1> SUFFICES ASSUME NEW s \in unread \cap unread'
             PROVE  array_reg'[s] = array_reg[s]
    OBVIOUS
<1>t. array_reg \in [Slots -> Data] /\ s \in Slots
  BY DEF FlagInv, FlagTypes
<1>w. ~full_reg => w_ptr_reg # s
  BY PointersMeet
<1>1. ASSUME NEW d \in Data, FWrite(d) \/ FWriteRead(d)
      PROVE  array_reg'[s] = array_reg[s]
  <2>1. array_reg' = IF full_reg THEN array_reg
                                 ELSE [array_reg EXCEPT ![w_ptr_reg] = d]
    BY <1>1 DEF FWrite, Write, FWriteRead, WriteRead, Store
  <2>2. QED
    BY <2>1, <1>t, <1>w
<1>2. CASE FRead \/ UNCHANGED flaggedVars
  BY <1>2 DEF FRead, Read, flaggedVars, fifoVars
<1>3. CASE FReset
  BY <1>3 DEF FReset
<1>4. QED
  BY <1>1, <1>2, <1>3 DEF FNext, FUse

-----------------------------------------------------------------------------
(* Either client. *)

(* What reset leaves suits both clients.                                   *)
LEMMA FreshInv == CInit /\ unread = {} => IInv /\ FlagInv
<1> SUFFICES ASSUME CInit, unread = {} PROVE FlagInv
    BY IInvInit
<1>1. CountTypes
  BY IInvInit DEF IInv
<1>2. FlagTypes
  BY <1>1 DEF CountTypes, FlagTypes
<1>3. UnreadInWindow
  BY DEF CInit, FifoInit, UnreadInWindow
<1>4. QED
  BY <1>2, <1>3 DEF FlagInv

\* The invariant of the client that is using the FIFO; the other one's
\* bookkeeping is as reset left it.
UseInv ==
    \/ IInv /\ client = "counts" /\ unread = {}
    \/ FlagInv /\ client = "flags" /\ count = 0 /\ io = [put |-> NoWord, got |-> NoWord]

(* A reset leaves the registers as they were at first.                     *)
LEMMA ResetInv == UseReset => UseInv'
<1>1. UseReset => (CInit /\ unread = {})' /\ client' \in Clients
  BY DEF UseReset, CReset, FifoReset, CInit, FifoInit
<1>2. (CInit /\ unread = {})' => (IInv /\ FlagInv)'
  BY FreshInv, PTL
<1>3. UseReset => (count = 0 /\ io = [put |-> NoWord, got |-> NoWord] /\ unread = {})'
  BY DEF UseReset, CReset
<1>4. QED
  BY <1>1, <1>2, <1>3 DEF UseInv, Clients

(* Each client keeps its invariant, and leaves the other's bookkeeping.    *)
LEMMA UseStep == UseInv /\ [UseNext]_useVars => UseInv'
<1> SUFFICES ASSUME UseInv, [UseNext]_useVars PROVE UseInv'
    OBVIOUS
<1>1. CASE CountsWords
  <2>1. IInv /\ client = "counts" /\ unread = {} /\ CNext
    BY <1>1 DEF CountsWords, UseInv, CNext
  <2>2. IInv'
    BY <2>1, IInvStep
  <2>3. QED
    BY <1>1, <2>1, <2>2 DEF CountsWords, UseInv
<1>2. CASE GoesByFlags
  <2>1. /\ FlagInv /\ client = "flags" /\ FNext
        /\ count = 0 /\ io = [put |-> NoWord, got |-> NoWord]
    BY <1>2 DEF GoesByFlags, UseInv, FNext
  <2>2. FlagInv'
    BY <2>1, FlagStep
  <2>3. QED
    BY <1>2, <2>1, <2>2 DEF GoesByFlags, UseInv
<1>3. CASE UseReset
  BY <1>3, ResetInv
<1>4. CASE UNCHANGED useVars
  <2>1. UNCHANGED clientVars /\ UNCHANGED flaggedVars /\ UNCHANGED <<count, io, unread, client>>
    BY <1>4 DEF useVars, clientVars, flaggedVars, fifoVars
  <2>2. (IInv => IInv') /\ (FlagInv => FlagInv')
    BY <2>1, IInvStep, FlagStep
  <2>3. QED
    BY <2>1, <2>2 DEF UseInv
<1>5. QED
  BY <1>1, <1>2, <1>3, <1>4 DEF UseNext

(* The first state suits whichever client it has.                          *)
LEMMA UseInvInit == UseInit => UseInv
<1>1. UseInit => IInv /\ FlagInv
  BY FreshInv DEF UseInit, FInit
<1>2. UseInit => count = 0 /\ io = [put |-> NoWord, got |-> NoWord] /\ unread = {}
  BY DEF UseInit, CInit, FInit
<1>3. QED
  BY <1>1, <1>2 DEF UseInit, UseInv, Clients

(* The registers are well typed whichever client uses the FIFO.            *)
LEMMA UseTypes == UseInv => CountTypes /\ UseTypeOK
<1> SUFFICES ASSUME UseInv PROVE CountTypes /\ UseTypeOK
    OBVIOUS
<1>1. CASE IInv /\ client = "counts" /\ unread = {}
  BY <1>1 DEF IInv, UseTypeOK, Clients
<1>2. CASE FlagInv /\ client = "flags" /\ count = 0 /\ io = [put |-> NoWord, got |-> NoWord]
  <2>1. count \in 0 .. Capacity /\ io \in [put : Data \cup {NoWord}, got : Data \cup {NoWord}]
    BY <1>2 DEF Capacity
  <2>2. FlagTypes
    BY <1>2 DEF FlagInv
  <2>3. CountTypes
    BY <2>1, <2>2 DEF FlagTypes, CountTypes
  <2>4. QED
    BY <1>2, <2>2, <2>3 DEF FlagTypes, UseTypeOK, Clients
<1>3. QED
  BY <1>1, <1>2 DEF UseInv

(* Every register always holds a value of its width, and the count never   *)
(* exceeds what the buffer can hold.                                       *)
THEOREM UseTypeCorrect == UseSpec => []UseTypeOK
<1>1. UseInv => UseTypeOK
  BY UseTypes
<1>2. QED
  BY <1>1, UseInvInit, UseStep, PTL DEF UseSpec

(* For the client that counts, the write pointer is always count registers *)
(* ahead of the read pointer, full is never raised, and empty only with    *)
(* nothing stored.                                                         *)
THEOREM DistanceCorrect == UseSpec => []CountIsDistance
<1>1. UseInv => CountIsDistance
  BY DEF UseInv, IInv, CountIsDistance
<1>2. QED
  BY <1>1, UseInvInit, UseStep, PTL DEF UseSpec

(* A step of either client is a step of the queue; those of the client     *)
(* that goes by the flags leave it empty.                                  *)
LEMMA UseQueueStep ==
  UseInv /\ UseInv' /\ ContentsFact /\ ContentsFact' /\ [UseNext]_useVars
    => [Queue!Next]_(Queue!vars)
<1> SUFFICES ASSUME UseInv, UseInv', ContentsFact, ContentsFact', [UseNext]_useVars
             PROVE  [Queue!Next]_(Queue!vars)
    OBVIOUS
<1>1. CASE CountsWords
  <2>1. IInv /\ IInv' /\ CNext
    BY <1>1 DEF CountsWords, UseInv, CNext
  <2>2. QED
    BY <2>1, QueueStep
<1>2. CASE UseReset
  <2>1. contents' = << >> /\ io' = Queue!Idle
    BY <1>2, EmptySeq DEF UseReset, CReset, ContentsFact, Queue!Idle
  <2>2. QED
    BY <2>1 DEF Queue!Next, Queue!Clear
<1>3. CASE GoesByFlags
  <2>1. count = 0 /\ count' = 0 /\ io' = io
    BY <1>3 DEF GoesByFlags, UseInv
  <2>2. contents = << >> /\ contents' = << >>
    BY <2>1, EmptySeq DEF ContentsFact
  <2>3. QED
    BY <2>1, <2>2 DEF Queue!vars
<1>4. CASE UNCHANGED useVars
  BY <1>4 DEF useVars, fifoVars, contents, Ahead, Queue!vars
<1>5. QED
  BY <1>1, <1>2, <1>3, <1>4 DEF UseNext

(* For every depth and every set of words the circuit, used by a client    *)
(* that counts its words, is a first-in first-out queue of Depth - 1.      *)
THEOREM Implementation == UseSpec => ImplementsQueue
<1>1. UseInit /\ ContentsFact => Queue!Init
  BY EmptySeq DEF UseInit, CInit, ContentsFact, Queue!Init, Queue!Idle
<1>2. UseInv => ContentsFact
  BY ContentsAre, UseTypes
<1>3. QED
  BY <1>1, <1>2, UseInvInit, UseStep, UseQueueStep, PTL DEF UseSpec, ImplementsQueue, Queue!Spec

(* A client who writes when not full and reads when not empty never has a  *)
(* word overwritten that it has not read, also in the cycles in which it   *)
(* does both.                                                              *)
THEOREM OverwriteFree == UseSpec => NothingOverwritten
<1>1. UseInv /\ [UseNext]_useVars
        => [\A s \in unread \cap unread' : array_reg'[s] = array_reg[s]]_flaggedVars
  <2> SUFFICES ASSUME UseInv, [UseNext]_useVars
               PROVE  \/ \A s \in unread \cap unread' : array_reg'[s] = array_reg[s]
                      \/ UNCHANGED flaggedVars
      OBVIOUS
  <2>1. CASE CountsWords \/ UseReset
    <3>1. unread \cap unread' = {}
      BY <2>1 DEF CountsWords, UseReset, UseInv
    <3>2. QED
      BY <3>1
  <2>2. CASE GoesByFlags
    <3>1. FlagInv /\ FNext
      BY <2>2 DEF GoesByFlags, UseInv, FNext
    <3>2. QED
      BY <3>1, UnreadStays
  <2>3. CASE UNCHANGED useVars
    BY <2>3 DEF useVars, flaggedVars, fifoVars
  <2>4. QED
    BY <2>1, <2>2, <2>3 DEF UseNext
<1>2. QED
  BY <1>1, UseInvInit, UseStep, PTL DEF UseSpec, NothingOverwritten
===================================================================================
