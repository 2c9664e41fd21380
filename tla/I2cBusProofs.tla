------------------------------ MODULE I2cBusProofs ------------------------------
(***************************************************************************)
(* For every bit time and word length, whatever the device does: the types *)
(* of all registers, and that busy rises once for each request of a client *)
(* that waits for the idle bus.  For a master used as WellUsed says, the   *)
(* rules of the bus, and that the bytes and acknowledges cross it: the     *)
(* inductive invariant has the clock outputs as functions of the count     *)
(* (ClockInv), and for every state of the master where the device is, what *)
(* it has of the byte under way and what is still due to it (Together).    *)
(***************************************************************************)
EXTENDS I2cBus, SequenceTheorems, TLAPS

USE SizeAssumption, BusAssumption

-----------------------------------------------------------------------------
(* busy and the requests. *)

\* busy is low only in ready, and between taking a request in the middle of a
\* transaction and the bit that follows.
BusyInv ==
    /\ busy \in Bit
    /\ rises = IF state = "ready" THEN 1 ELSE busy
    /\ state \in {"command", "slv_ack1", "slv_ack2", "mstr_ack", "stop"} => busy = 1

(* Each step of the state machine keeps busy and the count of its rises    *)
(* together.                                                               *)
LEMMA BusyStep ==
    ASSUME WaitsForIdle, BusyInv, [Next]_vars
    PROVE  BusyInv'
<1> USE DEF BusyInv, Bit
<1>1. CASE BAccept
  BY <1>1 DEF BAccept, Accept, BusyRose
<1>2. CASE BContinue
  BY <1>2 DEF BContinue, Continue
<1>3. CASE BComplete
  BY <1>3 DEF BComplete, Complete
<1>4. CASE BRdLast
  BY <1>4 DEF BRdLast, RdLast, BusyRose
<1>5. CASE BBits
  <2>1. rises' = rises + BusyRose
    BY <1>5 DEF BBits
  <2>2. CASE Idle
    BY <2>1, <2>2 DEF Idle, BusyRose
  <2>3. CASE StartBit
    BY <2>1, <2>3 DEF StartBit, BusyRose
  <2>4. CASE Command
    BY <2>1, <2>4 DEF Command, Shift, BusyRose
  <2>5. CASE Wr
    BY <2>1, <2>5 DEF Wr, Resumes, Shift, BusyRose
  <2>6. CASE SlvAck1
    BY <2>1, <2>6 DEF SlvAck1, BusyRose
  <2>7. CASE RdBit
    BY <2>1, <2>7 DEF RdBit, BusyRose
  <2>8. CASE StopBit
    BY <2>1, <2>8 DEF StopBit, BusyRose
  <2>9. QED
    BY <1>5, <2>2, <2>3, <2>4, <2>5, <2>6, <2>7, <2>8 DEF BBits, Bits
<1>6. CASE BFalls
  <2>1. UNCHANGED <<state, busy, rises>>
    BY <1>6 DEF BFalls, StartFalls, AckFalls, RdFalls, StopFalls, OtherFalls, machine
  <2>2. QED
    BY <2>1
<1>7. CASE BNoEdge
  BY <1>7 DEF BNoEdge, NoEdge, machine
<1>8. CASE BReset
  BY <1>8 DEF BReset, Reset
<1>9. CASE UNCHANGED vars
  BY <1>9 DEF vars, masterVars, machine, client
<1>10. QED
  BY <1>1, <1>2, <1>3, <1>4, <1>5, <1>6, <1>7, <1>8, <1>9 DEF Next, Tick

(* A client that raises ena in ready only with busy low sees busy rise     *)
(* once for every request, however its transactions are strung together.   *)
THEOREM BusyCounts ==
    ASSUME WaitsForIdle
    PROVE  Spec => []BusyRisesOnce
<1>1. BInit => BusyInv
  BY DEF BInit, Init, BusyInv, Bit
<1>2. BusyInv /\ [Next]_vars => BusyInv'
  BY BusyStep
<1>3. BusyInv => BusyRisesOnce
  BY DEF BusyInv, BusyRisesOnce, Bit
<1>4. QED
  BY <1>1, <1>2, <1>3, PTL DEF Spec

-----------------------------------------------------------------------------
(* Types. *)

\* The device's shift register is full only while scl is high, and holds a bit
\* to show for as long as the device sends.
ShiftInv ==
    /\ phase = "byte" /\ Len(bits) = Width => scl = 1
    /\ phase = "send" => bits # << >>

TypeInv == TypeOK /\ ShiftInv

(* A bit has at least one clock.                                           *)
LEMMA ZeroCount == 0 \in 0 .. 4 * divider - 1
OBVIOUS

(* An empty shift register.                                                *)
LEMMA NoBits == << >> \in Seq(Bit) /\ Len(<< >>) = 0 /\ Len(<< >>) <= Width
BY EmptySeq

(* The quarter counter wraps in time, stretched or not.                    *)
LEMMA ClocksStep == ClocksOK /\ ClockGen(scl) => ClocksOK'
<1> SUFFICES ASSUME ClocksOK, ClockGen(scl) PROVE ClocksOK'
    OBVIOUS
<1>1. count' \in 0 .. 4 * divider - 1
  <2>1. count \in 0 .. 4 * divider - 1 /\ 4 * divider \in Nat \ {0}
    BY DEF ClocksOK
  <2>2. count' = IF count = 4 * divider - 1 THEN 0
                 ELSE IF stretch THEN count ELSE count + 1
    BY DEF ClockGen, CycleEnd
  <2>3. QED
    BY <2>1, <2>2
<1>2. stretch' \in BOOLEAN
  BY Zenon DEF ClocksOK, ClockGen, Stretches
<1>3. scl_clk' \in Bit /\ data_clk' \in Bit /\ data_clk_prev' \in Bit
  BY DEF ClocksOK, ClockGen, DataClk, Bit
<1>4. QED
  BY <1>1, <1>2, <1>3 DEF ClocksOK

(* A word in the order of the wire.                                        *)
LEMMA InOrderType ==
    ASSUME NEW word \in Word
    PROVE  InOrder(word) \in Seq(Bit) /\ Len(InOrder(word)) = Width
<1>1. \A i \in 1 .. Width : word[Width - i] \in Bit
  BY DEF Word, Msb
<1>2. InOrder(word) \in [1 .. Width -> Bit]
  BY <1>1 DEF InOrder
<1>3. QED
  BY <1>2, SeqDef

(* Whatever the two lines do, the device's registers keep their types.     *)
LEMMA DeviceStep ==
    ASSUME DeviceOK, ShiftInv, Device, sda' \in Bit
    PROVE  DeviceOK' /\ ShiftInv'
<1> USE DEF DeviceOK, ShiftInv
<1> DEFINE Shifts ==
             /\ phase \in {"off", "byte", "ack", "send", "master_ack"}
             /\ bits \in Seq(Bit) /\ Len(bits) <= Width /\ shown \in Word
             /\ ShiftInv
           Flags == isCommand \in BOOLEAN /\ addressed \in BOOLEAN /\ acks \in BOOLEAN
<1>1. hold' \in BOOLEAN
  BY Zenon DEF Device, HoldsClock
<1>2. ASSUME NEW w \in Word, shown' = w, phase' = "send", bits' = InOrder(w)
      PROVE  Shifts'
  BY <1>2, InOrderType, EmptySeq
<1>3. ASSUME Loads PROVE Shifts'
  <2>1. Released \in Word
    BY DEF Released, Word, Bit
  <2>2. shown' \in Word /\ phase' = "send" /\ bits' = InOrder(shown')
    BY <1>3, <2>1 DEF Loads
  <2>3. QED
    BY <2>2, <1>2
<1>4. ASSUME bits' = << >>, phase' \in {"off", "byte"}, shown' = shown
      PROVE  Shifts'
  BY <1>4, EmptySeq
<1>5. ASSUME SclFalls PROVE Shifts' /\ Flags'
  <2>1. CASE EndsByte
    <3>1. acks' \in BOOLEAN /\ addressed' \in BOOLEAN /\ isCommand' = isCommand
      BY <2>1 DEF EndsByte
    <3>2. QED
      BY <2>1, <3>1 DEF EndsByte
  <2>2. CASE EndsAck
    BY <2>2, <1>3, <1>4 DEF EndsAck, Listens
  <2>3. CASE EndsBit
    <3>1. Tail(bits) \in Seq(Bit) /\ Len(Tail(bits)) = Len(bits) - 1 /\ Len(bits) \in Nat
      BY <2>3, HeadTailProperties, LenProperties DEF EndsBit
    <3>2. phase' = "send" => Tail(bits) # << >>
      <4>1. phase' = "send" => Len(Tail(bits)) # 0
        BY <2>3, <3>1 DEF EndsBit
      <4>2. QED
        BY <4>1, NoBits
    <3>3. QED
      BY <2>3, <3>1, <3>2 DEF EndsBit
  <2>4. CASE EndsMasterAck
    BY <2>4, <1>3 DEF EndsMasterAck
  <2>5. ASSUME phase = "off" \/ (phase = "byte" /\ Len(bits) < Width),
               UNCHANGED <<phase, bits, isCommand, addressed, acks, shown>>
        PROVE  Shifts' /\ Flags'
    BY <2>5
  <2>6. QED
    BY <1>5, <2>1, <2>2, <2>3, <2>4, <2>5 DEF SclFalls
<1>6. ASSUME Samples, scl # 1, scl' = 1 PROVE Shifts' /\ Flags'
  <2>1. CASE phase = "byte"
    <3>1. bits' = Append(bits, sda') /\ Len(bits) < Width
      BY <1>6, <2>1, LenProperties DEF Samples
    <3>2. bits' \in Seq(Bit) /\ Len(bits') = Len(bits) + 1
      BY <3>1, AppendProperties
    <3>3. QED
      BY <1>6, <2>1, <3>1, <3>2, LenProperties DEF Samples
  <2>2. CASE phase # "byte"
    BY <1>6, <2>2 DEF Samples
  <2>3. QED
    BY <2>1, <2>2
<1>7. ASSUME SeesStart \/ SeesStop PROVE Shifts' /\ Flags'
  BY <1>7, <1>4 DEF SeesStart, SeesStop
<1>8. ASSUME UNCHANGED <<phase, bits, isCommand, addressed, acks, shown>>,
             scl' = 1 \/ scl # 1
      PROVE  Shifts' /\ Flags'
  BY <1>8
<1>9. Shifts' /\ Flags'
  BY <1>5, <1>6, <1>7, <1>8 DEF Device
<1>10. QED
  BY <1>1, <1>9

(* A step of the state machine keeps the machine's types.                  *)
LEMMA MachineEdge ==
    ASSUME MachineOK, NEW b \in Bit,
           \/ Bits \/ StartFalls \/ AckFalls(b) \/ RdFalls(b) \/ StopFalls
           \/ OtherFalls \/ NoEdge
    PROVE  MachineOK'
<1> USE DEF MachineOK
<1>1. \A w \in Word, i \in 0 .. Msb : w[i] \in Bit
  BY DEF Word, Msb
<1>2. Msb \in Nat /\ 0 \in 0 .. Msb /\ Msb \in 0 .. Msb
  BY DEF Msb
<1>3. ASSUME NEW byte \in Word, NEW ack \in {"slv_ack1", "slv_ack2"},
             Shift(byte, ack)
      PROVE  /\ bit_cnt' \in 0 .. Msb /\ sda_int' \in Bit
             /\ state' \in {ack, state}
             /\ UNCHANGED <<addr_rw, data_tx, data_rx, data_rd, scl_ena, ack_error>>
  <2>1. CASE bit_cnt = 0
    BY <1>2, <1>3, <2>1 DEF Shift, LastBit, Bit
  <2>2. CASE bit_cnt # 0
    <3>1. bit_cnt - 1 \in 0 .. Msb
      BY <1>2, <2>2
    <3>2. QED
      BY <1>1, <1>3, <2>2, <3>1 DEF Shift, LastBit, NextBit
  <2>3. QED
    BY <2>1, <2>2
<1>4. CASE Idle
  BY <1>4 DEF Idle, Bit
<1>5. CASE StartBit
  BY <1>1, <1>5 DEF StartBit, Bit
<1>6. CASE Command
  BY <1>3, <1>6 DEF Command
<1>7. CASE Wr
  BY <1>3, <1>7 DEF Wr, Resumes, Bit
<1>8. CASE SlvAck1
  BY <1>1, <1>8 DEF SlvAck1, Bit
<1>9. CASE RdBit
  <2>1. bit_cnt - 1 \in 0 .. Msb
    BY <1>2, <1>9 DEF RdBit, LastBit
  <2>2. QED
    BY <1>9, <2>1 DEF RdBit, Bit
<1>10. CASE StopBit
  BY <1>10 DEF StopBit, Bit
<1>11. CASE StartFalls
  BY <1>11 DEF StartFalls, ErrorCleared, Bit
<1>12. CASE AckFalls(b)
  BY <1>12 DEF AckFalls, Bit
<1>13. CASE RdFalls(b)
  BY <1>13 DEF RdFalls, RxIndex, Word
<1>14. CASE StopFalls
  BY <1>14 DEF StopFalls, Bit
<1>15. CASE OtherFalls \/ NoEdge
  BY <1>15 DEF OtherFalls, NoEdge, machine
<1>16. QED
  BY <1>4, <1>5, <1>6, <1>7, <1>8, <1>9, <1>10, <1>11, <1>12, <1>13, <1>14, <1>15 DEF Bits

(* The steps that take the client's inputs.                                *)
LEMMA MachineRequest ==
    ASSUME MachineOK, NEW cmd \in Word, NEW data \in Word, NEW ena,
           \/ Accept(cmd, data) \/ Continue(cmd, data) \/ Complete
           \/ RdLast(ena, cmd)
    PROVE  MachineOK'
<1> USE DEF MachineOK
<1>1. \A w \in Word, i \in 0 .. Msb : w[i] \in Bit
  BY DEF Word, Msb
<1>2. Msb \in 0 .. Msb
  BY DEF Msb
<1>3. CASE Accept(cmd, data)
  BY <1>3 DEF Accept, Bit
<1>4. CASE Continue(cmd, data)
  BY <1>1, <1>4 DEF Continue, Bit
<1>5. CASE Complete
  BY <1>5 DEF Complete
<1>6. CASE RdLast(ena, cmd)
  BY <1>2, <1>6 DEF RdLast, Bit
<1>7. QED
  BY <1>3, <1>4, <1>5, <1>6

(* No step of master, device or reset breaks a type.                       *)
LEMMA TypeStep == TypeInv /\ [Next]_vars => TypeInv'
<1> SUFFICES ASSUME TypeInv, [Next]_vars PROVE TypeInv'
    OBVIOUS
<1> USE DEF TypeInv, TypeOK
<1>1. sda \in Bit /\ sda' \in Bit
  BY DEF sda, Bit
<1>2. ASSUME ClockGen(scl), Device, MachineOK' PROVE TypeInv'
  BY <1>1, <1>2, ClocksStep, DeviceStep
<1>3. CASE BAccept
  <2>1. PICK cmd \in Commands, data \in Words :
          Accept(cmd, data) /\ ClockGen(scl) /\ Device
    BY <1>3 DEF BAccept
  <2>2. QED
    BY <1>2, <2>1, MachineRequest
<1>4. CASE BContinue
  <2>1. PICK cmd \in Commands, data \in Words :
          Continue(cmd, data) /\ ClockGen(scl) /\ Device
    BY <1>4 DEF BContinue
  <2>2. QED
    BY <1>2, <2>1, MachineRequest
<1>5. CASE BComplete
  <2>1. MachineOK'
    BY <1>5 DEF BComplete, Complete, MachineOK
  <2>2. QED
    BY <1>2, <1>5, <2>1 DEF BComplete
<1>6. CASE BRdLast
  <2>1. PICK r \in Requests : RdLast(r.ena, r.cmd)
    BY <1>6 DEF BRdLast
  <2>2. Zero \in Word
    BY DEF Zero, Word, Msb, Bit
  <2>3. r = NoRequest \/ (\E c \in Commands : r.cmd = c)
    BY DEF Requests
  <2>4. r.cmd \in Word
    BY <2>2, <2>3 DEF NoRequest
  <2>5. QED
    BY <1>2, <1>6, <2>1, <2>4, MachineRequest DEF BRdLast
<1>7. CASE BBits
  BY <1>1, <1>2, <1>7, MachineEdge DEF BBits
<1>8. CASE BFalls
  BY <1>1, <1>2, <1>8, MachineEdge DEF BFalls
<1>9. CASE BNoEdge
  BY <1>1, <1>2, <1>9, MachineEdge DEF BNoEdge
<1>10. CASE BReset
  <2>1. ClocksOK'
    BY <1>10, ZeroCount DEF BReset, Reset, ClocksOK
  <2>2. MachineOK'
    BY <1>10 DEF BReset, Reset, MachineOK, Msb, Zero, Word, Bit
  <2>3. DeviceOK' /\ ShiftInv'
    BY <1>10, NoBits DEF BReset, DeviceOK, ShiftInv
  <2>4. QED
    BY <2>1, <2>2, <2>3
<1>11. CASE UNCHANGED vars
  BY <1>11 DEF vars, masterVars, clocks, machine, device, ClocksOK, MachineOK,
       DeviceOK, ShiftInv, scl, scl_out
<1>12. QED
  BY <1>3, <1>4, <1>5, <1>6, <1>7, <1>8, <1>9, <1>10, <1>11 DEF Next, Tick

(* Reset leaves every register in its width.                               *)
LEMMA TypeInit == BInit => TypeInv
<1> SUFFICES ASSUME BInit PROVE TypeInv
    OBVIOUS
<1>1. ClocksOK
  BY ZeroCount DEF BInit, Init, ClocksOK
<1>2. MachineOK
  BY DEF BInit, Init, MachineOK, Msb, Zero, Word, Bit
<1>3. DeviceOK /\ ShiftInv
  BY NoBits DEF BInit, Init, DeviceOK, ShiftInv, Zero, Word, Msb, Bit
<1>4. QED
  BY <1>1, <1>2, <1>3 DEF TypeInv, TypeOK

(* Every register of the master and of the device keeps to its width.      *)
THEOREM TypeCorrect == Spec => []TypeOK
<1>1. TypeInv => TypeOK
  BY DEF TypeInv
<1>2. QED
  BY <1>1, TypeInit, TypeStep, PTL DEF Spec

-----------------------------------------------------------------------------
(* The bus. *)

\* What the rules of the bus rest on: a quarter has an inside, so that sda moves
\* well before and after scl; scl is let go and never driven high; the client
\* keeps its request for the acknowledge, and waits for the idle bus.
WellUsed == divider >= 2 /\ OpenDrain /\ HoldsRequest /\ WaitsForIdle

\* The state machine is between the two edges of data_clk ...
Early == count \in divider + 1 .. 3 * divider

\* ... the bit is over, and its successor not yet on the line ...
After == count <= divider

\* ... and the device has the bit.
Sampled == scl = 1

\* The clock process has not run since a reset, and its outputs are unknown.
Fresh == count = 0 /\ state = "ready" /\ busy = 1

\* The outputs follow the count.  scl is held low only up to the third quarter,
\* and the count waits at its beginning.  Coming out of a reset data_clk may
\* have an edge too many, in ready.
ClockInv ==
    /\ stretch => count = 2 * divider /\ scl_ena = 1
    /\ hold => scl_ena = 1 /\ count <= 2 * divider /\ (count = 2 * divider => stretch)
    /\ \/ Fresh
       \/ /\ scl_clk = (IF count >= 2 * divider THEN 1 ELSE 0)
          /\ data_clk = (IF count >= divider /\ count < 3 * divider THEN 1 ELSE 0)
          /\ data_clk_prev = (IF Early THEN 1 ELSE 0) \/ (state = "ready" /\ count = 1)

Steady == UNCHANGED <<phase, bits, isCommand, addressed, acks, shown>>

(* The four quarters of a bit.                                             *)
LEMMA Quarters ==
    ASSUME NEW c \in 0 .. 4 * divider - 1
    PROVE  /\ Quarter(c) \in 0 .. 3
           /\ Quarter(c) >= 2 <=> c >= 2 * divider
           /\ Quarter(c) = 2 <=> c >= 2 * divider /\ c < 3 * divider
           /\ Quarter(c) \in {1, 2} <=> c >= divider /\ c < 3 * divider
<1> DEFINE q == c \div divider
<1>1. q \in Int /\ divider * q <= c /\ c < divider * q + divider
  OBVIOUS
<1>2. divider \in Nat /\ divider >= 1 /\ c \in Nat /\ c < 4 * divider
  OBVIOUS
<1> HIDE DEF q
<1>3. \A k \in Int : q <= k => divider * q <= divider * k
  <2> SUFFICES ASSUME NEW k \in Int, q <= k PROVE divider * q <= divider * k
    OBVIOUS
  <2>1. divider * (k - q) >= 0 /\ divider * k = divider * q + divider * (k - q)
    BY <1>1, <1>2
  <2>2. divider * q \in Int /\ divider * (k - q) \in Int
    BY <1>1, <1>2
  <2>3. QED
    BY <2>1, <2>2
<1>4. \A k \in Int : k <= q => divider * k <= divider * q
  <2> SUFFICES ASSUME NEW k \in Int, k <= q PROVE divider * k <= divider * q
    OBVIOUS
  <2>1. divider * (q - k) >= 0 /\ divider * q = divider * k + divider * (q - k)
    BY <1>1, <1>2
  <2>2. divider * k \in Int /\ divider * (q - k) \in Int
    BY <1>1, <1>2
  <2>3. QED
    BY <2>1, <2>2
<1>5. /\ q <= -1 => divider * q <= -divider
      /\ q <= 0 => divider * q <= 0
      /\ q <= 1 => divider * q <= divider
      /\ q <= 2 => divider * q <= 2 * divider
      /\ 1 <= q => divider <= divider * q
      /\ 2 <= q => 2 * divider <= divider * q
      /\ 3 <= q => 3 * divider <= divider * q
      /\ 4 <= q => 4 * divider <= divider * q
  BY <1>2, <1>3, <1>4
<1>6. divider * q \in Int
  BY <1>1, <1>2
<1> DEFINE dq == divider * q
<1>7. /\ dq \in Int /\ dq <= c /\ c < dq + divider
      /\ q <= -1 => dq <= -divider
      /\ q <= 0 => dq <= 0
      /\ q <= 1 => dq <= divider
      /\ q <= 2 => dq <= 2 * divider
      /\ 1 <= q => divider <= dq
      /\ 2 <= q => 2 * divider <= dq
      /\ 3 <= q => 3 * divider <= dq
      /\ 4 <= q => 4 * divider <= dq
  BY <1>1, <1>5, <1>6
<1> HIDE DEF dq
<1>8. /\ q \in 0 .. 3
      /\ q >= 2 <=> c >= 2 * divider
      /\ q = 2 <=> c >= 2 * divider /\ c < 3 * divider
      /\ q \in {1, 2} <=> c >= divider /\ c < 3 * divider
  BY <1>1, <1>2, <1>7
<1>9. QED
  BY <1>8 DEF q, Quarter

(* What the two lines and the edges of data_clk say of the count.          *)
LEMMA Lines ==
    ASSUME WellUsed, TypeInv, ClockInv, state = "ready" => scl_ena = 0
    PROVE  /\ scl \in {0, 1} /\ divider \in Nat /\ count \in 0 .. 4 * divider - 1
           /\ scl_ena = 0 => Sampled /\ ~hold
           /\ scl_ena = 1 => (Sampled <=> count >= 2 * divider /\ ~hold)
           /\ RisingEdge => count = divider \/ Fresh
           /\ FallingEdge /\ state # "ready" => count = 3 * divider /\ Sampled
           /\ data_clk = data_clk_prev /\ state # "ready" => count # divider /\ count # 3 * divider
<1>1. divider \in Nat /\ divider >= 2 /\ count \in 0 .. 4 * divider - 1 /\ scl_ena \in {0, 1} /\ scl_clk \in {0, 1}
  BY DEF WellUsed, TypeInv, TypeOK, ClocksOK, MachineOK, Bit
<1>2. scl = IF (scl_ena = 1 /\ scl_clk = 0) \/ hold THEN 0 ELSE 1
  BY DEF scl, scl_out, WellUsed
<1>3. scl_ena = 1 => (scl_clk = 1 <=> count >= 2 * divider)
  BY DEF ClockInv, Fresh
<1>4. hold => scl_ena = 1
  BY DEF ClockInv
<1>5. FallingEdge /\ state # "ready" => count = 3 * divider
  BY <1>1 DEF FallingEdge, ClockInv, Fresh, Early
<1>6. RisingEdge => count = divider \/ Fresh
  BY <1>1 DEF RisingEdge, ClockInv, Early
<1>7. data_clk = data_clk_prev /\ state # "ready" => count # divider /\ count # 3 * divider
  BY <1>1 DEF ClockInv, Fresh, Early
<1>8. count = 3 * divider => ~hold
  BY <1>1 DEF ClockInv
<1>9. scl_ena = 0 => Sampled /\ ~hold
  BY <1>2, <1>4 DEF Sampled
<1>10. scl_ena = 1 => (Sampled <=> count >= 2 * divider /\ ~hold)
  BY <1>1, <1>2, <1>3 DEF Sampled
<1>11. FallingEdge /\ state # "ready" => Sampled
  BY <1>1, <1>5, <1>8, <1>9, <1>10
<1>12. scl \in {0, 1}
  BY <1>2
<1>13. QED
  BY <1>1, <1>5, <1>6, <1>7, <1>9, <1>10, <1>11, <1>12

(* What every lemma on a step starts from.                                 *)
Here ==
    /\ WellUsed /\ TypeInv /\ ClockInv /\ (state = "ready" => scl_ena = 0)
    /\ ClockGen(scl) /\ HoldsClock /\ scl_ena' \in Bit /\ ClocksOK'
    /\ scl_ena' = scl_ena \/ count = 3 * divider

(* How the count moves, and what the clock process makes of it.            *)
LEMMA CountMoves ==
    ASSUME Here
    PROVE  /\ count' = IF count = 4 * divider - 1 THEN 0
                       ELSE IF stretch THEN count ELSE count + 1
           /\ data_clk_prev' = data_clk
           /\ scl_clk' = (IF count' >= 2 * divider THEN 1 ELSE 0)
           /\ data_clk' = (IF count' >= divider /\ count' < 3 * divider THEN 1 ELSE 0)
           /\ stretch' = IF count' >= 2 * divider /\ count' < 3 * divider THEN scl = 0 ELSE stretch
           /\ count' \in 0 .. 4 * divider - 1
           /\ scl' = IF (scl_ena' = 1 /\ scl_clk' = 0) \/ hold' THEN 0 ELSE 1
           /\ hold' => hold \/ (scl = 1 /\ scl_ena' = 1 /\ scl_clk' = 0)
           /\ scl_ena' \in {0, 1}
<1>1. count' \in 0 .. 4 * divider - 1 /\ ClockGen(scl)
  BY DEF Here, ClocksOK
<1>2. /\ Quarter(count') >= 2 <=> count' >= 2 * divider
      /\ Quarter(count') = 2 <=> count' >= 2 * divider /\ count' < 3 * divider
      /\ Quarter(count') \in {1, 2} <=> count' >= divider /\ count' < 3 * divider
  BY <1>1, Quarters
<1>3. /\ count' = IF count = 4 * divider - 1 THEN 0 ELSE IF stretch THEN count ELSE count + 1
      /\ data_clk_prev' = data_clk
  BY <1>1 DEF ClockGen, CycleEnd
<1>4. scl_clk' = (IF count' >= 2 * divider THEN 1 ELSE 0)
  BY <1>1, <1>2 DEF ClockGen
<1>5. data_clk' = (IF count' >= divider /\ count' < 3 * divider THEN 1 ELSE 0)
  BY <1>1, <1>2 DEF ClockGen, DataClk
<1>6. stretch' = IF count' >= 2 * divider /\ count' < 3 * divider THEN scl = 0 ELSE stretch
  BY <1>1, <1>2 DEF ClockGen, Stretches
<1>7. scl' = IF (scl_ena' = 1 /\ scl_clk' = 0) \/ hold' THEN 0 ELSE 1
  BY DEF Here, WellUsed, scl, scl_out
<1>8. hold' => hold \/ (scl = 1 /\ scl_ena' = 1 /\ scl_clk' = 0)
  <2>1. hold' \in IF hold \/ (phase # "off" /\ scl = 1 /\ scl_out' = 0) THEN BOOLEAN ELSE {FALSE}
    BY Zenon DEF Here, HoldsClock
  <2>2. hold' => hold \/ (scl = 1 /\ scl_out' = 0)
    <3>1. CASE hold \/ (scl = 1 /\ scl_out' = 0)
      BY <3>1
    <3>2. CASE ~(hold \/ (scl = 1 /\ scl_out' = 0))
      <4>1. hold' \in {FALSE}
        BY <2>1, <3>2, Zenon
      <4>2. ~hold'
        BY <4>1
      <4>3. QED
        BY <4>2
    <3>3. QED
      BY <3>1, <3>2
  <2>3. scl_out' = 0 => scl_ena' = 1 /\ scl_clk' = 0
    BY DEF scl_out
  <2>4. QED
    BY <2>2, <2>3
<1>9. scl_ena' \in {0, 1}
  BY DEF Here, Bit
<1>10. QED
  BY <1>1, <1>3, <1>4, <1>5, <1>6, <1>7, <1>8, <1>9

(* The clock process and the device keep the bit in order.                 *)
LEMMA ClockStep ==
    ASSUME Here, Fresh => state' = "ready"
    PROVE  ClockInv'
<1>1. /\ count' = IF count = 4 * divider - 1 THEN 0
                  ELSE IF stretch THEN count ELSE count + 1
      /\ data_clk_prev' = data_clk
      /\ scl_clk' = (IF count' >= 2 * divider THEN 1 ELSE 0)
      /\ data_clk' = (IF count' >= divider /\ count' < 3 * divider THEN 1 ELSE 0)
      /\ stretch' = IF count' >= 2 * divider /\ count' < 3 * divider THEN scl = 0 ELSE stretch
      /\ count' \in 0 .. 4 * divider - 1
      /\ hold' => hold \/ (scl = 1 /\ scl_ena' = 1 /\ scl_clk' = 0)
      /\ scl_ena' \in {0, 1}
  BY CountMoves
<1>2. /\ scl \in {0, 1} /\ divider \in Nat /\ count \in 0 .. 4 * divider - 1
      /\ scl_ena = 0 => scl = 1 /\ ~hold
      /\ scl_ena = 1 => (scl = 1 <=> count >= 2 * divider /\ ~hold)
      /\ divider >= 2 /\ scl_ena \in {0, 1}
  BY Lines DEF Here, Sampled, TypeInv, TypeOK, MachineOK, Bit, WellUsed
<1>3. /\ stretch => count = 2 * divider /\ scl_ena = 1
      /\ hold => scl_ena = 1 /\ count <= 2 * divider /\ (count = 2 * divider => stretch)
      /\ scl_ena' = scl_ena \/ count = 3 * divider
  BY DEF Here, ClockInv
<1>4. stretch' => count' = 2 * divider /\ scl_ena' = 1
  <2>1. CASE count' >= 2 * divider /\ count' < 3 * divider
    <3>1. stretch' <=> scl = 0
      BY <1>1, <2>1
    <3>2. scl = 0 => scl_ena = 1 /\ (count < 2 * divider \/ hold)
      BY <1>2
    <3>3. scl = 0 => count' = 2 * divider /\ count # 3 * divider
      BY <1>1, <1>2, <1>3, <2>1, <3>2
    <3>4. QED
      BY <1>3, <3>1, <3>2, <3>3
  <2>2. CASE ~(count' >= 2 * divider /\ count' < 3 * divider)
    <3>1. stretch' <=> stretch
      BY <1>1, <2>2
    <3>2. ~stretch
      BY <1>1, <1>2, <1>3, <2>2
    <3>3. QED
      BY <3>1, <3>2
  <2>3. QED
    BY <2>1, <2>2
<1>5. hold' => scl_ena' = 1 /\ count' <= 2 * divider /\ (count' = 2 * divider => stretch')
  <2>1. CASE hold
    <3>1. scl = 0 /\ scl_ena' = 1 /\ count' <= 2 * divider
      BY <1>1, <1>2, <1>3, <2>1
    <3>2. count' = 2 * divider => stretch'
      <4>1. count' = 2 * divider => count' >= 2 * divider /\ count' < 3 * divider
        BY <1>2
      <4>2. QED
        BY <1>1, <3>1, <4>1
    <3>3. QED
      BY <3>1, <3>2
  <2>2. CASE ~hold
    BY <1>1, <1>2, <2>2
  <2>3. QED
    BY <2>1, <2>2
<1>6. data_clk_prev' = (IF Early' THEN 1 ELSE 0) \/ (state' = "ready" /\ count' = 1)
  <2>1. CASE Fresh
    <3>1. count' = 1
      BY <1>1, <1>2, <1>3, <2>1 DEF Fresh
    <3>2. QED
      BY <2>1, <3>1
  <2>2. CASE ~Fresh
    <3>1. data_clk = (IF count >= divider /\ count < 3 * divider THEN 1 ELSE 0)
      BY <2>2 DEF Here, ClockInv
    <3>2. Early' <=> count >= divider /\ count < 3 * divider
      BY <1>1, <1>2, <1>3 DEF Early
    <3>3. QED
      BY <1>1, <3>1, <3>2
  <2>3. QED
    BY <2>1, <2>2
<1>7. QED
  BY <1>1, <1>4, <1>5, <1>6 DEF ClockInv

(* At a rising edge of data_clk the last bit is over, and scl is low for   *)
(* another while.                                                          *)
LEMMA RisingStep ==
    ASSUME Here, Device, RisingEdge, scl_ena' = scl_ena,
           scl_ena = 0 => sda_ena_n' = sda_ena_n
    PROVE  /\ Steady
           /\ scl_ena = 0 => scl = 1 /\ scl' = 1
           /\ scl_ena = 1 => scl # 1 /\ scl' # 1
           /\ ~Fresh => After /\ ~After' /\ ~Early /\ Early' /\ (Sampled' <=> scl_ena = 0)
<1>1. /\ count' = IF count = 4 * divider - 1 THEN 0
                  ELSE IF stretch THEN count ELSE count + 1
      /\ scl_clk' = (IF count' >= 2 * divider THEN 1 ELSE 0)
      /\ count' \in 0 .. 4 * divider - 1
      /\ scl' = IF (scl_ena' = 1 /\ scl_clk' = 0) \/ hold' THEN 0 ELSE 1
      /\ hold' => hold \/ (scl = 1 /\ scl_ena' = 1 /\ scl_clk' = 0)
  BY CountMoves
<1>2. /\ scl \in {0, 1} /\ divider \in Nat /\ divider >= 2 /\ count \in 0 .. 4 * divider - 1
      /\ scl_ena = 0 => scl = 1 /\ ~hold
      /\ scl_ena = 1 => (scl = 1 <=> count >= 2 * divider /\ ~hold)
      /\ count = divider \/ Fresh
      /\ scl_ena \in {0, 1}
  BY Lines DEF Here, Sampled, TypeInv, TypeOK, MachineOK, Bit, WellUsed
<1>3. stretch => count = 2 * divider
  BY DEF Here, ClockInv
<1>4. scl_ena = 1 => ~Fresh
  BY DEF Here, Fresh
<1>5. scl_ena = 0 => scl' = 1
  BY <1>1, <1>2
<1>6. ~Fresh => count = divider /\ count' = divider + 1
  BY <1>1, <1>2, <1>3
<1>7. scl_ena = 1 => scl # 1 /\ scl' # 1
  BY <1>1, <1>2, <1>4, <1>6
<1>8. Steady
  BY <1>2, <1>5, <1>7 DEF Device, Steady
<1>9. ~Fresh => After /\ ~After' /\ ~Early /\ Early' /\ (Sampled' <=> scl_ena = 0)
  BY <1>2, <1>5, <1>6, <1>7 DEF After, Early, Sampled
<1>10. QED
  BY <1>2, <1>5, <1>7, <1>8, <1>9

(* At a falling edge of data_clk scl is high, before and after.            *)
LEMMA FallingStep ==
    ASSUME Here, Device, FallingEdge, state # "ready"
    PROVE  /\ scl = 1 /\ scl' = 1
           /\ Early /\ ~Early' /\ ~After /\ ~After' /\ Sampled /\ Sampled'
           /\ sda_ena_n' = sda_ena_n \/ deviceLow => Steady
           /\ ~(sda_ena_n' = sda_ena_n \/ deviceLow) => IF sda_ena_n' = 0 THEN SeesStart ELSE SeesStop
<1>1. /\ count' = IF count = 4 * divider - 1 THEN 0
                  ELSE IF stretch THEN count ELSE count + 1
      /\ scl_clk' = (IF count' >= 2 * divider THEN 1 ELSE 0)
      /\ scl' = IF (scl_ena' = 1 /\ scl_clk' = 0) \/ hold' THEN 0 ELSE 1
      /\ hold' => hold \/ (scl = 1 /\ scl_ena' = 1 /\ scl_clk' = 0)
  BY CountMoves
<1>2. /\ divider \in Nat /\ divider >= 2 /\ count = 3 * divider /\ scl = 1
  BY Lines DEF Here, Sampled, WellUsed
<1>3. ~stretch /\ ~hold
  BY <1>2 DEF Here, ClockInv
<1>4. count' = 3 * divider + 1 /\ scl' = 1
  BY <1>1, <1>2, <1>3
<1>5. Early /\ ~Early' /\ ~After /\ ~After' /\ Sampled /\ Sampled'
  BY <1>2, <1>4 DEF Early, After, Sampled
<1>6. QED
  BY <1>2, <1>4, <1>5 DEF Device, Steady

\* Between the edges of data_clk the lines stay, scl rises, or scl falls.
Stays == Steady /\ (scl' = 1 <=> scl = 1) /\ (Early' <=> Early) /\ (scl_ena = 1 => (After' <=> After))
Climbs == Samples /\ scl # 1 /\ scl' = 1 /\ ~After /\ ~After' /\ Early /\ Early'
Drops == SclFalls /\ scl = 1 /\ scl' # 1 /\ ~After /\ After' /\ ~Early /\ ~Early'

(* Between the edges of data_clk scl rises, falls, or neither.             *)
LEMMA QuietStep ==
    ASSUME Here, Device, data_clk = data_clk_prev, UNCHANGED machine
    PROVE  /\ sda_ena_n' = sda_ena_n
           /\ state = "ready" => Steady /\ scl = 1 /\ scl' = 1
           /\ state # "ready" => Stays \/ (scl_ena = 1 /\ Climbs) \/ (scl_ena = 1 /\ Drops)
<1>1. /\ count' = IF count = 4 * divider - 1 THEN 0
                  ELSE IF stretch THEN count ELSE count + 1
      /\ data_clk_prev' = data_clk
      /\ scl_clk' = (IF count' >= 2 * divider THEN 1 ELSE 0)
      /\ scl' = IF (scl_ena' = 1 /\ scl_clk' = 0) \/ hold' THEN 0 ELSE 1
      /\ hold' => hold \/ (scl = 1 /\ scl_ena' = 1 /\ scl_clk' = 0)
  BY CountMoves
<1>2. /\ scl \in {0, 1} /\ divider \in Nat /\ divider >= 2 /\ count \in 0 .. 4 * divider - 1
      /\ scl_ena = 0 => scl = 1 /\ ~hold
      /\ scl_ena = 1 => (scl = 1 <=> count >= 2 * divider /\ ~hold)
      /\ scl_ena \in {0, 1}
      /\ state # "ready" => count # divider /\ count # 3 * divider
  BY Lines DEF Here, Sampled, TypeInv, TypeOK, MachineOK, Bit, WellUsed
<1>3. UNCHANGED <<state, sda_int, scl_ena>>
  BY DEF machine
<1>4. sda_ena_n' = sda_ena_n
  BY <1>1, <1>3 DEF sda_ena_n
<1>5. /\ stretch => count = 2 * divider
      /\ hold => count <= 2 * divider /\ (count = 2 * divider => stretch)
  BY DEF Here, ClockInv
<1>6. scl_ena = 0 => scl' = 1
  BY <1>1, <1>2, <1>3
<1>7. Device
  OBVIOUS
<1>8. CASE state = "ready"
  <2>1. scl_ena = 0 /\ scl = 1 /\ scl' = 1
    BY <1>2, <1>6, <1>8 DEF Here
  <2>2. Steady
    BY <1>4, <1>7, <2>1 DEF Device, Steady
  <2>3. QED
    BY <1>4, <1>8, <2>1, <2>2
<1>9. CASE state # "ready"
  <2>1. Early' <=> Early
    BY <1>1, <1>2, <1>5, <1>9 DEF Early
  <2>2. CASE scl = 1 /\ scl' = 1
    <3>1. Steady
      BY <1>4, <1>7, <2>2 DEF Device, Steady
    <3>2. scl_ena = 1 => ~After /\ ~After'
      BY <1>1, <1>2, <1>3, <2>2 DEF After
    <3>3. QED
      BY <1>4, <1>9, <2>1, <2>2, <3>1, <3>2 DEF Stays
  <2>3. CASE scl # 1 /\ scl' # 1
    <3>1. Steady
      BY <1>7, <2>3 DEF Device, Steady
    <3>2. scl_ena = 1
      BY <1>2, <2>3
    <3>3. After' <=> After
      BY <1>1, <1>2, <1>3, <1>5, <1>9, <2>3, <3>2 DEF After
    <3>4. QED
      BY <1>4, <1>9, <2>1, <2>3, <3>1, <3>3 DEF Stays
  <2>4. CASE scl # 1 /\ scl' = 1
    <3>1. Samples /\ scl_ena = 1
      BY <1>2, <1>7, <2>4 DEF Device
    <3>2. count' >= 2 * divider /\ count <= 2 * divider
      BY <1>1, <1>2, <1>3, <1>5, <2>4, <3>1
    <3>3. ~After /\ ~After' /\ Early /\ Early'
      BY <1>1, <1>2, <2>1, <3>2 DEF After, Early
    <3>4. QED
      BY <1>4, <1>9, <2>4, <3>1, <3>3 DEF Climbs
  <2>5. CASE scl = 1 /\ scl' # 1
    <3>1. SclFalls /\ scl_ena = 1
      BY <1>6, <1>2, <1>7, <2>5 DEF Device
    <3>2. count >= 2 * divider /\ count' < 2 * divider
      BY <1>1, <1>2, <1>3, <2>5, <3>1
    <3>3. count = 4 * divider - 1 /\ count' = 0
      BY <1>1, <1>2, <1>5, <3>2
    <3>4. ~After /\ After' /\ ~Early /\ ~Early'
      BY <1>2, <3>3 DEF After, Early
    <3>5. QED
      BY <1>4, <1>9, <2>5, <3>1, <3>4 DEF Drops
  <2>6. QED
    BY <2>2, <2>3, <2>4, <2>5
<1>10. QED
  BY <1>8, <1>9

-----------------------------------------------------------------------------
(* Where the device is in every state of the master. *)

\* The bits of word down to bit_cnt go out, the last of them on the line.
Receives(word) ==
    /\ sda_int = word[bit_cnt]
    /\ phase = IF After /\ bit_cnt = 0 THEN "ack" ELSE "byte"
    /\ Len(bits) = IF After \/ Sampled THEN Width - bit_cnt ELSE Width - bit_cnt - 1
    /\ \A i \in 1 .. Len(bits) : bits[i] = word[Width - i]

\* The device shows its byte from bit j on, or waits for a byte.
Shows(j) ==
    /\ phase = "send" /\ Len(bits) = j + 1
    /\ \A i \in 1 .. j + 1 : bits[i] = shown[j + 1 - i]
Open == phase = "byte" /\ bits = << >> /\ ~isCommand

\* What the device has still to receive of a request, with and without the command.
Whole == Takes(addr_rw, data_tx)
Rest == IF addr_rw[0] = 1 THEN << >> ELSE <<data_tx>>

InReady == scl_ena = 0 /\ phase = "off" /\ sda_int = 1 /\ bit_cnt = Msb /\ due = << >>

InStart ==
    /\ bit_cnt = Msb /\ due = Whole
    /\ Early => phase = "off" \/ (scl_ena = 1 /\ phase = "byte")
    /\ ~Early => scl_ena = 1 /\ phase = "byte" /\ bits = << >> /\ isCommand

InCommand ==
    /\ scl_ena = 1 /\ isCommand /\ Receives(addr_rw)
    /\ due = IF After /\ bit_cnt = 0 THEN Rest ELSE Whole

InSlvAck1 ==
    /\ scl_ena = 1 /\ bit_cnt = Msb /\ sda_int = 1 /\ due = Rest
    /\ ~After => phase = "ack" /\ isCommand /\ bits[Width] = addr_rw[0]
    /\ After => IF addr_rw[0] = 1 THEN Shows(Msb) ELSE Open

InWr ==
    /\ scl_ena = 1 /\ ~isCommand /\ Receives(data_tx) /\ addr_rw[0] # 1
    /\ due = IF After /\ bit_cnt = 0 THEN << >> ELSE <<data_tx>>

InSlvAck2 ==
    /\ scl_ena = 1 /\ bit_cnt = Msb /\ sda_int = 1 /\ due = << >> /\ addr_rw[0] # 1
    /\ IF After THEN Open ELSE phase = "ack" /\ ~isCommand

\* The bits read so far are those shown.
InRd ==
    /\ scl_ena = 1 /\ sda_int = 1 /\ due = << >> /\ addr_rw[0] = 1
    /\ ~After => Shows(bit_cnt)
    /\ After => IF bit_cnt = 0 THEN phase = "master_ack" ELSE Shows(bit_cnt - 1)
    /\ \A k \in 0 .. Msb : k > bit_cnt \/ (k = bit_cnt /\ ~Early) => data_rx[k] = shown[k]

\* The acknowledge is the one the client's request calls for.
InMstrAck ==
    /\ scl_ena = 1 /\ bit_cnt = Msb /\ due = << >> /\ addr_rw[0] = 1
    /\ sda_int = IF request.ena /\ request.cmd = addr_rw THEN 0 ELSE 1
    /\ ~After => phase = "master_ack" /\ (Sampled => (acks <=> sda_int = 0))
    /\ After => IF sda_int = 0 THEN Shows(Msb) ELSE phase = "off"

InStop ==
    /\ sda_int = 1 /\ due = << >> /\ bit_cnt = Msb
    /\ IF Early THEN scl_ena = 1 /\ phase \in {"off", "byte"} ELSE scl_ena = 0 /\ phase = "off"

Together ==
    /\ state = "ready" => InReady
    /\ state = "start" => InStart
    /\ state = "command" => InCommand
    /\ state = "slv_ack1" => InSlvAck1
    /\ state = "wr" => InWr
    /\ state = "slv_ack2" => InSlvAck2
    /\ state = "rd" => InRd
    /\ state = "mstr_ack" => InMstrAck
    /\ state = "stop" => InStop

ErrorTold == (ack_error = 1) = nacked

Inv == TypeInv /\ ClockInv /\ Together /\ ErrorTold

(* Bytes handed over and received.                                         *)
LEMMA DueStep ==
    ASSUME NEW a \in Word, NEW b \in Word
    PROVE  /\ Due(<< >>) /\ ~Completes /\ (due = << >> \/ due = <<a>> \/ due = <<a, b>>) => due' = due
           /\ Due(<< >>) /\ Completes /\ due = <<a>> => due' = << >>
           /\ Due(<< >>) /\ Completes /\ due = <<a, b>> => due' = <<b>>
           /\ ~Completes /\ due = << >> =>
                /\ Due(<<a>>) => due' = <<a>>
                /\ Due(<<a, b>>) => due' = <<a, b>>
<1>1. <<a>> \in Seq(Word) /\ <<b>> \in Seq(Word) /\ <<a, b>> \in Seq(Word) /\ << >> \in Seq(Word)
  BY EmptySeq
<1>2. SubSeq(<<a>>, 2, Len(<<a>>)) = << >>
  <2>1. Len(<<a>>) = 1
    OBVIOUS
  <2>2. SubSeq(<<a>>, 2, 1) = << >>
    BY SubSeqEmpty
  <2>3. QED
    BY <2>1, <2>2
<1>3. SubSeq(<<a, b>>, 2, Len(<<a, b>>)) = <<b>>
  <2>1. Len(<<a, b>>) = 2 /\ \A i \in 2 .. 2 : <<a, b>>[i] \in Word
    OBVIOUS
  <2>2. /\ SubSeq(<<a, b>>, 2, 2) \in Seq(Word) /\ Len(SubSeq(<<a, b>>, 2, 2)) = 1
        /\ SubSeq(<<a, b>>, 2, 2)[1] = b
    <3>1. 2 \in Int /\ 2 - 2 + 1 = 1 /\ 2 + 1 - 1 = 2 /\ <<a, b>>[2] = b
      OBVIOUS
    <3>2. /\ SubSeq(<<a, b>>, 2, 2) \in Seq(Word)
          /\ Len(SubSeq(<<a, b>>, 2, 2)) = IF 2 <= 2 THEN 2 - 2 + 1 ELSE 0
          /\ \A i \in 1 .. 2 - 2 + 1 : SubSeq(<<a, b>>, 2, 2)[i] = <<a, b>>[2 + i - 1]
      BY <2>1, SubSeqProperties
    <3>3. QED
      BY <3>1, <3>2
  <2>3. <<b>> \in Seq(Word) /\ Len(<<b>>) = 1 /\ <<b>>[1] = b
    OBVIOUS
  <2>4. SubSeq(<<a, b>>, 2, 2) = <<b>>
    <3> DEFINE s == SubSeq(<<a, b>>, 2, 2)
               t == <<b>>
    <3>1. /\ s \in Seq(Word) /\ t \in Seq(Word) /\ Len(s) = 1 /\ Len(t) = 1
          /\ \A i \in 1 .. 1 : s[i] = t[i]
      BY <2>2, <2>3
    <3> HIDE DEF s, t
    <3>2. s = t
      BY <3>1, SeqEqual
    <3>3. QED
      BY <3>2 DEF s, t
  <2>5. QED
    BY <2>1, <2>4
<1>4. \A s \in Seq(Word) : s \o << >> = s /\ << >> \o s = s
  BY ConcatEmptySeq
<1>5. ~Completes /\ Due(<< >>) => due' = due \o << >>
  BY DEF Due
<1>6. Completes /\ Due(<< >>) => due' = SubSeq(due, 2, Len(due)) \o << >>
  BY DEF Due
<1>7. \A s : ~Completes /\ Due(s) => due' = due \o s
  BY DEF Due
<1>8. QED
  BY <1>1, <1>2, <1>3, <1>4, <1>5, <1>6, <1>7

(* What the lines do between the edges keeps it so.                        *)
LEMMA StaysTable ==
    ASSUME Together, state # "ready", Stays, UNCHANGED machine, UNCHANGED <<request, due>>
    PROVE  Together'
<1>1. /\ UNCHANGED <<state, busy, addr_rw, data_tx, data_rx, data_rd, bit_cnt, scl_ena, sda_int>>
      /\ UNCHANGED <<phase, bits, isCommand, acks, shown, request, due>>
      /\ Sampled' <=> Sampled
      /\ Early' <=> Early
      /\ scl_ena = 1 => (After' <=> After)
  BY DEF machine, Stays, Steady, Sampled
<1>2. \A j : Shows(j)' <=> Shows(j)
  BY <1>1 DEF Shows
<1>3. (Open' <=> Open) /\ Whole' = Whole /\ Rest' = Rest
  BY <1>1 DEF Open, Whole, Takes, Rest
<1>4. state = "start" => InStart'
  BY <1>1, <1>3 DEF Together, InStart
<1>5. state = "command" => InCommand'
  BY <1>1, <1>3 DEF Together, InCommand, Receives
<1>6. state = "slv_ack1" => InSlvAck1'
  BY <1>1, <1>2, <1>3 DEF Together, InSlvAck1
<1>7. state = "wr" => InWr'
  BY <1>1, <1>3 DEF Together, InWr, Receives
<1>8. state = "slv_ack2" => InSlvAck2'
  BY <1>1, <1>2, <1>3 DEF Together, InSlvAck2
<1>9. state = "rd" => InRd'
  BY <1>1, <1>2, <1>3 DEF Together, InRd
<1>10. state = "mstr_ack" => InMstrAck'
  BY <1>1, <1>2, <1>3 DEF Together, InMstrAck
<1>11. state = "stop" => InStop'
  BY <1>1 DEF Together, InStop
<1>12. QED
  BY <1>1, <1>4, <1>5, <1>6, <1>7, <1>8, <1>9, <1>10, <1>11 DEF Together

(* scl rises: the device has one bit more.                                 *)
LEMMA OneMore ==
    ASSUME TypeInv, NEW word \in Word, Receives(word), Climbs, UNCHANGED machine,
           state \in {"command", "wr"}
    PROVE  Receives(word)'
<1>1. /\ bits \in Seq(Bit) /\ word \in [0 .. Width - 1 -> Bit] /\ bit_cnt \in 0 .. Width - 1 /\ Width \in Nat
      /\ Len(bits) \in Nat
  BY LenProperties DEF TypeInv, TypeOK, DeviceOK, MachineOK, Word, Msb
<1>2. /\ UNCHANGED <<state, bit_cnt, sda_int>> /\ ~After /\ ~After' /\ ~Sampled /\ Sampled'
      /\ phase' = phase
  BY DEF machine, Climbs, Sampled, Samples
<1>3. phase = "byte" /\ Len(bits) = Width - bit_cnt - 1 /\ bits' = Append(bits, sda')
  BY <1>2 DEF Receives, Climbs, Samples
<1>4. sda' = word[bit_cnt] /\ word[bit_cnt] \in Bit
  <2>1. sda_ena_n' = sda_int /\ sda_int = word[bit_cnt]
    BY <1>2 DEF sda_ena_n, Receives
  <2>2. word[bit_cnt] \in {0, 1}
    BY <1>1 DEF Bit
  <2>3. ~deviceLow'
    BY <1>2, <1>3 DEF deviceLow
  <2>4. QED
    BY <2>1, <2>2, <2>3 DEF sda, Bit
<1>5. /\ Len(bits') = Len(bits) + 1
      /\ \A i \in 1 .. Len(bits) : bits'[i] = bits[i]
      /\ bits'[Len(bits) + 1] = word[bit_cnt]
  BY <1>1, <1>3, <1>4, AppendProperties
<1>6. Len(bits') = Width - bit_cnt
  BY <1>1, <1>3, <1>5
<1>7. ASSUME NEW i \in 1 .. Len(bits') PROVE bits'[i] = word[Width - i]
  <2>1. CASE i \in 1 .. Len(bits)
    BY <1>5, <2>1 DEF Receives
  <2>2. CASE i \notin 1 .. Len(bits)
    <3>1. i = Len(bits) + 1 /\ Width - i = bit_cnt
      BY <1>1, <1>3, <1>6, <2>2
    <3>2. QED
      BY <1>5, <3>1
  <2>3. QED
    BY <2>1, <2>2
<1>8. QED
  BY <1>2, <1>3, <1>6, <1>7 DEF Receives

(* scl rises: the device samples, and is where the master expects it.      *)
LEMMA ClimbsTable ==
    ASSUME TypeInv, Together, state # "ready", scl_ena = 1, Climbs, UNCHANGED machine,
           UNCHANGED <<request, due>>
    PROVE  Together'
<1>1. /\ UNCHANGED <<state, busy, addr_rw, data_tx, data_rx, data_rd, bit_cnt, scl_ena, sda_int>>
      /\ UNCHANGED <<phase, isCommand, addressed, shown, request, due>>
      /\ ~Sampled /\ Sampled' /\ Early /\ Early' /\ ~After /\ ~After'
      /\ phase # "byte" => bits' = bits
      /\ phase = "master_ack" => (acks' <=> sda' = 0)
  BY DEF machine, Climbs, Samples, Sampled
<1>2. \A j : Shows(j) => Shows(j)'
  BY <1>1 DEF Shows
<1>3. Whole' = Whole /\ Rest' = Rest /\ addr_rw \in Word /\ data_tx \in Word
  BY <1>1 DEF Whole, Takes, Rest, TypeInv, TypeOK, MachineOK
<1>4. state = "start" => InStart'
  BY <1>1, <1>3 DEF Together, InStart
<1>5. state = "command" => InCommand'
  BY <1>1, <1>3, OneMore DEF Together, InCommand
<1>6. state = "slv_ack1" => InSlvAck1'
  BY <1>1, <1>3 DEF Together, InSlvAck1
<1>7. state = "wr" => InWr'
  BY <1>1, <1>3, OneMore DEF Together, InWr
<1>8. state = "slv_ack2" => InSlvAck2'
  BY <1>1, <1>3 DEF Together, InSlvAck2
<1>9. state = "rd" => InRd'
  BY <1>1, <1>2, <1>3 DEF Together, InRd
<1>10. state = "mstr_ack" => InMstrAck'
  <2> SUFFICES ASSUME state = "mstr_ack" PROVE InMstrAck'
    OBVIOUS
  <2>1. InMstrAck /\ phase = "master_ack"
    BY <1>1 DEF Together, InMstrAck
  <2>2. sda_ena_n' = sda_int /\ sda_int \in {0, 1} /\ ~deviceLow'
    BY <1>1, <2>1 DEF sda_ena_n, deviceLow, InMstrAck
  <2>3. acks' <=> sda_int = 0
    BY <1>1, <2>1, <2>2 DEF sda
  <2>4. QED
    BY <1>1, <2>1, <2>3 DEF InMstrAck
<1>11. state = "stop" => InStop'
  BY <1>1 DEF Together, InStop
<1>12. QED
  BY <1>1, <1>4, <1>5, <1>6, <1>7, <1>8, <1>9, <1>10, <1>11 DEF Together

(* A byte in the order of the wire is shown from its first bit on.         *)
LEMMA ShowsAll ==
    ASSUME TypeInv, Loads, addressed' = addressed
    PROVE  Shows(Msb)'
<1>1. shown' \in Word /\ bits' = InOrder(shown') /\ phase' = "send"
  <2>1. Released \in Word
    BY DEF Released, Word, Msb, Bit
  <2>2. QED
    BY <2>1 DEF Loads
<1>2. Width \in Nat /\ Msb + 1 = Width
  BY DEF Msb
<1>3. Len(bits') = Width
  BY <1>1, InOrderType
<1>4. \A i \in 1 .. Msb + 1 : bits'[i] = shown'[Msb + 1 - i]
  <2>1. \A i \in 1 .. Width : bits'[i] = shown'[Width - i]
    BY <1>1 DEF InOrder
  <2> SUFFICES ASSUME NEW i \in 1 .. Msb + 1 PROVE bits'[i] = shown'[Msb + 1 - i]
    OBVIOUS
  <2>2. i \in 1 .. Width /\ Msb + 1 - i = Width - i
    BY DEF Msb
  <2>3. QED
    BY <2>1, <2>2
<1>5. QED
  BY <1>1, <1>2, <1>3, <1>4 DEF Shows

(* scl falls: the device acknowledges a byte when it has all of its bits.  *)
LEMMA ByteOver ==
    ASSUME TypeInv, NEW word \in Word, Receives(word), Drops, UNCHANGED machine,
           state \in {"command", "wr"}
    PROVE  /\ Receives(word)' /\ isCommand' = isCommand
           /\ Completes <=> bit_cnt = 0
           /\ Completes => AsWord(bits) = word /\ bits'[Width] = word[0]
<1>1. bit_cnt \in 0 .. Width - 1 /\ Width \in Nat /\ word \in [0 .. Width - 1 -> Bit]
  BY DEF TypeInv, TypeOK, MachineOK, Word, Msb
<1>2. /\ UNCHANGED <<state, bit_cnt, sda_int>> /\ ~After /\ After' /\ Sampled /\ ~Sampled' /\ SclFalls
  BY DEF machine, Drops, Sampled
<1>3. /\ phase = "byte" /\ Len(bits) = Width - bit_cnt /\ sda_int = word[bit_cnt]
      /\ \A i \in 1 .. Len(bits) : bits[i] = word[Width - i]
  BY <1>2 DEF Receives
<1>4. bits' = bits /\ isCommand' = isCommand /\ phase' = IF bit_cnt = 0 THEN "ack" ELSE "byte"
  <2>1. CASE bit_cnt = 0
    <3>1. EndsByte
      BY <1>1, <1>2, <1>3, <2>1 DEF SclFalls, EndsAck, EndsBit, EndsMasterAck
    <3>2. QED
      BY <2>1, <3>1 DEF EndsByte
  <2>2. CASE bit_cnt # 0
    <3>1. Len(bits) # Width
      BY <1>1, <1>3, <2>2
    <3>2. UNCHANGED <<phase, bits, isCommand>>
      BY <1>2, <1>3, <3>1 DEF SclFalls, EndsByte, EndsAck, EndsBit, EndsMasterAck
    <3>3. QED
      BY <1>3, <2>2, <3>2
  <2>3. QED
    BY <2>1, <2>2
<1>5. Receives(word)'
  BY <1>2, <1>3, <1>4 DEF Receives
<1>6. Completes <=> bit_cnt = 0
  BY <1>3, <1>4 DEF Completes
<1>7. bit_cnt = 0 => AsWord(bits) = word /\ bits'[Width] = word[0]
  <2> SUFFICES ASSUME bit_cnt = 0 PROVE AsWord(bits) = word /\ bits'[Width] = word[0]
    OBVIOUS
  <2>1. Len(bits) = Width
    BY <1>1, <1>3
  <2>2. \A i \in 0 .. Msb : Width - i \in 1 .. Width /\ Width - (Width - i) = i
    BY <1>1 DEF Msb
  <2>3. \A i \in 0 .. Msb : bits[Width - i] = word[i]
    <3> SUFFICES ASSUME NEW i \in 0 .. Msb PROVE bits[Width - i] = word[i]
      OBVIOUS
    <3>1. Width - i \in 1 .. Len(bits) /\ Width - (Width - i) = i
      BY <2>1, <2>2
    <3>2. QED
      BY <1>3, <3>1
  <2>4. AsWord(bits) = word
    BY <1>1, <2>3 DEF AsWord, Msb
  <2>5. 0 \in 0 .. Msb /\ Width - 0 = Width
    BY <1>1 DEF Msb
  <2>6. QED
    BY <1>4, <2>3, <2>4, <2>5
<1>8. QED
  BY <1>4, <1>5, <1>6, <1>7

(* At the end of a bit the device has it, shows the next, or turns to what *)
(* comes after the byte.                                                   *)
LEMMA DropsTable ==
    ASSUME TypeInv, Together, state # "ready", scl_ena = 1, Drops, UNCHANGED machine,
           UNCHANGED request, Due(<< >>)
    PROVE  /\ Together'
           /\ Completes => due # << >> /\ AsWord(bits) = Head(due)
           /\ state \in {"start", "stop"} => Steady
<1>1. /\ UNCHANGED <<state, busy, addr_rw, data_tx, data_rx, data_rd, bit_cnt, scl_ena, sda_int, request>>
      /\ Sampled /\ ~Sampled' /\ ~Early /\ ~Early' /\ ~After /\ After' /\ SclFalls
  BY DEF machine, Drops, Sampled
<1>2. Whole' = Whole /\ Rest' = Rest /\ addr_rw \in Word /\ data_tx \in Word
  BY <1>1 DEF Whole, Takes, Rest, TypeInv, TypeOK, MachineOK
<1>3. /\ ~Completes /\ due \in {<< >>, Rest, Whole} => due' = due
      /\ Completes /\ due = Whole => due' = Rest
      /\ Completes /\ due = <<data_tx>> => due' = << >>
  BY <1>2, DueStep DEF Rest, Whole, Takes
<1>4. phase # "byte" => ~Completes
  BY DEF Completes
<1>5. CASE state = "start"
  <2>1. InStart /\ phase = "byte" /\ bits = << >> /\ Len(bits) = 0
    BY <1>1, <1>5, NoBits DEF Together, InStart
  <2>2. Len(bits) # Width
    BY <2>1
  <2>3. Steady
    BY <1>1, <2>1, <2>2 DEF SclFalls, EndsByte, EndsAck, EndsBit, EndsMasterAck, Steady
  <2>4. ~Completes
    BY <2>1, <2>3 DEF Completes, Steady
  <2>5. InStart'
    BY <1>1, <1>2, <1>3, <2>1, <2>3, <2>4 DEF InStart, Steady
  <2>6. QED
    BY <1>1, <1>5, <2>3, <2>4, <2>5 DEF Together
<1>6. CASE state = "command"
  <2>1. InCommand
    BY <1>6 DEF Together
  <2>2. /\ Receives(addr_rw)' /\ isCommand' = isCommand /\ (Completes <=> bit_cnt = 0)
        /\ Completes => AsWord(bits) = addr_rw
    <3>1. Receives(addr_rw)
      BY <2>1 DEF InCommand
    <3>2. PICK word \in Word : word = addr_rw
      BY <1>2
    <3>3. addr_rw' = addr_rw
      BY <1>1
    <3>4. /\ Receives(word)' /\ isCommand' = isCommand /\ (Completes <=> bit_cnt = 0)
          /\ Completes => AsWord(bits) = word
      BY <1>6, <3>1, <3>2, ByteOver
    <3>5. Receives(addr_rw)'
      BY <1>1, <3>2, <3>4 DEF Receives
    <3>6. QED
      BY <3>2, <3>4, <3>5
  <2>3. due = Whole
    BY <1>1, <2>1 DEF InCommand
  <2>4. InCommand'
    BY <1>1, <1>2, <1>3, <2>1, <2>2, <2>3 DEF InCommand
  <2>5. Whole # << >> /\ Head(Whole) = addr_rw
    BY DEF Whole, Takes
  <2>6. QED
    BY <1>1, <1>6, <2>2, <2>3, <2>4, <2>5 DEF Together
<1>7. CASE state = "wr"
  <2>1. InWr
    BY <1>7 DEF Together
  <2>2. /\ Receives(data_tx)' /\ isCommand' = isCommand /\ (Completes <=> bit_cnt = 0)
        /\ Completes => AsWord(bits) = data_tx
    <3>1. Receives(data_tx)
      BY <2>1 DEF InWr
    <3>2. PICK word \in Word : word = data_tx
      BY <1>2
    <3>3. data_tx' = data_tx
      BY <1>1
    <3>4. /\ Receives(word)' /\ isCommand' = isCommand /\ (Completes <=> bit_cnt = 0)
          /\ Completes => AsWord(bits) = word
      BY <1>7, <3>1, <3>2, ByteOver
    <3>5. Receives(data_tx)'
      BY <1>1, <3>2, <3>4 DEF Receives
    <3>6. QED
      BY <3>2, <3>4, <3>5
  <2>3. due = <<data_tx>> /\ addr_rw[0] # 1 /\ Rest = <<data_tx>>
    BY <1>1, <2>1 DEF InWr, Rest
  <2>4. InWr'
    BY <1>1, <1>2, <1>3, <2>1, <2>2, <2>3 DEF InWr
  <2>5. QED
    BY <1>1, <1>7, <2>2, <2>3, <2>4 DEF Together
<1>8. CASE state = "slv_ack1"
  <2>1. /\ InSlvAck1 /\ phase = "ack" /\ isCommand /\ bits[Width] = addr_rw[0]
    BY <1>1, <1>8 DEF Together, InSlvAck1
  <2>2. EndsAck
    BY <1>1, <2>1 DEF SclFalls, EndsByte, EndsBit, EndsMasterAck
  <2>3. IF addr_rw[0] = 1 THEN Shows(Msb)' ELSE Open'
    BY <2>1, <2>2, ShowsAll DEF EndsAck, Listens, Open
  <2>4. InSlvAck1'
    BY <1>1, <1>2, <1>3, <1>4, <2>1, <2>3 DEF InSlvAck1
  <2>5. QED
    BY <1>1, <1>4, <1>8, <2>1, <2>4 DEF Together
<1>9. CASE state = "slv_ack2"
  <2>1. InSlvAck2 /\ phase = "ack" /\ ~isCommand
    BY <1>1, <1>9 DEF Together, InSlvAck2
  <2>2. EndsAck
    BY <1>1, <2>1 DEF SclFalls, EndsByte, EndsBit, EndsMasterAck
  <2>3. Open'
    BY <2>1, <2>2 DEF EndsAck, Listens, Open
  <2>4. InSlvAck2'
    BY <1>1, <1>3, <1>4, <2>1, <2>3 DEF InSlvAck2
  <2>5. QED
    BY <1>1, <1>4, <1>9, <2>1, <2>4 DEF Together
<1>10. CASE state = "rd"
  <2>1. InRd /\ Shows(bit_cnt) /\ phase = "send"
    BY <1>1, <1>10 DEF Together, InRd, Shows
  <2>2. EndsBit
    BY <1>1, <2>1 DEF SclFalls, EndsByte, EndsAck, EndsMasterAck
  <2>3. bit_cnt \in 0 .. Msb /\ Msb \in Nat /\ bits \in Seq(Bit) /\ Len(bits) = bit_cnt + 1
    BY <2>1 DEF TypeInv, TypeOK, MachineOK, DeviceOK, Msb, Shows
  <2>4. CASE bit_cnt = 0
    BY <1>1, <1>3, <1>4, <1>10, <2>1, <2>2, <2>3, <2>4 DEF EndsBit, InRd, Together
  <2>5. CASE bit_cnt # 0
    <3>1. phase' = "send" /\ bits' = Tail(bits) /\ shown' = shown
      BY <2>2, <2>3, <2>5 DEF EndsBit
    <3>2. bits # << >>
      BY <2>3, NoBits
    <3>3. Len(Tail(bits)) = Len(bits) - 1 /\ \A i \in 1 .. Len(bits) - 1 : Tail(bits)[i] = bits[i + 1]
      BY <2>3, <3>2, HeadTailProperties
    <3>4. ASSUME NEW i \in 1 .. bit_cnt PROVE bits'[i] = shown'[bit_cnt - i]
      <4>1. i + 1 \in 1 .. bit_cnt + 1 /\ bit_cnt + 1 - (i + 1) = bit_cnt - i /\ i \in 1 .. Len(bits) - 1
        BY <2>3
      <4>2. bits[i + 1] = shown[bit_cnt + 1 - (i + 1)]
        BY <2>1, <4>1 DEF Shows
      <4>3. QED
        BY <3>1, <3>3, <4>1, <4>2
    <3>5. bit_cnt - 1 + 1 = bit_cnt /\ Len(bits') = bit_cnt /\ bit_cnt' = bit_cnt
      BY <1>1, <2>3, <3>1, <3>3
    <3>6. Shows(bit_cnt - 1)'
      BY <3>1, <3>4, <3>5 DEF Shows
    <3>7. InRd'
      BY <1>1, <1>3, <1>4, <2>1, <2>5, <3>1, <3>6 DEF InRd
    <3>8. QED
      BY <1>1, <1>4, <1>10, <2>1, <3>7 DEF Together
  <2>6. QED
    BY <2>4, <2>5
<1>11. CASE state = "mstr_ack"
  <2>1. InMstrAck /\ phase = "master_ack" /\ (acks <=> sda_int = 0)
    BY <1>1, <1>11 DEF Together, InMstrAck
  <2>2. EndsMasterAck
    BY <1>1, <2>1 DEF SclFalls, EndsByte, EndsAck, EndsBit
  <2>3. IF sda_int = 0 THEN Shows(Msb)' ELSE phase' = "off"
    BY <2>1, <2>2, ShowsAll DEF EndsMasterAck
  <2>4. InMstrAck'
    BY <1>1, <1>3, <1>4, <2>1, <2>3 DEF InMstrAck
  <2>5. QED
    BY <1>1, <1>4, <1>11, <2>1, <2>4 DEF Together
<1>12. CASE state = "stop"
  BY <1>1, <1>12 DEF Together, InStop
<1>13. QED
  BY <1>5, <1>6, <1>7, <1>8, <1>9, <1>10, <1>11, <1>12 DEF TypeInv, TypeOK, MachineOK

-----------------------------------------------------------------------------
(* Every step keeps the device where the master has it. *)

\* What a step may do to the lines, and what crosses in it.
LineRules ==
    /\ scl = 1 /\ scl' = 1 /\ sda # sda' => (state = "start" /\ sda' = 0) \/ (state = "stop" /\ sda' = 1)
    /\ "start" \in {state, state'} /\ sda = 1 /\ sda' = 0 => scl = 1 /\ scl' = 1
    /\ Completes => due # << >> /\ AsWord(bits) = Head(due)

(* In ready the lines stay up and the device takes no notice.              *)
LEMMA ReadyStep ==
    ASSUME Here, Device, state = "ready", scl_ena' = scl_ena, sda_ena_n' = sda_ena_n
    PROVE  Steady /\ scl = 1 /\ scl' = 1
<1>1. scl_ena = 0 /\ scl = 1 /\ ~hold
  BY Lines DEF Here, Sampled
<1>2. scl' = 1
  BY <1>1, CountMoves
<1>3. QED
  BY <1>1, <1>2 DEF Device, Steady

(* With nothing moving but the clock's levels the lines stay.              *)
LEMMA SameLines ==
    ASSUME Steady, sda_ena_n' = sda_ena_n
    PROVE  sda' = sda /\ ~Completes
BY DEF Steady, sda, deviceLow, Completes

(* A step between the edges of data_clk keeps master and device together.  *)
LEMMA QuietKeeps ==
    ASSUME Here, Together, ErrorTold, BNoEdge
    PROVE  Together' /\ ErrorTold' /\ ClockInv' /\ LineRules
<1>1. /\ Device /\ data_clk = data_clk_prev /\ UNCHANGED machine /\ UNCHANGED <<request, nacked>> /\ Due(<< >>)
      /\ TypeInv
  BY DEF BNoEdge, NoEdge, Here
<1>2. UNCHANGED <<state, addr_rw, data_tx, bit_cnt, scl_ena, sda_int, ack_error>>
  BY <1>1 DEF machine
<1>3. ErrorTold' /\ ClockInv'
  BY <1>1, <1>2, ClockStep DEF ErrorTold, Fresh
<1>4. /\ sda_ena_n' = sda_ena_n
      /\ state = "ready" => Steady /\ scl = 1 /\ scl' = 1
      /\ state # "ready" => Stays \/ (scl_ena = 1 /\ Climbs) \/ (scl_ena = 1 /\ Drops)
  BY <1>1, QuietStep
<1>5. addr_rw \in Word /\ data_tx \in Word /\ due \in {<< >>, <<addr_rw>>, <<data_tx>>, <<addr_rw, data_tx>>}
  <2>1. addr_rw \in Word /\ data_tx \in Word
    BY <1>1 DEF TypeInv, TypeOK, MachineOK
  <2>2. due \in {<< >>, Rest, Whole, <<data_tx>>}
    BY <1>1 DEF Together, InReady, InStart, InCommand, InSlvAck1, InWr, InSlvAck2, InRd, InMstrAck, InStop,
                TypeInv, TypeOK, MachineOK
  <2>3. QED
    BY <2>1, <2>2 DEF Rest, Whole, Takes
<1>6. ~Completes => due' = due
  BY <1>1, <1>5, DueStep
<1>7. CASE state = "ready"
  <2>1. Steady /\ sda' = sda /\ ~Completes
    BY <1>4, <1>7, SameLines
  <2>2. Together'
    BY <1>2, <1>6, <1>7, <2>1 DEF Together, InReady, Steady
  <2>3. QED
    BY <1>2, <1>3, <1>7, <2>1, <2>2 DEF LineRules
<1>8. CASE state # "ready" /\ Stays
  <2>1. Steady /\ sda' = sda /\ ~Completes
    BY <1>4, <1>8, SameLines DEF Stays
  <2>2. Together'
    BY <1>1, <1>6, <1>8, <2>1, StaysTable
  <2>3. QED
    BY <1>3, <2>1, <2>2 DEF LineRules
<1>9. CASE state # "ready" /\ scl_ena = 1 /\ Climbs
  <2>1. ~Completes /\ phase' = phase /\ scl # 1
    BY <1>9 DEF Climbs, Samples, Completes
  <2>2. Together'
    BY <1>1, <1>6, <1>9, <2>1, ClimbsTable
  <2>3. "start" \in {state, state'} => sda' = sda
    <3>1. state = "start" => phase \in {"off", "byte"}
      BY <1>9 DEF Together, InStart, Climbs
    <3>2. state = "start" => ~deviceLow /\ ~deviceLow'
      BY <2>1, <3>1 DEF deviceLow
    <3>3. QED
      BY <1>2, <1>4, <3>2 DEF sda
  <2>4. QED
    BY <1>3, <2>1, <2>2, <2>3 DEF LineRules
<1>10. CASE state # "ready" /\ scl_ena = 1 /\ Drops
  <2>1. /\ Together' /\ (Completes => due # << >> /\ AsWord(bits) = Head(due))
        /\ state \in {"start", "stop"} => Steady
    BY <1>1, <1>10, DropsTable
  <2>2. "start" \in {state, state'} => sda' = sda
    BY <1>2, <1>4, <2>1, SameLines
  <2>3. QED
    BY <1>3, <1>10, <2>1, <2>2 DEF LineRules, Drops
<1>11. QED
  BY <1>4, <1>7, <1>8, <1>9, <1>10

(* A falling edge keeps them together: START, STOP, and the bit sampled.   *)
LEMMA FallsKeeps ==
    ASSUME Here, Together, ErrorTold, BFalls
    PROVE  Together' /\ ErrorTold' /\ ClockInv' /\ LineRules
<1>1. /\ Device /\ FallingEdge /\ state' = state /\ UNCHANGED request /\ Due(<< >>)
      /\ UNCHANGED <<busy, addr_rw, data_tx, data_rd, bit_cnt, sda_int>>
      /\ nacked' = IF state = "start" /\ scl_ena = 0 THEN FALSE ELSE nacked \/ (phase = "ack" /\ ~acks)
      /\ TypeInv
  BY DEF BFalls, StartFalls, AckFalls, RdFalls, StopFalls, OtherFalls, machine, Here
<1>2. /\ state = "start" => scl_ena' = 1 /\ ack_error' = ErrorCleared /\ data_rx' = data_rx
      /\ state = "stop" => scl_ena' = 0 /\ UNCHANGED <<ack_error, data_rx>>
      /\ state \in {"slv_ack1", "slv_ack2"} =>
           /\ ack_error' = (IF sda # 0 THEN 1 ELSE ack_error)
           /\ UNCHANGED <<scl_ena, data_rx>>
      /\ state = "rd" => data_rx' = [data_rx EXCEPT ![bit_cnt] = sda] /\ UNCHANGED <<scl_ena, ack_error>>
      /\ state \in {"ready", "command", "wr", "mstr_ack"} => UNCHANGED <<scl_ena, ack_error, data_rx>>
  BY <1>1 DEF BFalls, StartFalls, AckFalls, RdFalls, RxIndex, StopFalls, OtherFalls, machine
<1>3. ClockInv'
  BY <1>1, ClockStep DEF Fresh
<1>4. addr_rw \in Word /\ data_tx \in Word /\ due \in {<< >>, <<addr_rw>>, <<data_tx>>, <<addr_rw, data_tx>>}
  <2>1. addr_rw \in Word /\ data_tx \in Word
    BY <1>1 DEF TypeInv, TypeOK, MachineOK
  <2>2. due \in {<< >>, Rest, Whole, <<data_tx>>}
    BY <1>1 DEF Together, InReady, InStart, InCommand, InSlvAck1, InWr, InSlvAck2, InRd, InMstrAck, InStop,
                TypeInv, TypeOK, MachineOK
  <2>3. QED
    BY <2>1, <2>2 DEF Rest, Whole, Takes
<1>5. ~Completes => due' = due
  BY <1>1, <1>4, DueStep
<1>6. Whole' = Whole /\ Rest' = Rest
  BY <1>1 DEF Whole, Takes, Rest
<1>7. nacked \in BOOLEAN /\ ack_error \in {0, 1} /\ (nacked <=> ack_error = 1)
  BY <1>1 DEF ErrorTold, TypeInv, TypeOK, MachineOK, Bit
<1>8. CASE state = "ready"
  <2>1. UNCHANGED <<scl_ena, ack_error>> /\ sda_ena_n' = sda_ena_n
    BY <1>1, <1>2, <1>8 DEF sda_ena_n
  <2>2. Steady /\ sda' = sda /\ ~Completes
    BY <1>1, <1>8, <2>1, ReadyStep, SameLines
  <2>3. phase = "off"
    BY <1>8 DEF Together, InReady
  <2>4. Together'
    BY <1>1, <1>5, <1>8, <2>1, <2>2 DEF Together, InReady, Steady
  <2>5. ErrorTold'
    BY <1>1, <1>7, <1>8, <2>1, <2>3 DEF ErrorTold
  <2>6. QED
    BY <1>3, <2>2, <2>4, <2>5 DEF LineRules
<1>9. state # "ready" =>
           /\ scl = 1 /\ scl' = 1
           /\ Early /\ ~Early' /\ ~After /\ ~After' /\ Sampled /\ Sampled'
           /\ sda_ena_n' = sda_ena_n \/ deviceLow => Steady
           /\ ~(sda_ena_n' = sda_ena_n \/ deviceLow) => IF sda_ena_n' = 0 THEN SeesStart ELSE SeesStop
  BY <1>1, FallingStep
<1>10. data_clk_prev = 1 /\ data_clk_prev' = 0
  BY <1>1, CountMoves DEF FallingEdge
<1>11. CASE state = "start"
  <2>1. InStart /\ phase \in {"off", "byte"} /\ ~deviceLow
    BY <1>9, <1>11 DEF Together, InStart, deviceLow
  <2>2. sda_ena_n = 1 /\ sda_ena_n' = 0
    BY <1>1, <1>10, <1>11 DEF sda_ena_n
  <2>3. SeesStart
    BY <1>9, <1>11, <2>1, <2>2
  <2>4. ~Completes /\ sda' = 0
    BY <2>2, <2>3 DEF SeesStart, Completes, sda
  <2>5. InStart'
    BY <1>1, <1>2, <1>5, <1>6, <1>9, <1>11, <2>1, <2>3, <2>4 DEF InStart, SeesStart
  <2>6. ErrorTold'
    <3>1. nacked' = IF scl_ena = 0 THEN FALSE ELSE nacked \/ (phase = "ack" /\ ~acks)
      BY <1>1, <1>11
    <3>2. ack_error' = IF scl_ena = 0 THEN 0 ELSE ack_error
      BY <1>2, <1>11 DEF ErrorCleared
    <3>3. CASE scl_ena = 0
      <4>1. nacked' = FALSE
        BY <3>1, <3>3, Zenon
      <4>2. (ack_error' = 1) = FALSE
        <5>1. ack_error' # 1
          BY <3>2, <3>3
        <5>2. QED
          BY <5>1
      <4>3. QED
        BY <4>1, <4>2, Zenon DEF ErrorTold
    <3>4. CASE scl_ena # 0
      <4>1. phase # "ack"
        BY <2>1
      <4>2. ack_error' = ack_error
        BY <3>2, <3>4
      <4>3. nacked' = (nacked \/ (phase = "ack" /\ ~acks))
        BY <3>1, <3>4
      <4>4. nacked' <=> nacked
        BY <4>1, <4>3
      <4>5. QED
        BY <1>7, <4>2, <4>3, <4>4 DEF ErrorTold
    <3>5. QED
      BY <3>3, <3>4
  <2>7. QED
    BY <1>1, <1>3, <1>9, <1>11, <2>4, <2>5, <2>6 DEF LineRules, Together
<1>12. CASE state = "stop"
  <2>1. InStop /\ phase \in {"off", "byte"} /\ ~deviceLow
    BY <1>9, <1>12 DEF Together, InStop, deviceLow
  <2>2. sda_ena_n = 0 /\ sda_ena_n' = 1
    BY <1>1, <1>10, <1>12 DEF sda_ena_n
  <2>3. SeesStop
    BY <1>9, <1>12, <2>1, <2>2
  <2>4. ~Completes /\ sda' = 1
    BY <2>2, <2>3 DEF SeesStop, Completes, sda, deviceLow
  <2>5. InStop'
    BY <1>1, <1>2, <1>5, <1>9, <1>12, <2>1, <2>3, <2>4 DEF InStop, SeesStop
  <2>6. ErrorTold'
    BY <1>1, <1>2, <1>7, <1>12, <2>1 DEF ErrorTold
  <2>7. QED
    BY <1>1, <1>3, <1>9, <1>12, <2>4, <2>5, <2>6 DEF LineRules, Together
<1>13. CASE state \notin {"ready", "start", "stop"}
  <2>1. sda_ena_n' = sda_ena_n /\ sda_ena_n = sda_int
    BY <1>1, <1>13 DEF sda_ena_n
  <2>2. Steady /\ sda' = sda /\ ~Completes /\ due' = due
    BY <1>5, <1>9, <1>13, <2>1, SameLines
  <2>3. UNCHANGED <<phase, bits, isCommand, acks, shown>>
    BY <2>2 DEF Steady
  <2>4. LineRules
    BY <1>1, <1>13, <2>2 DEF LineRules
  <2>5. \A j : Shows(j)' <=> Shows(j)
    BY <2>3 DEF Shows
  <2>6. CASE state = "command"
    <3>1. InCommand' /\ phase = "byte"
      BY <1>1, <1>2, <1>6, <1>9, <2>2, <2>3, <2>6 DEF Together, InCommand, Receives
    <3>2. ErrorTold'
      BY <1>1, <1>2, <1>7, <2>6, <3>1 DEF ErrorTold
    <3>3. QED
      BY <1>1, <1>3, <2>4, <2>6, <3>1, <3>2 DEF Together
  <2>7. CASE state = "wr"
    <3>1. InWr' /\ phase = "byte"
      BY <1>1, <1>2, <1>6, <1>9, <2>2, <2>3, <2>7 DEF Together, InWr, Receives
    <3>2. ErrorTold'
      BY <1>1, <1>2, <1>7, <2>7, <3>1 DEF ErrorTold
    <3>3. QED
      BY <1>1, <1>3, <2>4, <2>7, <3>1, <3>2 DEF Together
  <2>8. CASE state \in {"slv_ack1", "slv_ack2"}
    <3>1. phase = "ack" /\ sda_int = 1
      BY <1>9, <2>8 DEF Together, InSlvAck1, InSlvAck2
    <3>2. sda = 0 <=> acks
      BY <2>1, <3>1 DEF sda, deviceLow
    <3>3. ErrorTold'
      BY <1>1, <1>2, <1>7, <2>8, <3>1, <3>2 DEF ErrorTold
    <3>4. state = "slv_ack1" => InSlvAck1'
      BY <1>1, <1>2, <1>6, <1>9, <2>2, <2>3, <2>8 DEF Together, InSlvAck1
    <3>5. state = "slv_ack2" => InSlvAck2'
      BY <1>1, <1>2, <1>6, <1>9, <2>2, <2>3, <2>8 DEF Together, InSlvAck2
    <3>6. QED
      BY <1>1, <1>3, <2>4, <2>8, <3>3, <3>4, <3>5 DEF Together
  <2>9. CASE state = "rd"
    <3>1. InRd /\ Shows(bit_cnt) /\ phase = "send"
      BY <1>9, <2>9 DEF Together, InRd, Shows
    <3>2. bit_cnt \in 0 .. Msb /\ Msb \in Nat /\ bits \in Seq(Bit) /\ shown \in [0 .. Msb -> {0, 1}]
          /\ data_rx \in [0 .. Msb -> {0, 1}]
      BY <1>1 DEF TypeInv, TypeOK, MachineOK, DeviceOK, Msb, Word, Bit
    <3>3. sda = shown[bit_cnt]
      <4>1. 1 \in 1 .. bit_cnt + 1 /\ bit_cnt + 1 - 1 = bit_cnt
        BY <3>2
      <4>2. bits[1] = shown[bit_cnt]
        BY <3>1, <4>1 DEF Shows
      <4>3. Head(bits) = bits[1]
        BY <3>2
      <4>4. shown[bit_cnt] \in {0, 1}
        BY <3>2
      <4>5. sda_ena_n = 1
        BY <2>1, <3>1 DEF InRd
      <4>6. deviceLow <=> shown[bit_cnt] = 0
        BY <3>1, <4>2, <4>3 DEF deviceLow
      <4>7. QED
        BY <4>4, <4>5, <4>6 DEF sda
    <3>4. data_rx' = [data_rx EXCEPT ![bit_cnt] = shown[bit_cnt]] /\ scl_ena' = scl_ena
      BY <1>2, <2>9, <3>3
    <3>5. \A k \in 0 .. Msb : k >= bit_cnt => data_rx'[k] = shown[k]
      BY <3>1, <3>2, <3>4 DEF InRd
    <3>6. InRd'
      <4>1. \A k \in 0 .. Msb : k > bit_cnt' \/ (k = bit_cnt' /\ ~Early') => data_rx'[k] = shown'[k]
        BY <1>1, <2>3, <3>2, <3>5
      <4>2. scl_ena' = 1 /\ sda_int' = 1 /\ due' = << >> /\ addr_rw'[0] = 1 /\ Shows(bit_cnt)'
        <5>1. Shows(bit_cnt)'
          BY <1>1, <2>3, <3>1 DEF Shows
        <5>2. QED
          BY <1>1, <2>2, <3>1, <3>4, <5>1 DEF InRd
      <4>3. QED
        BY <1>9, <2>9, <4>1, <4>2 DEF InRd
    <3>7. ErrorTold'
      BY <1>1, <1>2, <1>7, <2>9, <3>1 DEF ErrorTold
    <3>8. QED
      BY <1>1, <1>3, <2>4, <2>9, <3>6, <3>7 DEF Together
  <2>10. CASE state = "mstr_ack"
    <3>1. InMstrAck' /\ phase = "master_ack"
      BY <1>1, <1>2, <1>9, <2>2, <2>3, <2>10 DEF Together, InMstrAck
    <3>2. ErrorTold'
      BY <1>1, <1>2, <1>7, <2>10, <3>1 DEF ErrorTold
    <3>3. QED
      BY <1>1, <1>3, <2>4, <2>10, <3>1, <3>2 DEF Together
  <2>11. QED
    BY <1>1, <1>13, <2>6, <2>7, <2>8, <2>9, <2>10 DEF TypeInv, TypeOK, MachineOK
<1>14. QED
  BY <1>8, <1>11, <1>12, <1>13

(* What crosses when the master leaves a state: the last byte read is       *)
(* refused before STOP and START, and data_rd gets the byte shown.         *)
Crosses ==
    /\ state = "mstr_ack" /\ state' \in {"start", "stop"} => sda_int = 1
    /\ state = "rd" /\ state' = "mstr_ack" => data_rd' = shown

(* At a rising edge sda moves only while scl is low, and never falls into  *)
(* a START nor out of one.                                                 *)
LEMMA RisesLines ==
    ASSUME Here, Device, RisingEdge, scl_ena' = scl_ena,
           scl_ena = 0 => sda_ena_n' = sda_ena_n, Fresh => state' = "ready"
    PROVE  /\ ClockInv' /\ LineRules /\ Steady /\ ~Completes
           /\ ~Fresh => After /\ ~After' /\ ~Early /\ Early' /\ (Sampled' <=> scl_ena = 0)
<1>1. /\ Steady
      /\ scl_ena = 0 => scl = 1 /\ scl' = 1
      /\ scl_ena = 1 => scl # 1 /\ scl' # 1
      /\ ~Fresh => After /\ ~After' /\ ~Early /\ Early' /\ (Sampled' <=> scl_ena = 0)
  BY RisingStep
<1>2. ClockInv' /\ scl_ena \in {0, 1}
  BY ClockStep DEF Here, TypeInv, TypeOK, MachineOK, Bit
<1>3. ~Completes /\ (deviceLow' <=> deviceLow)
  BY <1>1 DEF Steady, Completes, deviceLow
<1>4. scl_ena = 0 => sda' = sda
  BY <1>1, SameLines
<1>5. data_clk = 1 /\ data_clk_prev = 0 /\ data_clk_prev' = 1
  BY CountMoves DEF RisingEdge
<1>6. state = "start" => sda = 0
  BY <1>5 DEF sda_ena_n, sda
<1>7. state' = "start" /\ sda' = 0 => sda = 0
  <2> SUFFICES ASSUME state' = "start", sda' = 0 PROVE sda = 0
    OBVIOUS
  <2>1. sda_ena_n' = 1
    BY <1>5 DEF sda_ena_n
  <2>2. deviceLow'
    BY <2>1 DEF sda
  <2>3. QED
    BY <1>3, <2>2 DEF sda
<1>8. LineRules
  BY <1>1, <1>2, <1>3, <1>4, <1>6, <1>7 DEF LineRules
<1>9. QED
  BY <1>1, <1>2, <1>3, <1>8

(* A bit of a byte follows the one before it.                              *)
LEMMA NextReceived ==
    ASSUME TypeInv, NEW word \in Word, Receives(word), Steady, After, ~After', ~Sampled'
    PROVE  /\ bit_cnt # 0 /\ bit_cnt' = bit_cnt - 1 /\ sda_int' = word[bit_cnt - 1] => Receives(word)'
           /\ bit_cnt = 0 => phase = "ack" /\ bits[Width] = word[0]
<1>1. bit_cnt \in 0 .. Width - 1 /\ Width \in Nat
  BY DEF TypeInv, TypeOK, MachineOK, Msb
<1>2. UNCHANGED <<phase, bits>>
  BY DEF Steady
<1>3. /\ phase = (IF bit_cnt = 0 THEN "ack" ELSE "byte") /\ Len(bits) = Width - bit_cnt
      /\ \A i \in 1 .. Len(bits) : bits[i] = word[Width - i]
  BY DEF Receives
<1>4. ASSUME bit_cnt # 0, bit_cnt' = bit_cnt - 1, sda_int' = word[bit_cnt - 1] PROVE Receives(word)'
  <2>1. Len(bits') = Width - bit_cnt' - 1
    BY <1>1, <1>2, <1>3, <1>4
  <2>2. phase' = "byte" /\ sda_int' = word[bit_cnt'] /\ \A i \in 1 .. Len(bits') : bits'[i] = word[Width - i]
    BY <1>2, <1>3, <1>4
  <2>3. QED
    BY <2>1, <2>2 DEF Receives
<1>5. ASSUME bit_cnt = 0 PROVE phase = "ack" /\ bits[Width] = word[0]
  <2>1. Len(bits) = Width /\ Width \in 1 .. Len(bits) /\ Width - Width = 0
    BY <1>1, <1>3, <1>5
  <2>2. bits[Width] = word[Width - Width]
    BY <1>3, <2>1
  <2>3. QED
    BY <1>3, <1>5, <2>1, <2>2
<1>6. QED
  BY <1>4, <1>5

(* The first bit of a byte, from a device that listens.                    *)
LEMMA FirstReceived ==
    ASSUME TypeInv, NEW word \in Word, phase = "byte", bits = << >>, Steady, ~After', ~Sampled',
           bit_cnt = Msb, bit_cnt' = Msb, sda_int' = word[Msb]
    PROVE  Receives(word)'
<1>1. UNCHANGED <<phase, bits>> /\ Width \in Nat
  BY DEF Steady
<1>2. Len(bits') = 0 /\ Len(bits') = Width - bit_cnt' - 1
  BY <1>1, NoBits DEF Msb
<1>3. QED
  BY <1>1, <1>2 DEF Receives

(* The steps of the bits keep master and device together ...               *)
LEMMA BitsKeep ==
    ASSUME Here, Together, ErrorTold, BBits
    PROVE  Together' /\ ErrorTold' /\ ClockInv' /\ LineRules /\ Crosses
<1>1. /\ TypeInv /\ Device /\ RisingEdge /\ Due(<< >>)
      /\ UNCHANGED <<request, nacked, addr_rw, data_tx, data_rx, data_rd, scl_ena, ack_error>>
  BY DEF BBits, Bits, Idle, StartBit, Command, Wr, SlvAck1, RdBit, StopBit, Shift, Here
<1>2. data_clk_prev = 0 /\ data_clk_prev' = 1
  BY <1>1, CountMoves DEF RisingEdge
<1>3. addr_rw \in Word /\ data_tx \in Word /\ due \in {<< >>, <<addr_rw>>, <<data_tx>>, <<addr_rw, data_tx>>}
  <2>1. addr_rw \in Word /\ data_tx \in Word
    BY <1>1 DEF TypeInv, TypeOK, MachineOK
  <2>2. due \in {<< >>, Rest, Whole, <<data_tx>>}
    BY <1>1 DEF Together, InReady, InStart, InCommand, InSlvAck1, InWr, InSlvAck2, InRd, InMstrAck, InStop,
                TypeInv, TypeOK, MachineOK
  <2>3. QED
    BY <2>1, <2>2 DEF Rest, Whole, Takes
<1>4. Whole' = Whole /\ Rest' = Rest /\ ErrorTold'
  BY <1>1 DEF Whole, Takes, Rest, ErrorTold
<1>5. ASSUME scl_ena = 0 => sda_ena_n' = sda_ena_n, Fresh => state' = "ready"
      PROVE  /\ ClockInv' /\ LineRules /\ Steady /\ due' = due
             /\ ~Fresh => After /\ ~After' /\ ~Early /\ Early' /\ (Sampled' <=> scl_ena = 0)
  BY <1>1, <1>3, <1>5, RisesLines, DueStep
<1>6. CASE Idle
  <2>1. InReady /\ state = "ready" /\ state' = "ready" /\ UNCHANGED <<bit_cnt, sda_int>>
    BY <1>6 DEF Idle, Together
  <2>2. sda_ena_n' = sda_ena_n
    BY <2>1 DEF sda_ena_n
  <2>3. ClockInv' /\ LineRules /\ Steady /\ due' = due
    BY <1>5, <2>1, <2>2
  <2>4. InReady'
    BY <1>1, <2>1, <2>3 DEF InReady, Steady
  <2>5. QED
    BY <1>4, <2>1, <2>3, <2>4 DEF Together, Crosses
<1>7. CASE StartBit
  <2>1. state = "start" /\ state' = "command" /\ InStart /\ bit_cnt' = bit_cnt /\ sda_int' = addr_rw[bit_cnt]
    BY <1>7 DEF StartBit, Together
  <2>2. ~Fresh
    BY <2>1 DEF Fresh
  <2>3. ~Early
    BY <1>1, <2>1, <2>2, Lines DEF Here, Early
  <2>4. scl_ena = 1 /\ phase = "byte" /\ bits = << >> /\ isCommand /\ due = Whole /\ bit_cnt = Msb
    BY <2>1, <2>3 DEF InStart
  <2>5. /\ ClockInv' /\ LineRules /\ Steady /\ due' = due
        /\ ~After' /\ ~Sampled'
    BY <1>5, <2>2, <2>4
  <2>6. Receives(addr_rw)'
    <3>1. PICK word \in Word : word = addr_rw
      BY <1>3
    <3>2. Receives(word)'
      BY <1>1, <2>1, <2>4, <2>5, <3>1, FirstReceived
    <3>3. QED
      BY <1>1, <3>1, <3>2 DEF Receives
  <2>7. InCommand'
    BY <1>1, <1>4, <2>4, <2>5, <2>6 DEF InCommand, Steady
  <2>8. QED
    BY <1>4, <2>1, <2>5, <2>7 DEF Together, Crosses
<1>8. CASE Command
  <2>1. state = "command" /\ Shift(addr_rw, "slv_ack1") /\ InCommand /\ scl_ena = 1
    BY <1>8 DEF Command, Together, InCommand
  <2>2. /\ ClockInv' /\ LineRules /\ Steady /\ due' = due
        /\ After /\ ~After' /\ ~Sampled'
    BY <1>5, <2>1 DEF Fresh
  <2>3. PICK word \in Word : word = addr_rw
    BY <1>3
  <2>4. /\ bit_cnt # 0 /\ bit_cnt' = bit_cnt - 1 /\ sda_int' = word[bit_cnt - 1] => Receives(word)'
        /\ bit_cnt = 0 => phase = "ack" /\ bits[Width] = word[0]
    <3>1. Receives(word)
      BY <2>1, <2>3 DEF InCommand
    <3>2. QED
      BY <1>1, <2>2, <3>1, NextReceived
  <2>5. UNCHANGED <<phase, bits, isCommand>>
    BY <2>2 DEF Steady
  <2>6. CASE bit_cnt = 0
    <3>1. sda_int' = 1 /\ bit_cnt' = Msb /\ state' = "slv_ack1"
      BY <2>1, <2>6 DEF Shift, LastBit
    <3>2. InSlvAck1'
      BY <1>1, <1>4, <2>1, <2>2, <2>3, <2>4, <2>5, <2>6, <3>1 DEF InSlvAck1, InCommand
    <3>3. QED
      BY <1>4, <2>1, <2>2, <3>1, <3>2 DEF Together, Crosses
  <2>7. CASE bit_cnt # 0
    <3>1. sda_int' = word[bit_cnt - 1] /\ bit_cnt' = bit_cnt - 1 /\ state' = "command"
      BY <2>1, <2>3, <2>7 DEF Shift, LastBit, NextBit
    <3>2. Receives(addr_rw)'
      BY <1>1, <2>3, <2>4, <2>7, <3>1 DEF Receives
    <3>3. InCommand'
      BY <1>1, <1>4, <2>1, <2>2, <2>5, <2>7, <3>2 DEF InCommand
    <3>4. QED
      BY <1>4, <2>1, <2>2, <3>1, <3>3 DEF Together, Crosses
  <2>8. QED
    BY <2>6, <2>7
<1>9. CASE Wr
  <2>1. state = "wr" /\ Shift(data_tx, "slv_ack2") /\ InWr /\ scl_ena = 1
    BY <1>9 DEF Wr, Together, InWr
  <2>2. /\ ClockInv' /\ LineRules /\ Steady /\ due' = due
        /\ After /\ ~After' /\ ~Sampled'
    BY <1>5, <2>1 DEF Fresh
  <2>3. PICK word \in Word : word = data_tx
    BY <1>3
  <2>4. /\ bit_cnt # 0 /\ bit_cnt' = bit_cnt - 1 /\ sda_int' = word[bit_cnt - 1] => Receives(word)'
        /\ bit_cnt = 0 => phase = "ack" /\ bits[Width] = word[0]
    <3>1. Receives(word)
      BY <2>1, <2>3 DEF InWr
    <3>2. QED
      BY <1>1, <2>2, <3>1, NextReceived
  <2>5. UNCHANGED <<phase, bits, isCommand>>
    BY <2>2 DEF Steady
  <2>6. CASE bit_cnt = 0
    <3>1. sda_int' = 1 /\ bit_cnt' = Msb /\ state' = "slv_ack2"
      BY <2>1, <2>6 DEF Shift, LastBit
    <3>2. InSlvAck2'
      BY <1>1, <1>4, <2>1, <2>2, <2>3, <2>4, <2>5, <2>6, <3>1 DEF InSlvAck2, InWr
    <3>3. QED
      BY <1>4, <2>1, <2>2, <3>1, <3>2 DEF Together, Crosses
  <2>7. CASE bit_cnt # 0
    <3>1. sda_int' = word[bit_cnt - 1] /\ bit_cnt' = bit_cnt - 1 /\ state' = "wr"
      BY <2>1, <2>3, <2>7 DEF Shift, LastBit, NextBit
    <3>2. Receives(data_tx)'
      BY <1>1, <2>3, <2>4, <2>7, <3>1 DEF Receives
    <3>3. InWr'
      BY <1>1, <1>4, <2>1, <2>2, <2>5, <2>7, <3>2 DEF InWr
    <3>4. QED
      BY <1>4, <2>1, <2>2, <3>1, <3>3 DEF Together, Crosses
  <2>8. QED
    BY <2>6, <2>7
<1>10. CASE SlvAck1
  <2>1. state = "slv_ack1" /\ InSlvAck1 /\ scl_ena = 1 /\ bit_cnt = Msb /\ due = Rest /\ bit_cnt' = bit_cnt
    BY <1>10 DEF SlvAck1, Together, InSlvAck1
  <2>2. /\ ClockInv' /\ LineRules /\ Steady /\ due' = due
        /\ After /\ ~After' /\ ~Sampled' /\ Early'
    BY <1>5, <2>1 DEF Fresh
  <2>3. UNCHANGED <<phase, bits, isCommand, shown>>
    BY <2>2 DEF Steady
  <2>4. addr_rw[0] \in {0, 1}
    BY <1>3 DEF Word, Bit
  <2>5. CASE addr_rw[0] = 0
    <3>1. sda_int' = data_tx[bit_cnt] /\ state' = "wr" /\ Open
      BY <1>10, <2>1, <2>2, <2>5 DEF SlvAck1, InSlvAck1
    <3>2. PICK word \in Word : word = data_tx
      BY <1>3
    <3>3. Receives(word)'
      BY <1>1, <2>1, <2>2, <3>1, <3>2, FirstReceived DEF Open
    <3>4. Receives(data_tx)'
      BY <1>1, <3>2, <3>3 DEF Receives
    <3>5. InWr'
      BY <1>1, <2>1, <2>2, <2>3, <2>5, <3>1, <3>4 DEF InWr, Open, Rest
    <3>6. QED
      BY <1>4, <2>1, <2>2, <3>1, <3>5 DEF Together, Crosses
  <2>6. CASE addr_rw[0] = 1
    <3>1. sda_int' = 1 /\ state' = "rd" /\ Shows(Msb)
      BY <1>10, <2>1, <2>2, <2>6 DEF SlvAck1, InSlvAck1
    <3>2. Shows(Msb)'
      BY <2>3, <3>1 DEF Shows
    <3>3. \A k \in 0 .. Msb : ~(k > Msb)
      BY DEF Msb
    <3>4. InRd'
      <4>1. Shows(bit_cnt)'
        BY <2>1, <3>2 DEF Shows
      <4>2. QED
        BY <1>1, <2>1, <2>2, <2>6, <3>1, <3>3, <4>1 DEF InRd, Rest
    <3>5. QED
      BY <1>4, <2>1, <2>2, <3>1, <3>4 DEF Together, Crosses
  <2>7. QED
    BY <2>4, <2>5, <2>6
<1>11. CASE RdBit
  <2>1. state = "rd" /\ state' = "rd" /\ InRd /\ scl_ena = 1 /\ bit_cnt # 0 /\ bit_cnt' = bit_cnt - 1 /\ sda_int' = sda_int
    BY <1>11 DEF RdBit, Together, InRd, LastBit
  <2>2. /\ ClockInv' /\ LineRules /\ Steady /\ due' = due
        /\ After /\ ~After' /\ ~Sampled' /\ Early' /\ ~Early
    BY <1>5, <2>1 DEF Fresh
  <2>3. Shows(bit_cnt - 1)
    BY <2>1, <2>2 DEF InRd
  <2>4. Shows(bit_cnt)'
    BY <2>1, <2>2, <2>3 DEF Shows, Steady
  <2>5. bit_cnt \in 0 .. Msb /\ Msb \in Nat
    BY <1>1 DEF TypeInv, TypeOK, MachineOK, Msb
  <2>6. \A k \in 0 .. Msb : k > bit_cnt' => k > bit_cnt \/ k = bit_cnt
    BY <2>1, <2>5
  <2>7. \A k \in 0 .. Msb : k > bit_cnt' => data_rx'[k] = shown'[k]
    BY <1>1, <2>1, <2>2, <2>6 DEF InRd, Steady
  <2>8. InRd'
    BY <1>1, <2>1, <2>2, <2>4, <2>7 DEF InRd
  <2>9. QED
    BY <1>4, <2>1, <2>2, <2>8 DEF Together, Crosses
<1>12. CASE StopBit
  <2>1. state = "stop" /\ state' = "ready" /\ InStop /\ UNCHANGED <<bit_cnt, sda_int>>
    BY <1>12 DEF StopBit, Together
  <2>2. ~Early /\ ~Fresh
    BY <1>1, <2>1, Lines DEF Here, Early, TypeInv, Fresh
  <2>3. scl_ena = 0 /\ phase = "off" /\ sda_int = 1 /\ due = << >> /\ bit_cnt = Msb
    BY <2>1, <2>2 DEF InStop
  <2>4. sda_ena_n = 1 /\ sda_ena_n' = 1
    BY <1>2, <2>1, <2>3 DEF sda_ena_n
  <2>5. ClockInv' /\ LineRules /\ Steady /\ due' = due
    BY <1>5, <2>2, <2>4
  <2>6. InReady'
    BY <1>1, <2>1, <2>3, <2>5 DEF InReady, Steady
  <2>7. QED
    BY <1>4, <2>1, <2>5, <2>6 DEF Together, Crosses
<1>13. QED
  BY <1>6, <1>7, <1>8, <1>9, <1>10, <1>11, <1>12 DEF BBits, Bits

(* ... so does the end of a byte read ...                                  *)
LEMMA RdLastKeeps ==
    ASSUME Here, Together, ErrorTold, BRdLast
    PROVE  Together' /\ ErrorTold' /\ ClockInv' /\ LineRules /\ Crosses
<1>1. PICK r \in Requests : RdLast(r.ena, r.cmd) /\ request' = r
  BY DEF BRdLast
<1>2. /\ TypeInv /\ Device /\ RisingEdge /\ Due(<< >>)
      /\ UNCHANGED <<nacked, addr_rw, data_tx, data_rx, scl_ena, ack_error>>
      /\ state = "rd" /\ bit_cnt = 0 /\ state' = "mstr_ack" /\ bit_cnt' = Msb /\ data_rd' = data_rx
      /\ sda_int' = IF r.ena /\ addr_rw = r.cmd THEN 0 ELSE 1
  BY <1>1 DEF BRdLast, RdLast, LastBit, AcksRead, Here
<1>3. InRd /\ scl_ena = 1 /\ due = << >> /\ addr_rw[0] = 1
  BY <1>2 DEF Together, InRd
<1>4. /\ ClockInv' /\ LineRules /\ Steady /\ ~Completes
      /\ After /\ ~After' /\ ~Early /\ ~Sampled'
  BY <1>2, <1>3, RisesLines DEF Fresh
<1>5. due' = << >>
  BY <1>2, <1>3, <1>4, DueStep DEF TypeInv, TypeOK, MachineOK
<1>6. phase' = "master_ack"
  BY <1>2, <1>3, <1>4 DEF InRd, Steady
<1>7. sda_int' = IF request'.ena /\ request'.cmd = addr_rw' THEN 0 ELSE 1
  BY <1>1, <1>2
<1>8. InMstrAck'
  BY <1>2, <1>3, <1>4, <1>5, <1>6, <1>7 DEF InMstrAck
<1>9. data_rx = shown
  <2>1. data_rx \in [0 .. Msb -> Bit] /\ shown \in [0 .. Msb -> Bit] /\ Msb \in Nat
    BY <1>2 DEF TypeInv, TypeOK, MachineOK, DeviceOK, Word, Msb
  <2>2. \A k \in 0 .. Msb : k > 0 \/ k = 0
    BY <2>1
  <2>3. \A k \in 0 .. Msb : data_rx[k] = shown[k]
    BY <1>2, <1>3, <1>4, <2>2 DEF InRd
  <2>4. QED
    BY <2>1, <2>3
<1>10. ErrorTold'
  BY <1>2 DEF ErrorTold
<1>11. QED
  BY <1>2, <1>4, <1>8, <1>9, <1>10 DEF Together, Crosses

(* ... and the steps that take, go on with and end a transaction.          *)
LEMMA AcceptKeeps ==
    ASSUME Here, Together, ErrorTold, BAccept
    PROVE  Together' /\ ErrorTold' /\ ClockInv' /\ LineRules /\ Crosses
<1>1. PICK cmd \in Commands, data \in Words :
        Accept(cmd, data) /\ Device /\ Due(Takes(cmd, data))
  BY DEF BAccept
<1>2. /\ RisingEdge /\ busy = 0 /\ UNCHANGED <<nacked, scl_ena, sda_int, ack_error, bit_cnt>>
      /\ state = "ready" /\ state' = "start" /\ addr_rw' = cmd /\ data_tx' = data
      /\ cmd \in Word /\ data \in Word /\ TypeInv
  BY <1>1, BusAssumption DEF BAccept, Accept, Here, WellUsed
<1>3. InReady
  BY <1>2 DEF Together
<1>4. sda_ena_n = 1 /\ sda_ena_n' = 1
  <2>1. data_clk_prev' = 1
    BY <1>2, CountMoves DEF RisingEdge
  <2>2. QED
    BY <1>2, <1>3, <2>1 DEF sda_ena_n, InReady
<1>5. /\ ClockInv' /\ LineRules /\ Steady /\ ~Completes /\ Early'
  BY <1>1, <1>2, <1>4, RisesLines DEF Fresh
<1>6. due' = Whole'
  <2>1. /\ Due(<<cmd>>) => due' = <<cmd>>
        /\ Due(<<cmd, data>>) => due' = <<cmd, data>>
    BY <1>2, <1>3, <1>5, DueStep DEF InReady
  <2>2. QED
    BY <1>1, <1>2, <2>1 DEF Whole, Takes
<1>7. InStart'
  BY <1>2, <1>3, <1>5, <1>6 DEF InReady, InStart, Steady
<1>8. QED
  BY <1>2, <1>5, <1>7 DEF Together, Crosses, ErrorTold

(* The next request, taken in the acknowledge.                             *)
LEMMA ContinueKeeps ==
    ASSUME Here, Together, ErrorTold, BContinue
    PROVE  Together' /\ ErrorTold' /\ ClockInv' /\ LineRules /\ Crosses
<1>1. PICK cmd \in Commands, data \in Words :
        /\ state = "mstr_ack" => request = [ena |-> TRUE, cmd |-> cmd]
        /\ Continue(cmd, data) /\ Device
        /\ Due(IF cmd # addr_rw THEN Takes(cmd, data)
               ELSE IF cmd[0] = 1 THEN << >> ELSE <<data>>)
  BY DEF BContinue, Here, WellUsed
<1>2. /\ RisingEdge /\ UNCHANGED <<request, nacked, scl_ena, ack_error, bit_cnt, data_rx>>
      /\ state \in {"slv_ack2", "mstr_ack"} /\ addr_rw' = cmd /\ data_tx' = data
      /\ cmd # addr_rw => state' = "start" /\ sda_int' = sda_int
      /\ cmd = addr_rw /\ state = "slv_ack2" => state' = "wr" /\ sda_int' = data[bit_cnt]
      /\ cmd = addr_rw /\ state = "mstr_ack" => state' = "rd" /\ sda_int' = 1
      /\ cmd \in Word /\ data \in Word /\ TypeInv
  BY <1>1, BusAssumption DEF BContinue, Continue, Here
<1>3. scl_ena = 1 /\ bit_cnt = Msb /\ due = << >>
  BY <1>2 DEF Together, InSlvAck2, InMstrAck
<1>4. /\ ClockInv' /\ LineRules /\ Steady /\ ~Completes
      /\ After /\ ~After' /\ ~Early /\ Early' /\ ~Sampled'
  BY <1>1, <1>2, <1>3, RisesLines DEF Fresh
<1>5. ErrorTold' /\ UNCHANGED <<phase, bits, isCommand, shown>>
  BY <1>2, <1>4 DEF ErrorTold, Steady
<1>6. /\ Due(<< >>) => due' = << >>
      /\ Due(<<cmd>>) => due' = <<cmd>>
      /\ Due(<<cmd, data>>) => due' = <<cmd, data>>
      /\ Due(<<data>>) => due' = <<data>>
  BY <1>2, <1>3, <1>4, DueStep
<1>7. CASE cmd # addr_rw
  <2>1. due' = Whole'
    BY <1>1, <1>2, <1>6, <1>7 DEF Whole, Takes
  <2>2. phase \in {"off", "byte"} /\ (state = "mstr_ack" => sda_int = 1)
    <3>1. CASE state = "slv_ack2"
      BY <1>4, <3>1 DEF Together, InSlvAck2, Open
    <3>2. CASE state = "mstr_ack"
      <4>1. request.cmd # addr_rw
        BY <1>1, <1>7, <3>2
      <4>2. sda_int = 1
        BY <3>2, <4>1 DEF Together, InMstrAck
      <4>3. QED
        BY <1>4, <3>2, <4>2 DEF Together, InMstrAck
    <3>3. QED
      BY <1>2, <3>1, <3>2
  <2>3. InStart'
    BY <1>2, <1>3, <1>4, <1>5, <2>1, <2>2 DEF InStart
  <2>4. QED
    BY <1>2, <1>4, <1>5, <1>7, <2>2, <2>3 DEF Together, Crosses
<1>8. CASE cmd = addr_rw /\ state = "slv_ack2"
  <2>1. InSlvAck2 /\ Open /\ cmd[0] # 1
    BY <1>4, <1>8 DEF Together, InSlvAck2
  <2>2. due' = <<data>>
    BY <1>1, <1>6, <1>8, <2>1
  <2>3. Receives(data)'
    BY <1>2, <1>3, <1>4, <1>8, <2>1, FirstReceived DEF Open
  <2>4. Receives(data_tx)'
    BY <1>2, <2>3 DEF Receives
  <2>5. InWr'
    BY <1>2, <1>3, <1>4, <1>5, <2>1, <2>2, <2>4 DEF InWr, Open
  <2>6. QED
    BY <1>2, <1>4, <1>5, <1>8, <2>5 DEF Together, Crosses
<1>9. CASE cmd = addr_rw /\ state = "mstr_ack"
  <2>1. request = [ena |-> TRUE, cmd |-> addr_rw]
    BY <1>1, <1>9
  <2>2. InMstrAck /\ cmd[0] = 1
    BY <1>9 DEF Together, InMstrAck
  <2>3. sda_int = 0
    BY <2>1, <2>2 DEF InMstrAck
  <2>4. Shows(Msb)
    BY <1>4, <2>2, <2>3 DEF InMstrAck
  <2>5. due' = << >>
    BY <1>1, <1>6, <1>9, <2>2
  <2>6. Shows(bit_cnt)'
    BY <1>2, <1>3, <1>5, <2>4 DEF Shows
  <2>7. \A k \in 0 .. Msb : ~(k > Msb)
    BY DEF Msb
  <2>8. InRd'
    BY <1>2, <1>3, <1>4, <1>5, <1>9, <2>2, <2>5, <2>6, <2>7 DEF InRd
  <2>9. QED
    BY <1>2, <1>4, <1>5, <1>9, <2>8 DEF Together, Crosses
<1>10. QED
  BY <1>2, <1>7, <1>8, <1>9

(* No further request: the device is off the line, or listens.             *)
LEMMA CompleteKeeps ==
    ASSUME Here, Together, ErrorTold, BComplete
    PROVE  Together' /\ ErrorTold' /\ ClockInv' /\ LineRules /\ Crosses
<1>1. /\ RisingEdge /\ Device /\ Due(<< >>) /\ TypeInv
      /\ UNCHANGED <<request, nacked, scl_ena, sda_int, ack_error, bit_cnt>>
      /\ state \in {"slv_ack2", "mstr_ack"} /\ state' = "stop"
      /\ state = "mstr_ack" => ~request.ena
  BY DEF BComplete, Complete, Here, WellUsed
<1>2. scl_ena = 1 /\ bit_cnt = Msb /\ due = << >>
  BY <1>1 DEF Together, InSlvAck2, InMstrAck
<1>3. /\ ClockInv' /\ LineRules /\ Steady /\ ~Completes
      /\ After /\ ~After' /\ ~Early /\ Early'
  BY <1>1, <1>2, RisesLines DEF Fresh
<1>4. due' = << >>
  BY <1>1, <1>2, <1>3, DueStep DEF TypeInv, TypeOK, MachineOK
<1>5. sda_int = 1 /\ phase \in {"off", "byte"}
  <2>1. CASE state = "slv_ack2"
    BY <1>3, <2>1 DEF Together, InSlvAck2, Open
  <2>2. CASE state = "mstr_ack"
    <3>1. sda_int = 1
      BY <1>1, <2>2 DEF Together, InMstrAck
    <3>2. QED
      BY <1>3, <2>2, <3>1 DEF Together, InMstrAck
  <2>3. QED
    BY <1>1, <2>1, <2>2
<1>6. InStop'
  BY <1>1, <1>2, <1>3, <1>4, <1>5 DEF InStop, Steady
<1>7. QED
  BY <1>1, <1>3, <1>5, <1>6 DEF Together, Crosses, ErrorTold

(* A tick of the clock finds everything the lemmas start from.             *)
LEMMA HereHolds ==
    ASSUME WellUsed, Inv, Tick
    PROVE  Here
<1>1. TypeInv /\ ClockInv /\ (state = "ready" => scl_ena = 0)
  BY DEF Inv, Together, InReady
<1>2. ClocksOK' /\ scl_ena' \in Bit
  BY <1>1, TypeStep DEF Next, TypeInv, TypeOK, MachineOK
<1>3. ClockGen(scl) /\ HoldsClock
  BY DEF Tick, BAccept, BContinue, BComplete, BRdLast, BBits, BFalls, BNoEdge, Device
<1>4. scl_ena' = scl_ena \/ count = 3 * divider
  <2>1. CASE BAccept \/ BContinue \/ BComplete \/ BRdLast \/ BBits \/ BNoEdge
    BY <2>1 DEF BAccept, Accept, BContinue, Continue, BComplete, Complete, BRdLast, RdLast, BBits, Bits,
         Idle, StartBit, Command, Wr, SlvAck1, RdBit, StopBit, Shift, BNoEdge, NoEdge, machine
  <2>2. CASE BFalls
    <3>1. FallingEdge /\ (scl_ena' = scl_ena \/ state # "ready")
      BY <2>2 DEF BFalls, StartFalls, AckFalls, RdFalls, StopFalls, OtherFalls, machine
    <3>2. QED
      BY <1>1, <3>1, Lines
  <2>3. QED
    BY <2>1, <2>2 DEF Tick
<1>5. QED
  BY <1>1, <1>2, <1>3, <1>4 DEF Here

(* A device that stretches stops the count.                                *)
LEMMA StretchStep ==
    ASSUME Here, hold, Quarter(count) = 2
    PROVE  Quarter(count') = 2
<1>1. count \in 0 .. 4 * divider - 1 /\ divider \in Nat /\ divider >= 2
  BY DEF Here, TypeInv, TypeOK, ClocksOK, WellUsed
<1>2. count >= 2 * divider
  BY <1>1, Quarters
<1>3. count = 2 * divider /\ stretch
  BY <1>1, <1>2 DEF Here, ClockInv
<1>4. count' = count
  BY <1>1, <1>3, CountMoves
<1>5. QED
  BY <1>4

(* What every tick keeps, and what it may do.                              *)
LEMMA TickStep ==
    ASSUME WellUsed, Inv, Tick
    PROVE  /\ Inv' /\ LineRules /\ Crosses
           /\ hold /\ Quarter(count) = 2 => Quarter(count') = 2
<1>1. TypeInv'
  BY TypeStep DEF Inv, Next
<1>2. Here /\ Together /\ ErrorTold
  BY HereHolds DEF Inv
<1>3. hold /\ Quarter(count) = 2 => Quarter(count') = 2
  BY <1>2, StretchStep
<1>4. CASE BFalls \/ BNoEdge
  <2>1. Together' /\ ErrorTold' /\ ClockInv' /\ LineRules
    BY <1>2, <1>4, FallsKeeps, QuietKeeps
  <2>2. state' = state
    BY <1>4 DEF BFalls, StartFalls, AckFalls, RdFalls, StopFalls, OtherFalls, BNoEdge, NoEdge, machine
  <2>3. Crosses
    BY <2>2 DEF Crosses
  <2>4. QED
    BY <1>1, <1>3, <2>1, <2>3 DEF Inv
<1>5. CASE BAccept \/ BContinue \/ BComplete \/ BRdLast \/ BBits
  <2>1. Together' /\ ErrorTold' /\ ClockInv' /\ LineRules /\ Crosses
    BY <1>2, <1>5, AcceptKeeps, ContinueKeeps, CompleteKeeps, RdLastKeeps, BitsKeep
  <2>2. QED
    BY <1>1, <1>3, <2>1 DEF Inv
<1>6. QED
  BY <1>4, <1>5 DEF Tick

(* A reset leaves an idle master and a device off the bus.                 *)
LEMMA ResetStep ==
    ASSUME Inv, BReset
    PROVE  Inv'
<1>1. /\ count' = 0 /\ stretch' = FALSE /\ hold' = FALSE /\ state' = "ready" /\ busy' = 1
      /\ bit_cnt' = Msb /\ scl_ena' = 0 /\ sda_int' = 1 /\ ack_error' = 0
      /\ phase' = "off" /\ due' = << >> /\ nacked' = FALSE
  BY DEF BReset, Reset
<1>2. ClockInv' /\ Together'
  BY <1>1 DEF ClockInv, Fresh, Together, InReady
<1>3. (ack_error' = 1) = FALSE
  BY <1>1
<1>4. ErrorTold'
  BY <1>1, <1>3, Zenon DEF ErrorTold
<1>5. TypeInv'
  BY TypeStep DEF Inv, Next
<1>6. QED
  BY <1>2, <1>4, <1>5 DEF Inv

(* The inductive invariant of the bus.                                     *)
LEMMA BusStep == WellUsed /\ Inv /\ [Next]_vars => Inv'
<1> SUFFICES ASSUME WellUsed, Inv, [Next]_vars PROVE Inv'
    OBVIOUS
<1>1. CASE UNCHANGED vars
  <2>1. /\ UNCHANGED <<count, stretch, scl_clk, data_clk, data_clk_prev>>
        /\ UNCHANGED <<state, busy, addr_rw, data_tx, data_rx, data_rd, bit_cnt, scl_ena, sda_int, ack_error>>
        /\ UNCHANGED <<phase, bits, isCommand, addressed, acks, hold, shown>>
        /\ UNCHANGED <<request, due, nacked>>
    BY <1>1 DEF vars, masterVars, clocks, machine, device, client
  <2>2. (Early' <=> Early) /\ (After' <=> After) /\ scl' = scl
    BY <2>1 DEF Early, After, scl, scl_out
  <2>3. TypeInv' /\ ClockInv' /\ ErrorTold'
    BY <2>1, <2>2, TypeStep DEF Inv, ClockInv, Fresh, ErrorTold
  <2>4. Together'
    <3>1. CASE state = "ready"
      BY <2>1, <3>1 DEF Inv, Together, InReady
    <3>2. CASE state # "ready"
      <4>1. Stays /\ UNCHANGED machine
        BY <2>1, <2>2 DEF Stays, Steady, machine
      <4>2. QED
        BY <2>1, <3>2, <4>1, StaysTable DEF Inv
    <3>3. QED
      BY <3>1, <3>2
  <2>5. QED
    BY <2>3, <2>4 DEF Inv
<1>2. QED
  BY <1>1, TickStep, ResetStep DEF Next

(* After power-up the clocks the reset does not name have any value.       *)
LEMMA BusInit == BInit => Inv
<1> SUFFICES ASSUME BInit PROVE Inv
    OBVIOUS
<1>1. TypeInv
  BY TypeInit
<1>2. ClockInv /\ Together
  BY DEF BInit, Init, ClockInv, Fresh, Together, InReady
<1>3. (ack_error = 1) = FALSE /\ nacked = FALSE
  BY DEF BInit, Init
<1>4. ErrorTold
  BY <1>3, Zenon DEF ErrorTold
<1>5. QED
  BY <1>1, <1>2, <1>4 DEF Inv

(* The rules of the bus hold at every step: sda moves with scl high only   *)
(* for START and STOP, every transaction opens with a START, the last byte *)
(* read is refused, and a stretching device is waited for.                 *)
THEOREM RulesKept ==
    ASSUME WellUsed PROVE Spec => BusRules
<1> DEFINE Stable == ~BReset /\ scl = 1 /\ scl' = 1 /\ sda # sda'
                       => \/ state = "start" /\ sda' = 0
                          \/ state = "stop" /\ sda' = 1
           Opens == ~BReset /\ "start" \in {state, state'} /\ sda = 1 /\ sda' = 0
                      => scl = 1 /\ scl' = 1
           Refuses == state = "mstr_ack" /\ state' \in {"start", "stop"} => sda_int = 1
           Waits == hold /\ Quarter(count) = 2 => Quarter(count') = 2 \/ BReset
<1>1. Inv /\ [Next]_vars => [Stable /\ Opens /\ Refuses /\ Waits]_vars
  <2> SUFFICES ASSUME Inv, Next PROVE Stable /\ Opens /\ Refuses /\ Waits
    OBVIOUS
  <2>1. CASE Tick
    BY <2>1, TickStep DEF LineRules, Crosses
  <2>2. CASE BReset
    BY <2>2 DEF BReset, Reset
  <2>3. QED
    BY <2>1, <2>2 DEF Next
<1> HIDE DEF Stable, Opens, Refuses, Waits
<1>2. Inv /\ [Next]_vars => Inv'
  BY BusStep
<1>3. Spec => [][Stable /\ Opens /\ Refuses /\ Waits]_vars
  BY <1>1, <1>2, BusInit, PTL DEF Spec
<1>4. [][Stable /\ Opens /\ Refuses /\ Waits]_vars
        => [][Stable]_vars /\ [][Opens]_vars /\ [][Refuses]_vars /\ [][Waits]_vars
  BY PTL
<1>5. QED
  BY <1>3, <1>4 DEF BusRules, SdaStable, OpensWithStart, NackBeforeStop, StretchHonoured,
                    Stable, Opens, Refuses, Waits

(* Bytes cross the bus whole, in order and in both directions, none is     *)
(* left when the master is idle again, and ack_error tells of a missing    *)
(* acknowledge.                                                            *)
THEOREM BytesCorrect ==
    ASSUME WellUsed PROVE Spec => BytesCross
<1> DEFINE Arrives == Completes => due # << >> /\ AsWord(bits) = Head(due)
           Reads == state = "rd" /\ state' = "mstr_ack" => data_rd' = shown
<1>1. Inv /\ [Next]_vars => [Arrives /\ Reads]_vars
  <2> SUFFICES ASSUME Inv, Next PROVE Arrives /\ Reads
    OBVIOUS
  <2>1. CASE Tick
    BY <2>1, TickStep DEF LineRules, Crosses
  <2>2. CASE BReset
    BY <2>2 DEF BReset, Reset, Completes
  <2>3. QED
    BY <2>1, <2>2 DEF Next
<1> HIDE DEF Arrives, Reads
<1>2. Inv /\ [Next]_vars => Inv'
  BY BusStep
<1>3. Inv => NothingLeftOut /\ AckErrorTells
  BY DEF Inv, Together, InReady, ErrorTold, NothingLeftOut, AckErrorTells
<1>4. Spec => [][Arrives]_vars /\ [][Reads]_vars /\ [](NothingLeftOut /\ AckErrorTells)
  BY <1>1, <1>2, <1>3, BusInit, PTL DEF Spec
<1>5. QED
  BY <1>4 DEF BytesCross, BytesArrive, ReadsShown, Arrives, Reads
================================================================================
