----------------------------- MODULE SpiLinkProofs ------------------------------
(***************************************************************************)
(* For every number of slaves, every set of addresses and dividers and     *)
(* every word length, in all four modes, single words and words run        *)
(* together: only the addressed line is ever low; the registers keep their *)
(* types; the device sees whole clock pulses; and master and device are    *)
(* two channels that lose, change or reorder no word (the safety part of   *)
(* the refinement of SerialChannel, each way).                             *)
(*                                                                         *)
(* What a hit does is first reduced to five steps (Opens, Gives, Takes,    *)
(* Trails, Closes) by HitsAre; every later proof has one lemma per step.   *)
(***************************************************************************)
EXTENDS SpiLink, SequenceTheorems, TLAPS

USE SlavesAssumption, AddressAssumption, DividerAssumption

Lines == 0 .. slaves - 1

\* The latched slave number is what keeps the selection in step with the address.
SelectInv ==
    /\ state \in {"ready", "execute"}
    /\ slave \in Lines
    /\ ss_n \in [Lines -> Bit]
    /\ \A i \in Lines : ss_n[i] = 0 => state = "execute" /\ i = slave
    /\ state = "execute" => slave = SlaveFor(addr)

(* The address is latched with the slave number and kept to the end.       *)
LEMMA SelectStep == SelectInv /\ [Next]_vars => SelectInv'
<1> SUFFICES ASSUME SelectInv, [Next]_vars PROVE SelectInv'
    OBVIOUS
<1> USE DEF SelectInv
<1>1. Deselected \in [Lines -> Bit] /\ \A i \in Lines : Deselected[i] # 0
  BY DEF Deselected, Lines, Bit
<1>2. CASE LAccept
  <2>1. PICK div \in Dividers, a \in Addresses, w \in Word :
          Accept(cpol, cpha, div, a, w) /\ addr' = a
    BY <1>2 DEF LAccept
  <2>2. slave' = SlaveFor(addr') /\ slave' \in Lines
    BY <2>1 DEF Accept, SlaveFor, Lines
  <2>3. ss_n' = Deselected /\ state' = "execute"
    BY <2>1 DEF Accept
  <2>4. QED
    BY <1>1, <2>2, <2>3 DEF SlaveFor
<1>3. CASE LRest
  BY <1>1, <1>3 DEF LRest, Rest
<1>4. ASSUME state = "execute", UNCHANGED <<slave, addr>>, state' = "execute",
             ss_n' = [ss_n EXCEPT ![slave] = 0]
      PROVE  SelectInv'
  BY <1>4 DEF Bit, SlaveFor
<1>5. CASE LWait
  BY <1>4, <1>5 DEF LWait, Wait
<1>6. ASSUME NEW cont, NEW w, NEW bit, Hit(cont, w, bit), UNCHANGED addr
      PROVE  SelectInv'
  <2>1. CASE Ends(cont)
    BY <1>1, <1>6, <2>1 DEF Hit
  <2>2. CASE ~Ends(cont)
    BY <1>4, <1>6, <2>2 DEF Hit
  <2>3. QED
    BY <2>1, <2>2
<1>7. CASE LHit
  BY <1>6, <1>7 DEF LHit
<1>8. CASE LHitReloads
  BY <1>6, <1>8 DEF LHitReloads
<1>9. CASE LReset
  BY <1>1, <1>9 DEF LReset, Reset
<1>10. CASE UNCHANGED vars
  BY <1>10 DEF vars, masterVars, control, SlaveFor
<1>11. QED
  BY <1>2, <1>3, <1>5, <1>7, <1>8, <1>9, <1>10 DEF Next, Tick

(* Whatever the mode, the divider and the words: no line but the one asked *)
(* for is ever low, and that one only during its transaction.              *)
THEOREM SelectsOne == Spec => []SelectsTheAddressed
<1>1. LInit => SelectInv
  BY DEF LInit, Init, SelectInv, Deselected, Lines, Bit
<1>2. SelectInv => SelectsTheAddressed
  BY DEF SelectInv, SelectsTheAddressed, SlaveFor, Lines
<1>3. QED
  BY <1>1, <1>2, SelectStep, PTL DEF Spec

-----------------------------------------------------------------------------
(* Types and the clock. *)

\* The registers of the two ends, but for the words under way.
Registers ==
    /\ clk_ratio \in (Dividers \cup {1}) \ {0} /\ count \in 1 .. clk_ratio
    /\ clk_toggles \in 0 .. Toggles + 1 /\ last_bit_rx \in 0 .. Toggles
    /\ assert_data \in BOOLEAN /\ continue \in BOOLEAN
    /\ rx_buffer \in Word /\ tx_buffer \in Word /\ rx_data \in Word
    /\ sclk \in Bit /\ mosi \in Bit \cup {Z} /\ busy \in Bit
    /\ cpol \in Bit /\ cpha \in Bit /\ age \in Nat /\ devOut \in Seq(Bit)

\* The toggle counter says where the clock line is, and which of the two things a
\* hit does comes next; the count of the divider says how long the line has rested.
Clocked ==
    state = "execute" =>
        /\ last_bit_rx = Toggles + cpha - 1
        /\ assert_data <=> (clk_toggles + cpha) % 2 = 0
        /\ continue => clk_toggles = cpha /\ ss_n[slave] = 0
        /\ ss_n[slave] # 0 => clk_toggles = 0 /\ sclk = cpol /\ count = clk_ratio
        /\ ss_n[slave] = 0 => /\ clk_toggles >= cpha /\ age = count
                              /\ sclk = cpol <=> clk_toggles % 2 = 1

TypeInv == Registers /\ SelectInv /\ Clocked

(* A word is a sequence of its bits.                                       *)
LEMMA WordIsSeq ==
    /\ Word \subseteq Seq(Bit)
    /\ \A w \in Word : Len(w) = d_width
    /\ \A s \in Seq(Bit) : Len(s) = d_width => s \in Word
<1>1. d_width \in Nat
  OBVIOUS
<1>2. ASSUME NEW w \in Word PROVE w \in Seq(Bit) /\ Len(w) = d_width
  <2>1. w \in [1 .. d_width -> Bit] /\ DOMAIN w = 1 .. d_width
    BY DEF Word
  <2>2. w \in Seq(Bit)
    BY <1>1, <2>1, SeqDef
  <2>3. Len(w) \in Nat /\ DOMAIN w = 1 .. Len(w)
    BY <2>2, LenProperties
  <2>4. QED
    BY <1>1, <2>1, <2>2, <2>3
<1>3. ASSUME NEW s \in Seq(Bit), Len(s) = d_width PROVE s \in Word
  BY <1>3, LenProperties DEF Word
<1>4. QED
  BY <1>2, <1>3

(* A shift drops the first bit and adds one behind the last.               *)
LEMMA ShiftedIs ==
    ASSUME NEW w \in Word, NEW bit \in Bit
    PROVE  /\ Shifted(w, bit) \in Word
           /\ \A i \in 1 .. d_width : Shifted(w, bit)[i] = IF i = d_width THEN bit ELSE w[i + 1]
<1>1. w \in Seq(Bit) /\ Len(w) = d_width /\ w # << >>
  BY WordIsSeq, EmptySeq
<1>2. /\ Tail(w) \in Seq(Bit) /\ Len(Tail(w)) = d_width - 1
      /\ \A i \in 1 .. d_width - 1 : Tail(w)[i] = w[i + 1]
  BY <1>1, HeadTailProperties
<1>3. /\ Shifted(w, bit) \in Seq(Bit) /\ Len(Shifted(w, bit)) = d_width - 1 + 1
      /\ Shifted(w, bit)[d_width - 1 + 1] = bit
      /\ \A i \in 1 .. d_width - 1 : Shifted(w, bit)[i] = Tail(w)[i]
  BY <1>2, AppendProperties DEF Shifted
<1>4. d_width - 1 + 1 = d_width
  OBVIOUS
<1>5. Shifted(w, bit) \in Word
  BY <1>3, <1>4, WordIsSeq
<1>6. QED
  BY <1>2, <1>3, <1>4, <1>5

(* What is on miso is a bit.                                               *)
LEMMA MisoIsBit ==
    ASSUME devOut \in Seq(Bit)
    PROVE  miso \in Bit
BY HeadTailProperties DEF miso, Bit

(* Some line is low exactly if the selected one is.                        *)
LEMMA SelectedLine ==
    ASSUME SelectInv
    PROVE  anySelected <=> ss_n[slave] = 0
BY DEF SelectInv, anySelected, Lines

(* The device shows bits.                                                  *)
LEMMA DeviceShows ==
    ASSUME devOut \in Seq(Bit), Device
    PROVE  devOut' \in Seq(Bit)
<1>1. ASSUME DevLoads PROVE devOut' \in Seq(Bit)
  BY <1>1, WordIsSeq DEF DevLoads
<1>2. ASSUME DevShifts PROVE devOut' \in Seq(Bit)
  <2>1. CASE Len(devOut) > 1
    BY <1>2, <2>1, HeadTailProperties, EmptySeq DEF DevShifts
  <2>2. CASE ~(Len(devOut) > 1)
    BY <1>1, <1>2, <2>2 DEF DevShifts
  <2>3. QED
    BY <2>1, <2>2
<1>3. \/ devOut' = << >> \/ devOut' = devOut \/ DevLoads \/ DevShifts
  BY DEF Device, DevSamples, dev
<1>4. QED
  BY <1>1, <1>2, <1>3, EmptySeq

(* The divider's count stays below what age can count to.                  *)
LEMMA AgeSuffices ==
    ASSUME Registers, count < clk_ratio
    PROVE  MaxAge \in Nat /\ count < MaxAge
<1> DEFINE Largest(d) == \A e \in Dividers : d >= e
           top == CHOOSE d \in Dividers \cup {1} : Largest(d)
<1>1. \E d \in Dividers \cup {1} : Largest(d)
  OBVIOUS
<1>2. top \in Dividers \cup {1} /\ Largest(top)
  BY <1>1
<1>3. MaxAge = 2 * top
  BY DEF MaxAge
<1> HIDE DEF top
<1>4. clk_ratio \in Nat /\ count \in Nat /\ clk_ratio \in Dividers
  BY DEF Registers
<1>5. top \in Nat /\ clk_ratio <= top
  BY <1>2, <1>4
<1>6. QED
  BY <1>3, <1>4, <1>5

-----------------------------------------------------------------------------
(* What a hit does.  Pos counts the hits of a word from the one that gives *)
(* its first bit: bits are given at even and taken at odd positions.       *)

Pos == IF clk_toggles < cpha THEN 0 ELSE clk_toggles - cpha

Lasting ==
    /\ state = "execute" /\ state' = "execute" /\ ss_n[slave] = 0 /\ ss_n' = ss_n
    /\ sclk' = 1 - sclk /\ age' = 1

\* The line goes low; with cpha = 0 both ends show their first bit.
Opens ==
    /\ state = "execute" /\ state' = "execute" /\ ss_n[slave] # 0
    /\ ss_n' = [ss_n EXCEPT ![slave] = 0]
    /\ clk_toggles = 0 /\ clk_toggles' = 1 /\ ~continue /\ ~continue'
    /\ sclk = cpol /\ sclk' = sclk /\ age' = 1 /\ busy' = 1
    /\ cpha = 0 => mosi' = tx_buffer[1] /\ tx_buffer' = Shifted(tx_buffer, 0) /\ DevLoads
    /\ cpha = 1 => UNCHANGED <<mosi, tx_buffer, devOut>>
    /\ devIn' = << >> /\ UNCHANGED <<rx_buffer, rx_data, mSent, dRcvd, dSent, mRcvd>>

\* Both ends show their next bit.
Gives ==
    /\ Lasting
    /\ Pos % 2 = 0 /\ Pos < Toggles /\ clk_toggles >= cpha /\ clk_toggles' = clk_toggles + 1
    /\ mosi' = tx_buffer[1] /\ tx_buffer' = Shifted(tx_buffer, 0) /\ DevShifts
    /\ ~continue'
    /\ busy' = (IF continue THEN 0 ELSE 1) /\ rx_data' = (IF continue THEN rx_buffer ELSE rx_data)
    /\ mRcvd' = IF continue THEN Append(mRcvd, rx_buffer) ELSE mRcvd
    /\ UNCHANGED <<rx_buffer, devIn, mSent, dRcvd, dSent>>

\* Both ends take a bit; at the last one the next word may follow.
Takes(reloads) ==
    /\ Lasting
    /\ Pos % 2 = 1 /\ Pos < Toggles /\ ~continue
    /\ rx_buffer' = Shifted(rx_buffer, miso) /\ DevSamples(mosi) /\ mosi' = mosi /\ busy' = 1
    /\ IF reloads
       THEN /\ Pos = Toggles - 1 /\ clk_toggles' = cpha /\ continue'
            /\ tx_buffer' \in Word /\ mSent' = Append(mSent, tx_buffer')
       ELSE /\ clk_toggles' = clk_toggles + 1 /\ ~continue' /\ UNCHANGED <<tx_buffer, mSent>>
    /\ UNCHANGED <<rx_data, mRcvd>>

\* With cpha = 0 the clock line comes to rest.
Trails ==
    /\ Lasting
    /\ cpha = 0 /\ clk_toggles = Toggles /\ clk_toggles' = Toggles + 1 /\ ~continue /\ ~continue'
    /\ DevShifts /\ busy' = 1
    /\ UNCHANGED <<mosi, tx_buffer, rx_buffer, rx_data, devIn, mSent, dRcvd, dSent, mRcvd>>

\* The transaction ends.
Closes ==
    /\ state = "execute" /\ state' = "ready" /\ ss_n[slave] = 0 /\ ss_n' = Deselected
    /\ clk_toggles = Toggles + 1 /\ clk_toggles' = 0 /\ ~continue /\ ~continue'
    /\ sclk' = sclk /\ sclk = cpol /\ age' = 1 /\ busy' = 0 /\ rx_data' = rx_buffer
    /\ mosi' = Z /\ devIn' = << >> /\ devOut' = << >>
    /\ mRcvd' = Append(mRcvd, rx_buffer)
    /\ UNCHANGED <<tx_buffer, rx_buffer, mSent, dRcvd, dSent>>

\* What every hit does to the rest.
Always ==
    /\ count = clk_ratio /\ count' = 1 /\ assert_data' = ~assert_data /\ continue' \in BOOLEAN
    /\ UNCHANGED <<slave, clk_ratio, last_bit_rx, cpol, cpha, addr>>

(* With no other word to follow, a hit is one of these steps.              *)
LEMMA HitIs ==
    ASSUME TypeInv, LHit
    PROVE  Always /\ (Opens \/ Gives \/ Takes(FALSE) \/ Trails \/ Closes)
<1>1. /\ Hit(FALSE, tx_buffer, miso) /\ Device /\ Ages /\ Announces /\ UNCHANGED <<cpol, cpha, addr, mSent>>
  BY DEF LHit, mode
<1>2. /\ state = "execute" /\ count = clk_ratio /\ count' = 1 /\ assert_data' = ~assert_data
      /\ continue' \in BOOLEAN /\ UNCHANGED <<slave, clk_ratio, last_bit_rx>>
  BY <1>1 DEF Hit, AtHit
<1>3. /\ last_bit_rx = Toggles + cpha - 1 /\ Toggles \in Nat /\ Toggles >= 2 /\ Toggles % 2 = 0
      /\ clk_toggles \in 0 .. Toggles + 1 /\ cpha \in {0, 1} /\ sclk \in {0, 1} /\ cpol \in {0, 1}
      /\ assert_data <=> (clk_toggles + cpha) % 2 = 0
      /\ continue => clk_toggles = cpha /\ ss_n[slave] = 0
      /\ ss_n[slave] # 0 => clk_toggles = 0 /\ sclk = cpol
      /\ ss_n[slave] = 0 => clk_toggles >= cpha /\ (sclk = cpol <=> clk_toggles % 2 = 1)
      /\ slave \in Lines /\ ss_n \in [Lines -> Bit] /\ assert_data \in BOOLEAN /\ continue \in BOOLEAN
  BY <1>2 DEF TypeInv, Registers, SelectInv, Clocked, Bit, Toggles
<1>4. Always
  BY <1>1, <1>2 DEF Always
<1>5. anySelected <=> ss_n[slave] = 0
  BY SelectedLine DEF TypeInv
<1>6. CASE ss_n[slave] # 0
  <2>1. /\ state' = "execute" /\ ss_n' = [ss_n EXCEPT ![slave] = 0] /\ clk_toggles' = 1
        /\ sclk' = sclk /\ ~continue /\ ~continue' /\ busy' = 1 /\ UNCHANGED <<rx_buffer, rx_data>>
        /\ cpha = 0 => mosi' = tx_buffer[1] /\ tx_buffer' = Shifted(tx_buffer, 0)
        /\ cpha = 1 => UNCHANGED <<mosi, tx_buffer>>
    BY <1>1, <1>3, <1>6 DEF Hit, Ends, Reloads, TogglesClock, Transmits, Receives, selected
  <2>2. ss_n'[slave'] = 0 /\ ss_n' # ss_n
    BY <1>2, <1>3, <1>6, <2>1
  <2>3. age' = 1 /\ mRcvd' = mRcvd
    BY <1>1, <2>1, <2>2 DEF Ages, Announces
  <2>4. anySelected'
    BY <1>2, <1>3, <2>1, <2>2 DEF anySelected, Lines
  <2>5. /\ devIn' = << >> /\ UNCHANGED <<dRcvd, dSent>>
        /\ IF cpha = 0 THEN DevLoads ELSE UNCHANGED devOut
    BY <1>1, <1>5, <1>6, <2>4 DEF Device
  <2>6. Opens
    BY <1>1, <1>2, <1>3, <1>6, <2>1, <2>3, <2>5 DEF Opens
  <2>7. QED
    BY <1>4, <2>6
<1>7. CASE ss_n[slave] = 0 /\ clk_toggles <= Toggles
  <2>1. /\ state' = "execute" /\ ss_n' = [ss_n EXCEPT ![slave] = 0] /\ clk_toggles' = clk_toggles + 1
        /\ sclk' = 1 - sclk /\ ~continue' /\ busy' = (IF continue THEN 0 ELSE 1)
        /\ rx_data' = (IF continue THEN rx_buffer ELSE rx_data)
    <3>1. ~Ends(FALSE) /\ ~Reloads(FALSE) /\ TogglesClock /\ clk_toggles # Toggles + 1
      BY <1>3, <1>7 DEF Ends, Reloads, TogglesClock, selected
    <3>2. /\ state' = "execute" /\ ss_n' = [ss_n EXCEPT ![slave] = 0] /\ sclk' = 1 - sclk
          /\ clk_toggles' = clk_toggles + 1 /\ ~continue'
      BY <1>1, <3>1 DEF Hit
    <3>3. /\ busy' = (IF continue THEN 0 ELSE 1) /\ rx_data' = (IF continue THEN rx_buffer ELSE rx_data)
      BY <1>1, <3>1 DEF Hit
    <3>4. QED
      BY <3>2, <3>3
  <2>2. ss_n' = ss_n
    BY <1>3, <1>7, <2>1
  <2>3. age' = 1
    BY <1>1, <1>3, <2>1 DEF Ages
  <2>4. Lasting
    BY <1>2, <1>7, <2>1, <2>2, <2>3 DEF Lasting
  <2>5. anySelected /\ anySelected'
    BY <1>5, <1>7, <2>2 DEF anySelected
  <2>6. sclk # sclk' /\ (Leading <=> clk_toggles % 2 = 1) /\ (Trailing <=> clk_toggles % 2 = 0)
    BY <1>3, <1>7, <2>1 DEF Leading, Trailing
  <2>7. IF (cpha = 0 /\ Leading) \/ (cpha = 1 /\ Trailing)
        THEN \E bit \in {mosi, mosi'} : DevSamples(bit)
        ELSE DevShifts /\ UNCHANGED <<devIn, dRcvd, dSent>>
    BY <1>1, <2>5, <2>6 DEF Device, Leading, Trailing
  <2>8. mRcvd' = IF continue THEN Append(mRcvd, rx_buffer) ELSE mRcvd
    BY <1>1, <2>1 DEF Announces
  <2>9. CASE (clk_toggles + cpha) % 2 = 0 /\ clk_toggles < Toggles
    <3>1. mosi' = tx_buffer[1] /\ tx_buffer' = Shifted(tx_buffer, 0) /\ rx_buffer' = rx_buffer
      BY <1>1, <1>3, <1>7, <2>9 DEF Hit, Ends, Reloads, Transmits, Receives
    <3>2. Pos % 2 = 0 /\ Pos < Toggles /\ clk_toggles >= cpha
      BY <1>3, <1>7, <2>9 DEF Pos
    <3>3. DevShifts /\ UNCHANGED <<devIn, dRcvd, dSent>>
      BY <1>3, <2>6, <2>7, <2>9
    <3>4. Gives
      BY <1>1, <2>1, <2>4, <2>8, <3>1, <3>2, <3>3 DEF Gives
    <3>5. QED
      BY <1>4, <3>4
  <2>10. CASE (clk_toggles + cpha) % 2 = 1
    <3>1. ~continue /\ Receives /\ ~Transmits
      BY <1>3, <1>7, <2>10 DEF Receives, Transmits, selected
    <3>2. /\ mosi' = mosi /\ tx_buffer' = tx_buffer /\ rx_buffer' = Shifted(rx_buffer, miso)
          /\ rx_data' = rx_data /\ mRcvd' = mRcvd /\ busy' = 1
      <4>1. ~Ends(FALSE) /\ ~Reloads(FALSE)
        BY <1>3, <1>7 DEF Ends, Reloads
      <4>2. rx_buffer' = Shifted(rx_buffer, miso)
        BY <1>1, <3>1 DEF Hit
      <4>3. mosi' = mosi
        BY <1>1, <3>1, <4>1 DEF Hit
      <4>4. tx_buffer' = tx_buffer
        BY <1>1, <3>1, <4>1 DEF Hit
      <4>5. QED
        BY <2>1, <2>8, <3>1, <4>2, <4>3, <4>4
    <3>3. Pos % 2 = 1 /\ Pos < Toggles
      BY <1>3, <1>7, <2>10 DEF Pos
    <3>4. DevSamples(mosi)
      <4>1. (cpha = 0 /\ clk_toggles % 2 = 1) \/ (cpha = 1 /\ clk_toggles % 2 = 0)
        BY <1>3, <2>10
      <4>2. \E bit \in {mosi, mosi'} : DevSamples(bit)
        BY <2>6, <2>7, <4>1
      <4>3. PICK bit \in {mosi, mosi'} : DevSamples(bit)
        BY <4>2
      <4>4. bit = mosi
        BY <3>2
      <4>5. QED
        BY <4>3, <4>4, Zenon
    <3>5. Takes(FALSE)
      BY <1>1, <2>1, <2>4, <3>1, <3>2, <3>3, <3>4 DEF Takes
    <3>6. QED
      BY <1>4, <3>5
  <2>11. CASE (clk_toggles + cpha) % 2 = 0 /\ clk_toggles = Toggles
    <3>1. cpha = 0 /\ ~continue /\ ~Receives /\ ~Transmits
      BY <1>3, <1>7, <2>11 DEF Receives, Transmits, Toggles
    <3>2. UNCHANGED <<mosi, tx_buffer, rx_buffer, rx_data, mRcvd>> /\ busy' = 1
      BY <1>1, <1>3, <1>7, <2>1, <2>8, <3>1 DEF Hit, Ends, Reloads
    <3>3. DevShifts /\ UNCHANGED <<devIn, dRcvd, dSent>>
      BY <1>3, <2>6, <2>7, <2>11, <3>1
    <3>4. Trails
      BY <1>1, <2>1, <2>4, <2>11, <3>1, <3>2, <3>3 DEF Trails
    <3>5. QED
      BY <1>4, <3>4
  <2>12. /\ (clk_toggles + cpha) % 2 = 0 \/ (clk_toggles + cpha) % 2 = 1
         /\ clk_toggles < Toggles \/ clk_toggles = Toggles
    BY <1>3, <1>7
  <2>13. QED
    BY <2>9, <2>10, <2>11, <2>12
<1>8. CASE clk_toggles = Toggles + 1
  <2>1. /\ ss_n[slave] = 0 /\ ~continue /\ (sclk = cpol <=> clk_toggles % 2 = 1)
    BY <1>3, <1>8
  <2>2. sclk = cpol
    BY <1>3, <1>8, <2>1 DEF Toggles
  <2>3. /\ state' = "ready" /\ ss_n' = Deselected /\ clk_toggles' = 0 /\ sclk' = sclk /\ ~continue'
        /\ busy' = 0 /\ rx_data' = rx_buffer /\ mosi' = Z /\ UNCHANGED <<tx_buffer, rx_buffer>>
    BY <1>1, <1>3, <1>8, <2>1 DEF Hit, Ends, Reloads, TogglesClock, Transmits, Receives
  <2>4. mRcvd' = Append(mRcvd, rx_buffer)
    BY <1>1, <2>3 DEF Announces
  <2>5. ss_n'[slave] = 1 /\ ~anySelected'
    BY <1>3, <2>3 DEF Deselected, anySelected, Lines
  <2>6. age' = 1
    BY <1>1, <2>1, <2>5 DEF Ages
  <2>7. devIn' = << >> /\ devOut' = << >> /\ UNCHANGED <<dRcvd, dSent>>
    BY <1>1, <2>5 DEF Device
  <2>8. Closes
    BY <1>1, <1>2, <1>8, <2>1, <2>2, <2>3, <2>4, <2>6, <2>7 DEF Closes
  <2>9. QED
    BY <1>4, <2>8
<1>9. ss_n[slave] # 0 \/ clk_toggles <= Toggles \/ clk_toggles = Toggles + 1
  BY <1>3
<1>10. QED
  BY <1>6, <1>7, <1>8, <1>9

(* With cont high at the last bit, the hit that takes it hands over the    *)
(* next word.                                                              *)
LEMMA HitReloadsIs ==
    ASSUME TypeInv, LHitReloads
    PROVE  Always /\ Takes(TRUE)
<1>1. PICK w \in Word : Hit(TRUE, w, miso) /\ mSent' = Append(mSent, w)
  BY DEF LHitReloads
<1>2. clk_toggles = last_bit_rx /\ Device /\ Ages /\ Announces /\ UNCHANGED <<cpol, cpha, addr>>
  BY DEF LHitReloads, mode
<1>3. /\ state = "execute" /\ count = clk_ratio /\ count' = 1 /\ assert_data' = ~assert_data
      /\ continue' \in BOOLEAN /\ UNCHANGED <<slave, clk_ratio, last_bit_rx>>
  BY <1>1 DEF Hit, AtHit
<1>4. /\ clk_toggles = Toggles + cpha - 1 /\ Toggles \in Nat /\ Toggles >= 2 /\ Toggles % 2 = 0
      /\ cpha \in {0, 1} /\ sclk \in {0, 1} /\ cpol \in {0, 1}
      /\ slave \in Lines /\ ss_n \in [Lines -> Bit]
      /\ assert_data <=> (clk_toggles + cpha) % 2 = 0
      /\ continue => clk_toggles = cpha
      /\ ss_n[slave] # 0 => clk_toggles = 0
      /\ ss_n[slave] = 0 => (sclk = cpol <=> clk_toggles % 2 = 1)
  BY <1>2, <1>3 DEF TypeInv, Registers, SelectInv, Clocked, Bit, Toggles
<1>5. /\ ss_n[slave] = 0 /\ ~continue /\ ~assert_data
      /\ Pos = Toggles - 1 /\ Pos % 2 = 1 /\ last_bit_rx - Toggles + 1 = cpha
  BY <1>2, <1>4 DEF Pos
<1>6. Receives /\ ~Transmits /\ TogglesClock /\ Reloads(TRUE) /\ ~Ends(TRUE)
  BY <1>2, <1>4, <1>5 DEF Receives, Transmits, TogglesClock, Reloads, Ends, selected
<1>7. /\ state' = "execute" /\ ss_n' = [ss_n EXCEPT ![slave] = 0] /\ sclk' = 1 - sclk
      /\ clk_toggles' = cpha /\ continue'
  BY <1>1, <1>5, <1>6 DEF Hit
<1>8. tx_buffer' = w /\ rx_buffer' = Shifted(rx_buffer, miso)
  BY <1>1, <1>6 DEF Hit
<1>9. mosi' = mosi /\ busy' = 1 /\ rx_data' = rx_data
  BY <1>1, <1>5, <1>6 DEF Hit
<1>10. mRcvd' = mRcvd
  BY <1>2, <1>9 DEF Announces
<1>11. ss_n' = ss_n /\ sclk' # sclk
  BY <1>4, <1>5, <1>7
<1>12. Lasting
  BY <1>2, <1>3, <1>5, <1>7, <1>11 DEF Lasting, Ages
<1>13. DevSamples(mosi)
  <2>1. anySelected /\ anySelected'
    BY <1>5, <1>11, SelectedLine DEF TypeInv, anySelected
  <2>2. (cpha = 0 /\ Leading) \/ (cpha = 1 /\ Trailing)
    BY <1>4, <1>5, <1>11 DEF Leading, Trailing
  <2>3. PICK bit \in {mosi, mosi'} : DevSamples(bit)
    BY <1>2, <2>1, <2>2 DEF Device
  <2>4. bit = mosi
    BY <1>9
  <2>5. QED
    BY <2>3, <2>4, Zenon
<1>14. Takes(TRUE)
  BY <1>1, <1>4, <1>5, <1>7, <1>8, <1>9, <1>10, <1>12, <1>13 DEF Takes
<1>15. QED
  BY <1>2, <1>3, <1>14 DEF Always

(* Every hit is one of these steps.                                        *)
LEMMA HitsAre ==
    ASSUME TypeInv, LHit \/ LHitReloads
    PROVE  Always /\ (Opens \/ Gives \/ Takes(FALSE) \/ Takes(TRUE) \/ Trails \/ Closes)
BY HitIs, HitReloadsIs

-----------------------------------------------------------------------------
(* The types are kept. *)

(* A hit keeps the registers in range and the counters in step.            *)
LEMMA HitKeeps ==
    ASSUME TypeInv, LHit \/ LHitReloads
    PROVE  Registers' /\ Clocked'
<1>1. /\ Always /\ (Opens \/ Gives \/ Takes(FALSE) \/ Takes(TRUE) \/ Trails \/ Closes)
  BY HitsAre
<1>2. Registers /\ SelectInv /\ Clocked
  BY DEF TypeInv
<1>3. Toggles \in Nat /\ Toggles >= 2 /\ Toggles % 2 = 0
  BY DEF Toggles
<1>4. devOut' \in Seq(Bit)
  BY <1>2, DeviceShows DEF Registers, LHit, LHitReloads
<1>5. miso \in Bit /\ tx_buffer[1] \in Bit /\ tx_buffer \in Word /\ rx_buffer \in Word /\ rx_data \in Word
  BY <1>2, MisoIsBit DEF Registers, Word
<1>6. /\ rx_buffer' \in Word /\ tx_buffer' \in Word /\ rx_data' \in Word
  <2>1. Shifted(tx_buffer, 0) \in Word /\ Shifted(rx_buffer, miso) \in Word
    BY <1>5, ShiftedIs DEF Bit
  <2>2. QED
    BY <1>1, <1>2, <1>5, <2>1 DEF Opens, Gives, Takes, Trails, Closes, Registers, Bit
<1>7. mosi' \in Bit \cup {Z} /\ busy' \in Bit
  BY <1>1, <1>2, <1>5 DEF Opens, Gives, Takes, Trails, Closes, Registers, Bit
<1>8. sclk' \in Bit /\ age' \in Nat /\ continue' \in BOOLEAN
  <2>1. (sclk' = sclk \/ sclk' = 1 - sclk) /\ age' = 1
    BY <1>1 DEF Opens, Gives, Takes, Trails, Closes, Lasting
  <2>2. QED
    BY <1>1, <1>2, <2>1 DEF Registers, Always, Bit
<1>9. clk_toggles' \in 0 .. Toggles + 1
  BY <1>1, <1>2, <1>3 DEF Opens, Gives, Takes, Trails, Closes, Lasting, Pos, Registers, Bit
<1>10. /\ clk_ratio' \in (Dividers \cup {1}) \ {0} /\ count' \in 1 .. clk_ratio'
       /\ last_bit_rx' \in 0 .. Toggles /\ assert_data' \in BOOLEAN
       /\ cpol' \in Bit /\ cpha' \in Bit
  BY <1>1, <1>2 DEF Always, Registers
<1>11. Registers'
  BY <1>4, <1>6, <1>7, <1>8, <1>9, <1>10 DEF Registers, Toggles, Word
<1>12. Clocked'
  <2>1. CASE Closes
    BY <2>1 DEF Closes, Clocked
  <2>2. CASE ~Closes
    <3>1. state = "execute" /\ slave \in Lines /\ ss_n \in [Lines -> Bit]
      BY <1>1, <1>2, <2>2 DEF Opens, Gives, Takes, Trails, Lasting, SelectInv
    <3>2. state' = "execute" /\ ss_n'[slave'] = 0 /\ age' = count'
      BY <1>1, <2>2, <3>1 DEF Always, Opens, Gives, Takes, Trails, Lasting
    <3>3. last_bit_rx' = Toggles' + cpha' - 1
      BY <1>1, <1>2, <3>1 DEF Always, Clocked, Toggles
    <3>4. /\ assert_data \in BOOLEAN /\ sclk \in {0, 1} /\ cpol \in {0, 1} /\ cpha \in {0, 1}
          /\ clk_toggles \in 0 .. Toggles + 1
          /\ assert_data <=> (clk_toggles + cpha) % 2 = 0
          /\ ss_n[slave] # 0 => sclk = cpol
          /\ ss_n[slave] = 0 => (clk_toggles >= cpha /\ (sclk = cpol <=> clk_toggles % 2 = 1))
      BY <1>2, <3>1 DEF Registers, Clocked, Bit
    <3>5. /\ clk_toggles' = clk_toggles + 1 \/ (clk_toggles' = cpha /\ clk_toggles = Toggles - 1 + cpha)
          /\ clk_toggles' >= cpha /\ (continue' => clk_toggles' = cpha)
      BY <1>1, <1>3, <2>2, <3>4 DEF Opens, Gives, Takes, Trails, Lasting, Pos
    <3>6. assert_data' <=> (clk_toggles' + cpha') % 2 = 0
      <4>1. (clk_toggles + cpha) % 2 = 0 <=> ~((clk_toggles' + cpha) % 2 = 0)
        BY <1>3, <3>4, <3>5
      <4>2. QED
        BY <1>1, <3>4, <4>1 DEF Always
    <3>7. sclk' = cpol' <=> clk_toggles' % 2 = 1
      <4>1. CASE Opens
        BY <1>1, <3>4, <4>1 DEF Opens, Always
      <4>2. CASE ~Opens
        <5>1. sclk' = 1 - sclk /\ ss_n[slave] = 0 /\ cpol' = cpol
          BY <1>1, <2>2, <4>2 DEF Gives, Takes, Trails, Lasting, Always
        <5>2. clk_toggles % 2 = 1 <=> ~(clk_toggles' % 2 = 1)
          BY <1>3, <3>4, <3>5
        <5>3. QED
          BY <3>4, <5>1, <5>2
      <4>3. QED
        BY <4>1, <4>2
    <3>8. QED
      BY <1>1, <3>2, <3>3, <3>5, <3>6, <3>7 DEF Clocked, Always
  <2>3. QED
    BY <2>1, <2>2
<1>13. QED
  BY <1>11, <1>12

(* The age of the clock level is a number.                                 *)
LEMMA AgeIs ==
    ASSUME age \in Nat, Ages
    PROVE  age' \in Nat
BY DEF Ages

(* Accepting a request loads the divider so that the next cycle is a hit.  *)
LEMMA AcceptKeeps ==
    ASSUME TypeInv, LAccept
    PROVE  Registers' /\ Clocked'
<1>1. PICK div \in Dividers, a \in Addresses, w \in Word : Accept(cpol, cpha, div, a, w)
  BY DEF LAccept
<1>2. Registers /\ SelectInv /\ Device /\ Ages /\ UNCHANGED <<cpol, cpha>>
  BY DEF TypeInv, LAccept, mode
<1>3. Toggles \in Nat /\ Toggles >= 2
  BY DEF Toggles
<1>4. /\ clk_ratio' \in (Dividers \cup {1}) \ {0} /\ count' = clk_ratio' /\ clk_ratio' \in Nat
      /\ clk_toggles' = 0 /\ last_bit_rx' = Toggles + cpha - 1 /\ sclk' = cpol
      /\ assert_data' = (cpha = 0) /\ continue' = FALSE
      /\ tx_buffer' = w /\ mosi' = Z /\ busy' = 1 /\ UNCHANGED <<rx_buffer, rx_data>>
      /\ ss_n' = Deselected
  BY <1>1 DEF Accept
<1>5. slave' \in Lines
  BY <1>1 DEF Accept, SlaveFor, Lines
<1>6. devOut' \in Seq(Bit) /\ age' \in Nat
  BY <1>2, DeviceShows, AgeIs DEF Registers
<1>7. cpha \in {0, 1} /\ cpol \in Bit
  BY <1>2 DEF Registers, Bit
<1>8. count' \in 1 .. clk_ratio' /\ last_bit_rx' \in 0 .. Toggles /\ assert_data' \in BOOLEAN
      /\ clk_toggles' \in 0 .. Toggles + 1
  BY <1>3, <1>4, <1>7
<1>9. Registers'
  BY <1>2, <1>4, <1>6, <1>7, <1>8 DEF Registers, Toggles, Word, Bit
<1>10. ss_n'[slave'] # 0
  BY <1>4, <1>5 DEF Deselected, Lines
<1>11. assert_data' <=> (clk_toggles' + cpha') % 2 = 0
  <2>1. cpha = 0 <=> (0 + cpha) % 2 = 0
    BY <1>7
  <2>2. (assert_data' <=> cpha = 0) /\ clk_toggles' = 0 /\ cpha' = cpha
    BY <1>2, <1>4
  <2>3. QED
    BY <2>1, <2>2
<1>12. QED
  BY <1>2, <1>4, <1>9, <1>10, <1>11 DEF Clocked, Toggles

(* Between hits the level of the clock line ages with the divider's count. *)
LEMMA WaitKeeps ==
    ASSUME TypeInv, LWait
    PROVE  Registers' /\ Clocked' /\ ss_n[slave] = 0 /\ ss_n' = ss_n /\ sclk' = sclk
<1>1. Registers /\ SelectInv /\ Clocked /\ Device /\ Ages /\ UNCHANGED <<cpol, cpha>>
  BY DEF TypeInv, LWait, mode
<1>2. /\ state = "execute" /\ count # clk_ratio /\ count' = count + 1 /\ busy' = 1
      /\ ss_n' = [ss_n EXCEPT ![slave] = 0]
      /\ UNCHANGED <<state, slave, clk_ratio, clk_toggles, assert_data, continue,
                     last_bit_rx, rx_buffer, tx_buffer, sclk, mosi, rx_data>>
  BY DEF LWait, Wait, AtHit
<1>3. ss_n[slave] = 0 /\ age = count /\ ss_n \in [Lines -> Bit] /\ slave \in Lines
  BY <1>1, <1>2 DEF Clocked, SelectInv
<1>4. ss_n' = ss_n
  BY <1>2, <1>3
<1>5. clk_ratio \in Nat /\ count \in 1 .. clk_ratio /\ count < clk_ratio
  BY <1>1, <1>2 DEF Registers
<1>6. MaxAge \in Nat /\ age < MaxAge
  BY <1>1, <1>3, <1>5, AgeSuffices
<1>7. age' = age + 1
  BY <1>1, <1>2, <1>4, <1>6 DEF Ages
<1>8. devOut' \in Seq(Bit)
  BY <1>1, DeviceShows DEF Registers
<1>9. Registers'
  BY <1>1, <1>2, <1>5, <1>7, <1>8 DEF Registers, Toggles, Word, Bit
<1>10. Clocked'
  BY <1>1, <1>2, <1>3, <1>4, <1>7 DEF Clocked, Toggles
<1>11. QED
  BY <1>2, <1>3, <1>4, <1>9, <1>10

(* Outside a transaction nothing of this moves.                            *)
LEMMA RestKeeps ==
    ASSUME TypeInv, LRest \/ LReset \/ UNCHANGED vars
    PROVE  Registers' /\ Clocked'
<1>1. Registers /\ SelectInv /\ Clocked
  BY DEF TypeInv
<1>2. CASE LRest
  <2>1. devOut' \in Seq(Bit) /\ age' \in Nat
    BY <1>1, <1>2, DeviceShows, AgeIs DEF Registers, LRest
  <2>2. /\ state' = "ready" /\ mosi' = Z /\ busy' = 0 /\ continue' = FALSE
        /\ UNCHANGED <<clk_ratio, count, clk_toggles, assert_data, last_bit_rx, rx_buffer,
                       tx_buffer, sclk, rx_data, cpol, cpha>>
    BY <1>2 DEF LRest, Rest, mode
  <2>3. QED
    BY <1>1, <2>1, <2>2 DEF Registers, Clocked, Toggles, Word, Bit
<1>3. CASE LReset
  <2>1. devOut' \in Seq(Bit) /\ age' \in Nat
    BY <1>1, <1>3, AgeIs, EmptySeq DEF Registers, LReset
  <2>2. /\ state' = "ready" /\ mosi' = Z /\ busy' = 1 /\ rx_data' = [i \in 1 .. d_width |-> 0]
        /\ UNCHANGED <<clk_ratio, count, clk_toggles, assert_data, continue, last_bit_rx,
                       rx_buffer, tx_buffer, sclk, cpol, cpha>>
    BY <1>3 DEF LReset, Reset, mode
  <2>3. [i \in 1 .. d_width |-> 0] \in Word
    BY DEF Word, Bit
  <2>4. QED
    BY <1>1, <2>1, <2>2, <2>3 DEF Registers, Clocked, Toggles, Word, Bit
<1>4. CASE UNCHANGED vars
  <2>1. UNCHANGED <<state, slave, clk_ratio, count, clk_toggles, assert_data, continue, last_bit_rx,
                    rx_buffer, tx_buffer, sclk, ss_n, mosi, busy, rx_data, cpol, cpha, age, devOut>>
    BY <1>4 DEF vars, masterVars, control, mode, dev
  <2>2. QED
    BY <1>1, <2>1 DEF Registers, Clocked, Toggles, Word, Bit
<1>5. QED
  BY <1>2, <1>3, <1>4

(* Every step keeps the types.                                             *)
LEMMA TypeStep == TypeInv /\ [Next]_vars => TypeInv'
<1> SUFFICES ASSUME TypeInv, [Next]_vars PROVE TypeInv'
  OBVIOUS
<1>1. SelectInv'
  BY SelectStep DEF TypeInv
<1>2. Registers' /\ Clocked'
  BY HitKeeps, AcceptKeeps, WaitKeeps, RestKeeps DEF Next, Tick
<1>3. QED
  BY <1>1, <1>2 DEF TypeInv

(* The types hold after a reset.                                           *)
LEMMA TypeInit == LInit => TypeInv
<1> SUFFICES ASSUME LInit PROVE TypeInv
  OBVIOUS
<1>1. Init /\ cpol \in Bit /\ cpha \in Bit /\ devOut = << >> /\ addr = 0 /\ age = 0
  BY DEF LInit
<1>2. SelectInv
  BY <1>1 DEF Init, SelectInv, Deselected, Lines, Bit
<1>3. Toggles \in Nat /\ [i \in 1 .. d_width |-> 0] \in Word
  BY DEF Toggles, Word, Bit
<1>4. /\ clk_ratio = 1 /\ count = 1 /\ clk_toggles = 0 /\ last_bit_rx = 0
      /\ rx_buffer \in Word /\ tx_buffer = rx_buffer /\ sclk \in Bit /\ mosi = Z /\ busy = 1
      /\ rx_data = [i \in 1 .. d_width |-> 0]
  BY <1>1 DEF Init
<1>5. assert_data \in BOOLEAN /\ continue \in BOOLEAN
  BY <1>1, Zenon DEF Init
<1>6. devOut \in Seq(Bit)
  BY <1>1, EmptySeq
<1>7. Registers
  BY <1>1, <1>3, <1>4, <1>5, <1>6 DEF Registers, Bit
<1>8. Clocked
  BY <1>1 DEF Init, Clocked
<1>9. QED
  BY <1>2, <1>7, <1>8 DEF TypeInv

(* In every mode, at every divider and every word length: the divider's    *)
(* count, the toggle counter, the shift registers and the lines stay in    *)
(* range, in continuous transfers too.                                     *)
THEOREM TypeCorrect == Spec => []TypeOK
<1>1. TypeInv => TypeOK
  BY DEF TypeInv, Registers, SelectInv, TypeOK, Lines
<1>2. QED
  BY <1>1, TypeInit, TypeStep, PTL DEF Spec

-----------------------------------------------------------------------------
(* The clock the device sees. *)

Frames == anySelected' # anySelected /\ (anySelected => busy' = 0) => sclk = cpol /\ sclk' = cpol
Keeps == anySelected /\ (sclk' # sclk \/ (~anySelected' /\ busy' = 0)) => age = clk_ratio

(* Only a hit moves the clock line, selects the device or ends its         *)
(* transaction, and a hit comes when the level is as old as the divider.   *)
LEMMA ClockStep == TypeInv /\ [Next]_vars => Frames /\ Keeps
<1> SUFFICES ASSUME TypeInv, [Next]_vars PROVE Frames /\ Keeps
  OBVIOUS
<1>1. TypeInv' /\ SelectInv /\ SelectInv'
  BY TypeStep DEF TypeInv
<1>2. (anySelected <=> ss_n[slave] = 0) /\ (anySelected' <=> ss_n'[slave'] = 0)
  BY <1>1, SelectedLine DEF SelectInv, anySelected, Lines
<1>3. anySelected \in BOOLEAN /\ anySelected' \in BOOLEAN
  BY DEF anySelected
<1>4. Deselected \in [Lines -> Bit] /\ \A i \in Lines : Deselected[i] # 0
  BY DEF Deselected, Lines, Bit
<1>5. slave \in Lines /\ slave' \in Lines /\ ss_n \in [Lines -> Bit]
  BY <1>1 DEF SelectInv
<1>6. CASE LHit \/ LHitReloads
  <2>1. Always /\ (Opens \/ Gives \/ Takes(FALSE) \/ Takes(TRUE) \/ Trails \/ Closes)
    BY <1>6, HitsAre
  <2>2. anySelected => age = clk_ratio
    <3>1. state = "execute" /\ count = clk_ratio
      BY <2>1 DEF Always, Opens, Gives, Takes, Trails, Closes, Lasting
    <3>2. QED
      BY <1>2, <3>1 DEF TypeInv, Clocked
  <2>3. CASE Opens \/ Closes
    <3>1. sclk = cpol /\ sclk' = sclk
      BY <2>3 DEF Opens, Closes
    <3>2. QED
      BY <2>2, <3>1 DEF Frames, Keeps
  <2>4. CASE Gives \/ Takes(FALSE) \/ Takes(TRUE) \/ Trails
    <3>1. anySelected' <=> anySelected
      BY <1>2, <2>1, <2>4 DEF Always, Gives, Takes, Trails, Lasting
    <3>2. QED
      BY <1>3, <2>2, <3>1 DEF Frames, Keeps
  <2>5. QED
    BY <2>1, <2>3, <2>4
<1>7. CASE LAccept \/ LRest
  <2>1. state = "ready" /\ ss_n' = Deselected
    BY <1>7 DEF LAccept, LRest, Accept, Rest
  <2>2. ~anySelected'
    BY <1>2, <1>4, <1>5, <2>1
  <2>3. ss_n[slave] = 0 => state = "execute"
    BY <1>1 DEF SelectInv
  <2>4. ~anySelected
    BY <1>2, <2>1, <2>3
  <2>5. QED
    BY <1>3, <2>2, <2>4 DEF Frames, Keeps
<1>8. CASE LReset
  <2>1. ss_n' = Deselected /\ busy' = 1 /\ sclk' = sclk
    BY <1>8 DEF LReset, Reset
  <2>2. ~anySelected'
    BY <1>2, <1>4, <1>5, <2>1
  <2>3. QED
    BY <1>3, <2>1, <2>2 DEF Frames, Keeps
<1>9. CASE LWait \/ UNCHANGED vars
  <2>1. ss_n' = ss_n /\ sclk' = sclk
    BY <1>9, WaitKeeps DEF vars, masterVars
  <2>2. anySelected' <=> anySelected
    BY <2>1 DEF anySelected
  <2>3. QED
    BY <1>3, <2>1, <2>2 DEF Frames, Keeps
<1>10. QED
  BY <1>6, <1>7, <1>8, <1>9 DEF Next, Tick

(* In every mode and at every divider the device sees whole clock pulses:  *)
(* the line rests at its level when the device is selected and when its    *)
(* transaction ends, and every level in between, the setup and the hold    *)
(* time included, lasts exactly clk_ratio cycles.                          *)
THEOREM ClockCorrect == Spec => ClockWellFormed
<1>1. Spec => [][Frames]_vars
  BY TypeInit, TypeStep, ClockStep, PTL DEF Spec
<1>2. Spec => [][Keeps]_vars
  BY TypeInit, TypeStep, ClockStep, PTL DEF Spec
<1>3. QED
  BY <1>1, <1>2, PTL DEF ClockWellFormed, SelectFramesClock, HalfPeriodKept, Frames, Keeps

-----------------------------------------------------------------------------
(* From the master to the device. *)

Given == (Pos + 1) \div 2
Taken == Pos \div 2
UnderWay == state = "execute" /\ Pos < Toggles

\* The word w is split between the device, mosi and what is left to shift out.
Outgoing(w) ==
    /\ mSent = Append(dRcvd, w)
    /\ Len(devIn) = Taken /\ \A i \in 1 .. Taken : devIn[i] = w[i]
    /\ Given > Taken => mosi = w[Given]
    /\ \A i \in 1 .. d_width - Given : tx_buffer[i] = w[Given + i]

MosiInv ==
    /\ devIn \in Seq(Bit) /\ dRcvd \in Seq(Word)
    /\ ~UnderWay => mSent = dRcvd /\ devIn = << >>
    /\ UnderWay => \E w \in Word : Outgoing(w)

MosiMoves == [MosiChannel!Next]_(MosiChannel!vars)

(* Where the positions lie.                                                *)
LEMMA Positions ==
    ASSUME TypeInv
    PROVE  /\ Pos \in Nat /\ Given \in Nat /\ Taken \in Nat
           /\ Pos % 2 = 0 => Pos = 2 * Taken /\ Given = Taken
           /\ Pos % 2 = 1 => Pos = 2 * Taken + 1 /\ Given = Taken + 1
           /\ Pos % 2 = 0 \/ Pos % 2 = 1
           /\ Toggles = 2 * d_width /\ d_width \in Nat /\ d_width >= 1
           /\ cpha \in {0, 1} /\ clk_toggles \in Nat
           /\ clk_toggles = 0 => Pos = 0
<1>1. clk_toggles \in Nat /\ cpha \in {0, 1}
  BY DEF TypeInv, Registers, Bit, Toggles
<1>2. Pos \in Nat
  BY <1>1 DEF Pos
<1>3. Given \in Nat /\ Taken \in Nat
  BY <1>2 DEF Given, Taken
<1>4. Pos % 2 = 0 \/ Pos % 2 = 1
  BY <1>2
<1>5. Pos % 2 = 0 => Pos = 2 * Taken /\ Given = Taken
  BY <1>2 DEF Given, Taken
<1>6. Pos % 2 = 1 => Pos = 2 * Taken + 1 /\ Given = Taken + 1
  BY <1>2 DEF Given, Taken
<1>7. clk_toggles = 0 => Pos = 0
  BY <1>1 DEF Pos
<1>8. QED
  BY <1>1, <1>2, <1>3, <1>4, <1>5, <1>6, <1>7 DEF Toggles

(* Bit by bit the same word.                                               *)
LEMMA SameWord ==
    ASSUME NEW s \in Seq(Bit), Len(s) = d_width, NEW w \in Word,
           \A i \in 1 .. d_width : s[i] = w[i]
    PROVE  s = w
<1>1. s \in Word
  BY WordIsSeq
<1>2. QED
  BY <1>1 DEF Word

(* Nothing that carries a word changes.                                    *)
LEMMA MosiRests ==
    ASSUME MosiInv, UNCHANGED <<state, clk_toggles, cpha, devIn, dRcvd, mSent, tx_buffer, mosi>>
    PROVE  MosiInv' /\ MosiMoves
<1>1. Pos' = Pos /\ Given' = Given /\ Taken' = Taken /\ (UnderWay' <=> UnderWay)
  BY DEF Pos, Given, Taken, UnderWay, Toggles
<1>2. MosiInv'
  BY <1>1 DEF MosiInv, Outgoing, Word
<1>3. QED
  BY <1>2 DEF MosiMoves, MosiChannel!vars

(* A word is accepted: all of it is still to be given.                     *)
LEMMA MosiAccepts ==
    ASSUME TypeInv, MosiInv, LAccept
    PROVE  MosiInv' /\ MosiMoves
<1>1. PICK w \in Word : /\ \E div \in Dividers, a \in Addresses : Accept(cpol, cpha, div, a, w)
                        /\ mSent' = Append(mSent, w)
  BY DEF LAccept
<1>2. /\ state = "ready" /\ state' = "execute" /\ clk_toggles' = 0 /\ tx_buffer' = w
      /\ ss_n' = Deselected
  BY <1>1 DEF Accept
<1>3. ~anySelected'
  BY <1>2 DEF Deselected, anySelected
<1>4. devIn' = << >> /\ dRcvd' = dRcvd /\ cpha' = cpha
  BY <1>3 DEF LAccept, Device, mode
<1>5. mSent = dRcvd /\ dRcvd \in Seq(Word) /\ devIn \in Seq(Bit)
  BY <1>2 DEF MosiInv, UnderWay
<1>6. Pos' = 0 /\ Given' = 0 /\ Taken' = 0
  <2>1. cpha \in {0, 1}
    BY Positions
  <2>2. Pos' = 0
    BY <1>2, <1>4, <2>1 DEF Pos
  <2>3. QED
    BY <2>2 DEF Given, Taken
<1>7. Outgoing(w)'
  BY <1>1, <1>2, <1>4, <1>5, <1>6, EmptySeq DEF Outgoing
<1>8. UnderWay'
  BY <1>2, <1>6, Positions DEF UnderWay, Toggles
<1>9. MosiInv'
  BY <1>4, <1>5, <1>7, <1>8, EmptySeq DEF MosiInv, Word
<1>10. Len(mSent) - Len(dRcvd) < 1
  BY <1>5, LenProperties
<1>11. MosiChannel!Send(w)
  BY <1>1, <1>4, <1>10 DEF MosiChannel!Send
<1>12. QED
  BY <1>9, <1>11 DEF MosiMoves, MosiChannel!Next

(* A bit is given.                                                         *)
LEMMA MosiGives ==
    ASSUME TypeInv, MosiInv, Always, Gives
    PROVE  MosiInv' /\ MosiMoves
<1>1. /\ state = "execute" /\ state' = "execute" /\ clk_toggles' = clk_toggles + 1
      /\ clk_toggles >= cpha /\ Pos % 2 = 0 /\ Pos < Toggles /\ cpha' = cpha
      /\ mosi' = tx_buffer[1] /\ tx_buffer' = Shifted(tx_buffer, 0)
      /\ UNCHANGED <<devIn, mSent, dRcvd>>
  BY DEF Gives, Lasting, Always
<1>2. PICK w \in Word : Outgoing(w)
  BY <1>1 DEF MosiInv, UnderWay
<1>3. Pos' = Pos + 1
  BY <1>1, Positions DEF Pos
<1>4. Pos = 2 * Taken /\ Given = Taken /\ Taken \in Nat /\ Taken + 1 <= d_width /\ d_width \in Nat
  BY <1>1, Positions
<1>5. Taken' = Taken /\ Given' = Taken + 1
  BY <1>3, <1>4 DEF Given, Taken
<1>6. UnderWay'
  BY <1>1, <1>3, <1>4 DEF UnderWay, Toggles
<1>7. tx_buffer[1] = w[Taken + 1]
  BY <1>2, <1>4 DEF Outgoing
<1>8. ASSUME NEW i \in 1 .. d_width - (Taken + 1) PROVE tx_buffer'[i] = w[Taken + 1 + i]
  <2>1. i \in 1 .. d_width /\ i # d_width /\ i + 1 \in 1 .. d_width - Taken
    BY <1>4
  <2>2. tx_buffer'[i] = tx_buffer[i + 1]
    BY <1>1, <2>1, ShiftedIs DEF TypeInv, Registers, Bit
  <2>3. tx_buffer[i + 1] = w[Taken + (i + 1)]
    BY <1>2, <1>4, <2>1 DEF Outgoing
  <2>4. Taken + (i + 1) = Taken + 1 + i
    BY <1>4
  <2>5. QED
    BY <2>2, <2>3, <2>4
<1>9. Outgoing(w)'
  BY <1>1, <1>2, <1>5, <1>7, <1>8 DEF Outgoing
<1>10. MosiInv'
  BY <1>1, <1>6, <1>9 DEF MosiInv, Word
<1>11. QED
  BY <1>1, <1>10 DEF MosiMoves, MosiChannel!vars

(* The line goes low.                                                      *)
LEMMA MosiOpens ==
    ASSUME TypeInv, MosiInv, Always, Opens
    PROVE  MosiInv' /\ MosiMoves
<1>1. /\ state = "execute" /\ state' = "execute" /\ clk_toggles = 0 /\ clk_toggles' = 1
      /\ cpha' = cpha /\ devIn' = << >> /\ UNCHANGED <<mSent, dRcvd>>
      /\ cpha = 0 => mosi' = tx_buffer[1] /\ tx_buffer' = Shifted(tx_buffer, 0)
      /\ cpha = 1 => UNCHANGED <<mosi, tx_buffer>>
  BY DEF Opens, Always
<1>2. Pos = 0 /\ Given = 0 /\ Taken = 0 /\ d_width \in Nat /\ d_width >= 1 /\ cpha \in {0, 1}
      /\ Toggles = 2 * d_width
  BY <1>1, Positions
<1>3. PICK w \in Word : Outgoing(w)
  BY <1>1, <1>2 DEF MosiInv, UnderWay
<1>4. \A i \in 1 .. d_width : tx_buffer[i] = w[i]
  <2> TAKE i \in 1 .. d_width
  <2>1. i \in 1 .. d_width - Given /\ Given + i = i
    BY <1>2
  <2>2. QED
    BY <1>3, <2>1 DEF Outgoing
<1>5. devIn' \in Seq(Bit) /\ Len(devIn') = 0
  BY <1>1, EmptySeq
<1>6. CASE cpha = 0
  <2>1. Pos' = 1
    BY <1>1, <1>6 DEF Pos
  <2>2. Given' = 1 /\ Taken' = 0
    BY <2>1 DEF Given, Taken
  <2>3. mosi' = w[1]
    BY <1>1, <1>2, <1>4, <1>6
  <2>4. ASSUME NEW i \in 1 .. d_width - 1 PROVE tx_buffer'[i] = w[1 + i]
    <3>1. i \in 1 .. d_width /\ i # d_width /\ i + 1 \in 1 .. d_width /\ 1 + i = i + 1
      BY <1>2
    <3>2. tx_buffer'[i] = tx_buffer[i + 1]
      BY <1>1, <1>6, <3>1, ShiftedIs DEF TypeInv, Registers, Bit
    <3>3. QED
      BY <1>4, <3>1, <3>2
  <2>5. Outgoing(w)'
    BY <1>1, <1>3, <1>5, <2>2, <2>3, <2>4 DEF Outgoing
  <2>6. UnderWay'
    BY <1>1, <1>2, <2>1 DEF UnderWay, Toggles
  <2>7. QED
    BY <1>1, <1>5, <2>5, <2>6 DEF MosiInv, Word, MosiMoves, MosiChannel!vars
<1>7. CASE cpha = 1
  <2>1. Pos' = 0
    BY <1>1, <1>7 DEF Pos
  <2>2. Given' = 0 /\ Taken' = 0
    BY <2>1 DEF Given, Taken
  <2>3. Outgoing(w)'
    BY <1>1, <1>2, <1>3, <1>5, <1>7, <2>2 DEF Outgoing
  <2>4. UnderWay'
    BY <1>1, <1>2, <2>1 DEF UnderWay, Toggles
  <2>5. QED
    BY <1>1, <1>5, <2>3, <2>4 DEF MosiInv, Word, MosiMoves, MosiChannel!vars
<1>8. QED
  BY <1>2, <1>6, <1>7

(* A bit is taken; the last one completes the word, and in a continuous    *)
(* transfer the next word takes its place.                                 *)
LEMMA MosiTakes ==
    ASSUME TypeInv, MosiInv, Always, NEW reloads \in BOOLEAN, Takes(reloads)
    PROVE  MosiInv' /\ MosiMoves
<1>1. /\ state = "execute" /\ state' = "execute" /\ Pos % 2 = 1 /\ Pos < Toggles /\ cpha' = cpha
      /\ mosi' = mosi /\ DevSamples(mosi)
      /\ reloads => /\ Pos = Toggles - 1 /\ clk_toggles' = cpha
                    /\ tx_buffer' \in Word /\ mSent' = Append(mSent, tx_buffer')
      /\ ~reloads => clk_toggles' = clk_toggles + 1 /\ UNCHANGED <<tx_buffer, mSent>>
  BY DEF Takes, Lasting, Always
<1>2. PICK w \in Word : Outgoing(w)
  BY <1>1 DEF MosiInv, UnderWay
<1>3. /\ Pos \in Nat /\ Pos = 2 * Taken + 1 /\ Given = Taken + 1 /\ Taken \in Nat
      /\ Toggles = 2 * d_width /\ d_width \in Nat
      /\ cpha \in {0, 1} /\ clk_toggles \in Nat /\ Pos = clk_toggles - cpha
  <2>1. Pos = clk_toggles - cpha
    BY <1>1, Positions DEF Pos
  <2>2. QED
    BY <1>1, <2>1, Positions
<1>4. /\ devIn \in Seq(Bit) /\ dRcvd \in Seq(Word) /\ Len(devIn) = Taken
      /\ mSent = Append(dRcvd, w) /\ mosi = w[Taken + 1] /\ \A i \in 1 .. Taken : devIn[i] = w[i]
      /\ \A i \in 1 .. d_width - (Taken + 1) : tx_buffer[i] = w[Taken + 1 + i]
  BY <1>2, <1>3 DEF Outgoing, MosiInv
<1>5. Taken + 1 \in 1 .. d_width /\ mosi \in Bit
  BY <1>1, <1>3, <1>4 DEF Word
<1>6. DEFINE got == Append(devIn, mosi)
<1>7. /\ got \in Seq(Bit) /\ Len(got) = Taken + 1 /\ \A i \in 1 .. Taken + 1 : got[i] = w[i]
  <2>1. /\ got \in Seq(Bit) /\ Len(got) = Taken + 1 /\ got[Taken + 1] = mosi
        /\ \A i \in 1 .. Taken : got[i] = devIn[i]
    BY <1>4, <1>5, AppendProperties
  <2>2. QED
    BY <1>3, <1>4, <2>1
<1> HIDE DEF got
<1>8. CASE Taken # d_width - 1
  <2>1. devIn' = got /\ dRcvd' = dRcvd
    BY <1>1, <1>4, <1>8 DEF DevSamples, got
  <2>2. ~reloads /\ clk_toggles' = clk_toggles + 1 /\ UNCHANGED <<tx_buffer, mSent>>
    BY <1>1, <1>3, <1>8
  <2>3. Pos' = Pos + 1
    BY <1>1, <1>3, <2>2 DEF Pos
  <2>4. Given' = Taken + 1 /\ Taken' = Taken + 1
    BY <1>3, <2>3 DEF Given, Taken
  <2>5. UnderWay'
    BY <1>1, <1>3, <1>8, <2>3 DEF UnderWay, Toggles
  <2>6. Outgoing(w)'
    BY <1>3, <1>4, <1>7, <2>1, <2>2, <2>4 DEF Outgoing
  <2>7. MosiInv'
    BY <1>4, <1>7, <2>1, <2>5, <2>6 DEF MosiInv, Word
  <2>8. QED
    BY <2>1, <2>2, <2>7 DEF MosiMoves, MosiChannel!vars
<1>9. CASE Taken = d_width - 1
  <2>1. got = w
    BY <1>3, <1>7, <1>9, SameWord
  <2>2. devIn' = << >> /\ dRcvd' = Append(dRcvd, w)
    BY <1>1, <1>4, <1>9, <2>1 DEF DevSamples, got
  <2>3. /\ dRcvd' \in Seq(Word) /\ devIn' \in Seq(Bit) /\ Len(devIn') = 0
        /\ Len(dRcvd) \in Nat /\ Len(mSent) = Len(dRcvd) + 1 /\ mSent[Len(dRcvd) + 1] = w
    BY <1>4, <2>2, AppendProperties, EmptySeq, LenProperties
  <2>4. Len(dRcvd) < Len(mSent) /\ dRcvd' = Append(dRcvd, mSent[Len(dRcvd) + 1])
    BY <2>2, <2>3
  <2>5. CASE ~reloads
    <3>1. mSent' = mSent /\ clk_toggles' = clk_toggles + 1
      BY <1>1, <2>5
    <3>2. Pos' = Toggles
      BY <1>1, <1>3, <1>9, <3>1 DEF Pos
    <3>3. ~UnderWay'
      BY <1>3, <3>2 DEF UnderWay, Toggles
    <3>4. MosiInv'
      BY <1>4, <2>2, <2>3, <3>1, <3>3 DEF MosiInv, Word
    <3>5. MosiChannel!Receive
      BY <2>4, <3>1 DEF MosiChannel!Receive
    <3>6. QED
      BY <3>4, <3>5 DEF MosiMoves, MosiChannel!Next
  <2>6. CASE reloads
    <3>1. PICK v \in Word : tx_buffer' = v /\ mSent' = Append(mSent, v) /\ clk_toggles' = cpha
      BY <1>1, <2>6
    <3>2. Pos' = 0
      BY <1>1, <1>3, <3>1 DEF Pos
    <3>3. Given' = 0 /\ Taken' = 0
      BY <3>2 DEF Given, Taken
    <3>4. UnderWay'
      BY <1>1, <1>3, <1>5, <3>2 DEF UnderWay, Toggles
    <3>5. Outgoing(v)'
      BY <1>3, <1>4, <2>2, <2>3, <3>1, <3>3 DEF Outgoing
    <3>6. MosiInv'
      BY <2>3, <3>4, <3>5 DEF MosiInv, Word
    <3>7. MosiChannel!Turn(v)
      BY <2>4, <3>1 DEF MosiChannel!Turn
    <3>8. QED
      BY <3>6, <3>7 DEF MosiMoves, MosiChannel!Next
  <2>7. QED
    BY <2>5, <2>6
<1>10. QED
  BY <1>8, <1>9

(* With the word received, the rest of the transaction leaves it alone.    *)
LEMMA MosiEnds ==
    ASSUME TypeInv, MosiInv, Always, Trails \/ Closes
    PROVE  MosiInv' /\ MosiMoves
<1>1. /\ clk_toggles >= Toggles /\ cpha' = cpha
      /\ (cpha = 0 /\ clk_toggles' = Toggles + 1) \/ state' = "ready"
      /\ clk_toggles = Toggles => cpha = 0
      /\ UNCHANGED <<mSent, dRcvd>> /\ (devIn' = devIn \/ devIn' = << >>)
  BY Positions DEF Trails, Closes, Always
<1>2. cpha \in {0, 1} /\ Toggles \in Nat /\ clk_toggles \in Nat
  BY Positions
<1>3. ~UnderWay
  <2>1. clk_toggles = Toggles \/ clk_toggles > Toggles
    BY <1>1, <1>2
  <2>2. Pos >= Toggles
    BY <1>1, <1>2, <2>1 DEF Pos
  <2>3. QED
    BY <1>2, <2>2, Positions DEF UnderWay
<1>4. ~UnderWay'
  <2>1. CASE cpha = 0 /\ clk_toggles' = Toggles + 1
    <3>1. Pos' = Toggles + 1
      BY <1>1, <1>2, <2>1 DEF Pos
    <3>2. Toggles' = Toggles
      BY DEF Toggles
    <3>3. QED
      BY <1>2, <3>1, <3>2 DEF UnderWay
  <2>2. CASE state' = "ready"
    BY <2>2 DEF UnderWay
  <2>3. QED
    BY <1>1, <2>1, <2>2
<1>5. MosiInv'
  BY <1>1, <1>3, <1>4 DEF MosiInv, Word
<1>6. QED
  BY <1>1, <1>5 DEF MosiMoves, MosiChannel!vars

(* Every step keeps what mosi carries, and moves the channel as it may.    *)
LEMMA MosiStep == TypeInv /\ MosiInv /\ [Next]_vars => MosiInv' /\ MosiMoves
<1> SUFFICES ASSUME TypeInv, MosiInv, [Next]_vars PROVE MosiInv' /\ MosiMoves
  OBVIOUS
<1>1. CASE LAccept
  BY <1>1, MosiAccepts
<1>2. CASE LRest
  <2>1. state = "ready" /\ state' = "ready" /\ ss_n' = Deselected /\ mSent' = mSent
    BY <1>2 DEF LRest, Rest
  <2>2. ~anySelected'
    BY <2>1 DEF Deselected, anySelected
  <2>3. devIn' = << >> /\ dRcvd' = dRcvd
    BY <1>2, <2>2 DEF LRest, Device
  <2>4. MosiInv'
    BY <2>1, <2>3, EmptySeq DEF MosiInv, UnderWay, Word
  <2>5. QED
    BY <2>1, <2>3, <2>4 DEF MosiMoves, MosiChannel!vars
<1>3. CASE LWait
  <2>1. ss_n[slave] = 0 /\ ss_n' = ss_n /\ sclk' = sclk
    BY <1>3, WaitKeeps
  <2>2. anySelected /\ anySelected' /\ ~Leading /\ ~Trailing
    BY <2>1, SelectedLine DEF TypeInv, anySelected, Leading, Trailing
  <2>3. devIn' = devIn /\ dRcvd' = dRcvd
    BY <1>3, <2>2 DEF LWait, Device, dev
  <2>4. UNCHANGED <<state, clk_toggles, cpha, mSent, tx_buffer, mosi>>
    BY <1>3 DEF LWait, Wait, mode
  <2>5. QED
    BY <2>3, <2>4, MosiRests
<1>4. CASE LHit \/ LHitReloads
  BY <1>4, HitsAre, MosiOpens, MosiGives, MosiTakes, MosiEnds
<1>5. CASE LReset
  <2>1. state' = "ready" /\ devIn' = << >> /\ mSent' = << >> /\ dRcvd' = << >>
    BY <1>5 DEF LReset, Reset
  <2>2. MosiInv'
    BY <2>1, EmptySeq DEF MosiInv, UnderWay, Word
  <2>3. QED
    BY <2>1, <2>2 DEF MosiMoves, MosiChannel!Next, MosiChannel!Clear
<1>6. CASE UNCHANGED vars
  BY <1>6, MosiRests DEF vars, masterVars, control, mode, dev, logs
<1>7. QED
  BY <1>1, <1>2, <1>3, <1>4, <1>5, <1>6 DEF Next, Tick

(* In every mode, at every divider and word length, single words and words *)
(* run together, whenever the reset comes: the device receives the words   *)
(* the client handed over, in order, bit for bit, at most one on the way.  *)
THEOREM MosiRefines == Spec => MosiDelivers
<1>1. LInit => MosiInv /\ MosiChannel!Init
  <2> SUFFICES ASSUME LInit PROVE MosiInv /\ MosiChannel!Init
    OBVIOUS
  <2>1. state = "ready" /\ devIn = << >> /\ mSent = << >> /\ dRcvd = << >>
    BY DEF LInit, Init
  <2>2. QED
    BY <2>1, EmptySeq DEF MosiInv, UnderWay, MosiChannel!Init
<1>2. QED
  BY <1>1, TypeInit, TypeStep, MosiStep, PTL DEF Spec, MosiDelivers, MosiChannel!Spec, MosiMoves

-----------------------------------------------------------------------------
(* From the device to the master. *)

\* A word of the device is under way from its first sample until busy falls, in a
\* continuous transfer past the last bit into the next word.
Late == state = "execute" /\ (continue \/ Pos >= 2)

\* The word w is split between the receive buffer and what the device has to show.
Incoming(w) ==
    /\ dSent = Append(mRcvd, w)
    /\ continue => rx_buffer = w
    /\ ~continue =>
         /\ \A i \in 1 .. Taken : rx_buffer[d_width - Taken + i] = w[i]
         /\ Pos < Toggles =>
              /\ Len(devOut) = d_width - Given + 1
              /\ \A i \in 1 .. d_width - Given + 1 : devOut[i] = w[Given - 1 + i]

MisoInv ==
    /\ mRcvd \in Seq(Word)
    /\ state = "execute" /\ Pos = 0 => Len(devOut) <= 1
    /\ state = "execute" /\ Pos = 1 => devOut \in Word
    /\ ~Late => dSent = mRcvd
    /\ Late => \E w \in Word : Incoming(w)

MisoMoves == [MisoChannel!Next]_(MisoChannel!vars)

(* A word arrives: it is the one that was on the way.                      *)
LEMMA MisoArrives ==
    ASSUME NEW w \in Word, mRcvd \in Seq(Word), dSent = Append(mRcvd, w),
           dSent' = dSent, mRcvd' = Append(mRcvd, w)
    PROVE  mRcvd' \in Seq(Word) /\ MisoMoves
<1>1. /\ mRcvd' \in Seq(Word) /\ Len(mRcvd) \in Nat /\ Len(dSent) = Len(mRcvd) + 1
      /\ dSent[Len(mRcvd) + 1] = w
  BY AppendProperties, LenProperties
<1>2. MisoChannel!Receive
  BY <1>1 DEF MisoChannel!Receive
<1>3. QED
  BY <1>1, <1>2 DEF MisoMoves, MisoChannel!Next

(* Before the device's first sample there is nothing on the way.           *)
LEMMA MisoOpens ==
    ASSUME TypeInv, MisoInv, Always, Opens
    PROVE  MisoInv' /\ MisoMoves
<1>1. /\ state = "execute" /\ state' = "execute" /\ clk_toggles = 0 /\ clk_toggles' = 1
      /\ ~continue /\ ~continue' /\ cpha' = cpha /\ UNCHANGED <<dSent, mRcvd>>
      /\ cpha = 0 => DevLoads
      /\ cpha = 1 => UNCHANGED devOut
  BY DEF Opens, Always
<1>2. Pos = 0 /\ cpha \in {0, 1} /\ Toggles' = Toggles
  BY <1>1, Positions DEF Toggles
<1>3. dSent = mRcvd /\ mRcvd \in Seq(Word) /\ Len(devOut) <= 1
  BY <1>1, <1>2 DEF MisoInv, Late
<1>4. Pos' = 1 - cpha
  BY <1>1, <1>2 DEF Pos
<1>5. ~Late'
  BY <1>1, <1>2, <1>4 DEF Late
<1>6. cpha = 0 => devOut' \in Word
  BY <1>1 DEF DevLoads
<1>7. MisoInv'
  BY <1>1, <1>2, <1>3, <1>4, <1>5, <1>6 DEF MisoInv, Word
<1>8. QED
  BY <1>1, <1>7 DEF MisoMoves, MisoChannel!vars

(* The device shows its next bit; in a continuous transfer the first bit   *)
(* of the next word puts the last word on rx_data.                         *)
LEMMA MisoGives ==
    ASSUME TypeInv, MisoInv, Always, Gives
    PROVE  MisoInv' /\ MisoMoves
<1>1. /\ state = "execute" /\ state' = "execute" /\ clk_toggles' = clk_toggles + 1
      /\ clk_toggles >= cpha /\ Pos % 2 = 0 /\ Pos < Toggles /\ cpha' = cpha
      /\ ~continue' /\ DevShifts /\ UNCHANGED <<rx_buffer, dSent>>
      /\ mRcvd' = IF continue THEN Append(mRcvd, rx_buffer) ELSE mRcvd
  BY DEF Gives, Lasting, Always
<1>2. /\ Pos \in Nat /\ Pos = 2 * Taken /\ Given = Taken /\ Taken \in Nat /\ Toggles = 2 * d_width
      /\ d_width \in Nat /\ cpha \in {0, 1} /\ clk_toggles \in Nat
  BY <1>1, Positions
<1>3. Pos' = Pos + 1
  BY <1>1, <1>2 DEF Pos
<1>4. Given' = Taken + 1 /\ Taken' = Taken
  BY <1>2, <1>3 DEF Given, Taken
<1>5. mRcvd \in Seq(Word) /\ devOut \in Seq(Bit)
  BY DEF MisoInv, TypeInv, Registers
<1>6. CASE Pos = 0
  <2>1. Len(devOut) <= 1 /\ Len(devOut) \in Nat
    BY <1>1, <1>5, <1>6, LenProperties DEF MisoInv
  <2>2. devOut' \in Word
    BY <1>1, <2>1 DEF DevShifts, DevLoads
  <2>3. ~Late' /\ Pos' = 1
    BY <1>1, <1>3, <1>6 DEF Late
  <2>4. ASSUME dSent' = mRcvd', mRcvd' \in Seq(Word) PROVE MisoInv'
    BY <2>2, <2>3, <2>4 DEF MisoInv, Word
  <2>5. CASE continue
    <3>1. PICK w \in Word : Incoming(w)
      BY <1>1, <2>5 DEF MisoInv, Late
    <3>2. dSent = Append(mRcvd, w) /\ mRcvd' = Append(mRcvd, w)
      BY <1>1, <2>5, <3>1 DEF Incoming
    <3>3. mRcvd' \in Seq(Word) /\ MisoMoves
      BY <1>1, <1>5, <3>2, MisoArrives
    <3>4. QED
      BY <1>1, <2>4, <3>2, <3>3
  <2>6. CASE ~continue
    <3>1. dSent = mRcvd /\ mRcvd' = mRcvd
      BY <1>1, <1>6, <2>6 DEF MisoInv, Late
    <3>2. QED
      BY <1>1, <1>5, <2>4, <3>1 DEF MisoMoves, MisoChannel!vars
  <2>7. QED
    BY <2>5, <2>6
<1>7. CASE Pos >= 2
  <2>1. ~continue
    <3>1. continue => clk_toggles = cpha
      BY <1>1 DEF TypeInv, Clocked
    <3>2. clk_toggles = cpha => Pos = 0
      BY <1>2 DEF Pos
    <3>3. QED
      BY <1>7, <3>1, <3>2
  <2>2. PICK w \in Word : Incoming(w)
    BY <1>1, <1>7 DEF MisoInv, Late
  <2>3. /\ dSent = Append(mRcvd, w)
        /\ \A i \in 1 .. Taken : rx_buffer[d_width - Taken + i] = w[i]
        /\ Len(devOut) = d_width - Taken + 1
        /\ \A i \in 1 .. d_width - Taken + 1 : devOut[i] = w[Taken - 1 + i]
    BY <1>1, <1>2, <2>1, <2>2 DEF Incoming
  <2>4. Len(devOut) > 1 /\ devOut # << >>
    BY <1>1, <1>2, <2>3, EmptySeq
  <2>5. /\ devOut' = Tail(devOut) /\ Len(devOut') = d_width - (Taken + 1) + 1
        /\ \A i \in 1 .. d_width - (Taken + 1) + 1 : devOut'[i] = devOut[i + 1]
    <3>1. devOut' = Tail(devOut)
      BY <1>1, <2>4 DEF DevShifts
    <3>2. /\ Len(devOut') = Len(devOut) - 1
          /\ \A i \in 1 .. Len(devOut) - 1 : devOut'[i] = devOut[i + 1]
      BY <1>5, <2>4, <3>1, HeadTailProperties
    <3>3. Len(devOut) - 1 = d_width - (Taken + 1) + 1
      BY <1>2, <2>3
    <3>4. QED
      BY <3>1, <3>2, <3>3
  <2>6. ASSUME NEW i \in 1 .. d_width - (Taken + 1) + 1 PROVE devOut'[i] = w[(Taken + 1) - 1 + i]
    <3>1. i + 1 \in 1 .. d_width - Taken + 1 /\ Taken - 1 + (i + 1) = (Taken + 1) - 1 + i
      BY <1>2
    <3>2. devOut[i + 1] = w[Taken - 1 + (i + 1)]
      BY <2>3, <3>1
    <3>3. QED
      BY <2>5, <3>1, <3>2
  <2>7. Incoming(w)'
    BY <1>1, <1>4, <2>1, <2>3, <2>5, <2>6 DEF Incoming
  <2>8. Late' /\ Pos' >= 3
    BY <1>1, <1>2, <1>3, <1>7 DEF Late
  <2>9. MisoInv'
    BY <1>1, <1>2, <1>3, <1>5, <2>1, <2>7, <2>8 DEF MisoInv, Word
  <2>10. QED
    BY <1>1, <2>1, <2>9 DEF MisoMoves, MisoChannel!vars
<1>8. QED
  BY <1>1, <1>2, <1>6, <1>7

(* The device waits for its last bit to be fetched.                        *)
LEMMA MisoTrails ==
    ASSUME TypeInv, MisoInv, Always, Trails
    PROVE  MisoInv' /\ MisoMoves
<1>1. /\ state = "execute" /\ state' = "execute" /\ clk_toggles = Toggles /\ clk_toggles' = Toggles + 1
      /\ cpha = 0 /\ cpha' = cpha /\ ~continue /\ ~continue' /\ UNCHANGED <<rx_buffer, dSent, mRcvd>>
  BY DEF Trails, Lasting, Always
<1>2. Toggles = 2 * d_width /\ Toggles' = Toggles /\ d_width \in Nat /\ d_width >= 1
  BY Positions DEF Toggles
<1>3. Pos = Toggles /\ Pos' = Toggles + 1
  BY <1>1, <1>2 DEF Pos
<1>4. Taken = d_width /\ Taken' = d_width
  BY <1>2, <1>3 DEF Taken
<1>5. Late /\ Late'
  BY <1>1, <1>2, <1>3 DEF Late
<1>6. PICK w \in Word : Incoming(w)
  BY <1>5 DEF MisoInv
<1>7. ~(Pos' < Toggles')
  BY <1>2, <1>3
<1>8. Incoming(w)'
  BY <1>1, <1>4, <1>6, <1>7 DEF Incoming
<1>9. MisoInv'
  BY <1>1, <1>2, <1>3, <1>5, <1>8 DEF MisoInv, Word
<1>10. QED
  BY <1>1, <1>9 DEF MisoMoves, MisoChannel!vars

(* At the end of the transaction the receive buffer holds the word.        *)
LEMMA MisoCloses ==
    ASSUME TypeInv, MisoInv, Always, Closes
    PROVE  MisoInv' /\ MisoMoves
<1>1. /\ state = "execute" /\ state' = "ready" /\ clk_toggles = Toggles + 1 /\ ~continue
      /\ mRcvd' = Append(mRcvd, rx_buffer) /\ UNCHANGED dSent
  BY DEF Closes
<1>2. Toggles = 2 * d_width /\ d_width \in Nat /\ d_width >= 1 /\ cpha \in {0, 1}
  BY Positions
<1>3. Pos = Toggles + 1 - cpha
  BY <1>1, <1>2 DEF Pos
<1>4. Taken = d_width
  BY <1>2, <1>3 DEF Taken
<1>5. PICK w \in Word : Incoming(w)
  BY <1>1, <1>2, <1>3 DEF MisoInv, Late
<1>6. dSent = Append(mRcvd, w) /\ \A i \in 1 .. d_width : rx_buffer[i] = w[i]
  BY <1>1, <1>2, <1>4, <1>5 DEF Incoming
<1>7. rx_buffer = w
  BY <1>6 DEF TypeInv, Registers, Word
<1>8. mRcvd \in Seq(Word)
  BY DEF MisoInv
<1>9. mRcvd' \in Seq(Word) /\ MisoMoves
  BY <1>1, <1>6, <1>7, <1>8, MisoArrives
<1>10. MisoInv'
  BY <1>1, <1>6, <1>7, <1>9 DEF MisoInv, Late, Word
<1>11. QED
  BY <1>9, <1>10

(* The master takes the bit the device shows.                              *)
LEMMA MisoTakes ==
    ASSUME TypeInv, MosiInv, MisoInv, Always, NEW reloads \in BOOLEAN, Takes(reloads)
    PROVE  MisoInv' /\ MisoMoves
<1>1. /\ state = "execute" /\ state' = "execute" /\ Pos % 2 = 1 /\ Pos < Toggles /\ cpha' = cpha
      /\ ~continue /\ rx_buffer' = Shifted(rx_buffer, miso) /\ DevSamples(mosi) /\ mRcvd' = mRcvd
      /\ reloads => Pos = Toggles - 1 /\ clk_toggles' = cpha /\ continue'
      /\ ~reloads => clk_toggles' = clk_toggles + 1 /\ ~continue'
  BY DEF Takes, Lasting, Always
<1>2. /\ Pos \in Nat /\ Pos = 2 * Taken + 1 /\ Given = Taken + 1 /\ Taken \in Nat
      /\ Toggles = 2 * d_width /\ d_width \in Nat /\ d_width >= 1 /\ Toggles' = Toggles
      /\ cpha \in {0, 1} /\ clk_toggles \in Nat /\ Pos = clk_toggles - cpha
  <2>1. Pos = clk_toggles - cpha
    BY <1>1, Positions DEF Pos
  <2>2. QED
    BY <1>1, <2>1, Positions DEF Toggles
<1>3. mRcvd \in Seq(Word) /\ devOut \in Seq(Bit) /\ rx_buffer \in Word /\ devOut' = devOut
  BY <1>1 DEF MisoInv, TypeInv, Registers, DevSamples
<1>4. devIn = << >> <=> Pos = 1
  <2>1. devIn \in Seq(Bit) /\ Len(devIn) = Taken
    BY <1>1 DEF MosiInv, UnderWay, Outgoing
  <2>2. devIn = << >> <=> Taken = 0
    BY <2>1, EmptySeq
  <2>3. QED
    BY <1>2, <2>2
\* The word under way, after the first sample if it was this one.
<1>5. PICK w \in Word :
        /\ dSent' = Append(mRcvd, w)
        /\ \A i \in 1 .. Taken : rx_buffer[d_width - Taken + i] = w[i]
        /\ Len(devOut) = d_width - Taken /\ \A i \in 1 .. d_width - Taken : devOut[i] = w[Taken + i]
        /\ MisoMoves
  <2>1. CASE Pos = 1
    <3>1. Taken = 0 /\ devOut \in Word /\ ~Late
      BY <1>1, <1>2, <2>1 DEF MisoInv, Late
    <3>2. dSent = mRcvd /\ dSent' = Append(dSent, devOut)
      BY <1>1, <1>4, <2>1, <3>1 DEF MisoInv, DevSamples
    <3>3. Len(devOut) = d_width
      BY <3>1, WordIsSeq
    <3>4. Len(dSent) - Len(mRcvd) < 1
      BY <1>3, <3>2, LenProperties
    <3>5. MisoChannel!Send(devOut)
      BY <1>1, <3>2, <3>4 DEF MisoChannel!Send
    <3>6. MisoMoves
      BY <3>1, <3>5 DEF MisoMoves, MisoChannel!Next
    <3>7. \A i \in 1 .. d_width - Taken : devOut[i] = devOut[Taken + i]
      BY <1>2, <3>1
    <3>8. QED
      BY <1>2, <3>1, <3>2, <3>3, <3>6, <3>7
  <2>2. CASE Pos # 1
    <3>1. PICK w \in Word : Incoming(w)
      BY <1>1, <1>2, <2>2 DEF MisoInv, Late
    <3>2. dSent' = dSent
      BY <1>1, <1>4, <2>2 DEF DevSamples
    <3>3. /\ dSent = Append(mRcvd, w)
          /\ \A i \in 1 .. Taken : rx_buffer[d_width - Taken + i] = w[i]
          /\ Len(devOut) = d_width - (Taken + 1) + 1
          /\ \A i \in 1 .. d_width - (Taken + 1) + 1 : devOut[i] = w[(Taken + 1) - 1 + i]
      BY <1>1, <1>2, <3>1 DEF Incoming
    <3>4. d_width - (Taken + 1) + 1 = d_width - Taken /\ (Taken + 1) - 1 = Taken
      BY <1>2
    <3>5. MisoMoves
      BY <1>1, <3>2 DEF MisoMoves, MisoChannel!vars
    <3>6. QED
      BY <3>2, <3>3, <3>4, <3>5
  <2>3. QED
    BY <2>1, <2>2
<1>6. miso = w[Taken + 1] /\ miso \in Bit
  <2>1. 1 \in 1 .. d_width - Taken /\ Len(devOut) # 0
    BY <1>1, <1>2, <1>5
  <2>2. miso = devOut[1]
    BY <1>3, <2>1, EmptySeq, HeadTailProperties DEF miso
  <2>3. QED
    BY <1>3, <1>5, <2>1, <2>2, MisoIsBit
<1>7. ASSUME NEW i \in 1 .. Taken + 1
      PROVE  rx_buffer'[d_width - (Taken + 1) + i] = w[i]
  <2>1. d_width - (Taken + 1) + i \in 1 .. d_width
    BY <1>1, <1>2
  <2>2. rx_buffer'[d_width - (Taken + 1) + i]
          = IF d_width - (Taken + 1) + i = d_width THEN miso
            ELSE rx_buffer[d_width - (Taken + 1) + i + 1]
    BY <1>1, <1>3, <1>6, <2>1, ShiftedIs
  <2>3. CASE i = Taken + 1
    BY <1>2, <1>6, <2>2, <2>3
  <2>4. CASE i # Taken + 1
    <3>1. i \in 1 .. Taken /\ d_width - (Taken + 1) + i # d_width
          /\ d_width - (Taken + 1) + i + 1 = d_width - Taken + i
      BY <1>2, <2>4
    <3>2. QED
      BY <1>5, <2>2, <3>1
  <2>5. QED
    BY <2>3, <2>4
<1>8. CASE ~reloads
  <2>1. clk_toggles' = clk_toggles + 1 /\ ~continue'
    BY <1>1, <1>8
  <2>2. Pos' = Pos + 1
    BY <1>1, <1>2, <2>1 DEF Pos
  <2>3. Taken' = Taken + 1 /\ Given' = Taken + 1
    BY <1>2, <2>2 DEF Given, Taken
  <2>4. Late' /\ Pos' >= 2
    BY <1>1, <1>2, <2>2 DEF Late
  <2>5. d_width - (Taken + 1) + 1 = d_width - Taken /\ (Taken + 1) - 1 = Taken
    BY <1>2
  <2>6. Incoming(w)'
    BY <1>1, <1>3, <1>5, <1>7, <2>1, <2>3, <2>5 DEF Incoming
  <2>7. MisoInv'
    BY <1>1, <1>2, <1>3, <2>2, <2>4, <2>6 DEF MisoInv, Word
  <2>8. QED
    BY <1>5, <2>7
<1>9. CASE reloads
  <2>1. clk_toggles' = cpha /\ continue' /\ Taken + 1 = d_width
    BY <1>1, <1>2, <1>9
  <2>2. Pos' = 0
    BY <1>1, <1>2, <2>1 DEF Pos
  <2>3. rx_buffer' \in Word
    BY <1>1, <1>3, <1>6, ShiftedIs
  <2>4. \A i \in 1 .. d_width : rx_buffer'[i] = w[i]
    BY <1>2, <1>7, <2>1
  <2>5. rx_buffer' = w
    BY <2>3, <2>4, WordIsSeq, SameWord
  <2>6. Len(devOut') <= 1
    BY <1>2, <1>3, <1>5, <2>1
  <2>7. Late' /\ Incoming(w)'
    BY <1>1, <1>5, <2>1, <2>5 DEF Late, Incoming
  <2>8. MisoInv'
    BY <1>1, <1>3, <2>2, <2>6, <2>7 DEF MisoInv, Word
  <2>9. QED
    BY <1>5, <2>8
<1>10. QED
  BY <1>8, <1>9

(* The same for miso.                                                      *)
LEMMA MisoStep == TypeInv /\ MosiInv /\ MisoInv /\ [Next]_vars => MisoInv' /\ MisoMoves
<1> SUFFICES ASSUME TypeInv, MosiInv, MisoInv, [Next]_vars PROVE MisoInv' /\ MisoMoves
  OBVIOUS
<1>1. CASE LAccept
  <2>1. PICK div \in Dividers, a \in Addresses, w \in Word : Accept(cpol, cpha, div, a, w)
    BY <1>1 DEF LAccept
  <2>2. /\ state = "ready" /\ state' = "execute" /\ clk_toggles' = 0 /\ continue' = FALSE
        /\ ss_n' = Deselected /\ mRcvd' = mRcvd /\ cpha' = cpha
    BY <1>1, <2>1 DEF Accept, LAccept, mode
  <2>3. ~anySelected'
    BY <2>2 DEF Deselected, anySelected
  <2>4. devOut' = << >> /\ dSent' = dSent
    BY <1>1, <2>3 DEF LAccept, Device
  <2>5. cpha \in {0, 1}
    BY Positions
  <2>6. Pos' = 0
    BY <2>2, <2>5 DEF Pos
  <2>7. dSent = mRcvd /\ ~Late'
    BY <2>2, <2>6 DEF MisoInv, Late
  <2>8. MisoInv'
    BY <2>2, <2>4, <2>6, <2>7, EmptySeq DEF MisoInv, Word
  <2>9. QED
    BY <2>2, <2>4, <2>8 DEF MisoMoves, MisoChannel!vars
<1>2. CASE LRest
  <2>1. state = "ready" /\ state' = "ready" /\ ss_n' = Deselected /\ mRcvd' = mRcvd
    BY <1>2 DEF LRest, Rest
  <2>2. ~anySelected'
    BY <2>1 DEF Deselected, anySelected
  <2>3. dSent' = dSent
    BY <1>2, <2>2 DEF LRest, Device
  <2>4. MisoInv'
    BY <2>1, <2>3 DEF MisoInv, Late, Word
  <2>5. QED
    BY <2>1, <2>3, <2>4 DEF MisoMoves, MisoChannel!vars
<1>3. ASSUME UNCHANGED <<state, clk_toggles, cpha, continue, rx_buffer, devOut, dSent, mRcvd>>
      PROVE  MisoInv' /\ MisoMoves
  <2>1. Pos' = Pos /\ Given' = Given /\ Taken' = Taken /\ Toggles' = Toggles /\ (Late' <=> Late)
    BY <1>3 DEF Pos, Given, Taken, Late, Toggles
  <2>2. \A w \in Word : Incoming(w) => Incoming(w)'
    BY <1>3, <2>1 DEF Incoming
  <2>3. MisoInv'
    BY <1>3, <2>1, <2>2 DEF MisoInv, Word
  <2>4. QED
    BY <1>3, <2>3 DEF MisoMoves, MisoChannel!vars
<1>4. CASE LWait
  <2>1. ss_n[slave] = 0 /\ ss_n' = ss_n /\ sclk' = sclk
    BY <1>4, WaitKeeps
  <2>2. anySelected /\ anySelected' /\ ~Leading /\ ~Trailing
    BY <2>1, SelectedLine DEF TypeInv, anySelected, Leading, Trailing
  <2>3. devOut' = devOut /\ dSent' = dSent
    BY <1>4, <2>2 DEF LWait, Device, dev
  <2>4. UNCHANGED <<state, clk_toggles, cpha, continue, rx_buffer, mRcvd>>
    BY <1>4 DEF LWait, Wait, mode
  <2>5. QED
    BY <1>3, <2>3, <2>4
<1>5. CASE LHit \/ LHitReloads
  BY <1>5, HitsAre, MisoOpens, MisoGives, MisoTakes, MisoTrails, MisoCloses
<1>6. CASE LReset
  <2>1. state' = "ready" /\ dSent' = << >> /\ mRcvd' = << >>
    BY <1>6 DEF LReset, Reset
  <2>2. MisoInv'
    BY <2>1, EmptySeq DEF MisoInv, Late, Word
  <2>3. QED
    BY <2>1, <2>2 DEF MisoMoves, MisoChannel!Next, MisoChannel!Clear
<1>7. CASE UNCHANGED vars
  BY <1>3, <1>7 DEF vars, masterVars, control, mode, dev, logs
<1>8. QED
  BY <1>1, <1>2, <1>4, <1>5, <1>6, <1>7 DEF Next, Tick

(* The other way: every word the device begins to show and goes on to show *)
(* is the next one on rx_data when busy falls, bit for bit, in every mode  *)
(* and at every divider, single words and words run together.              *)
THEOREM MisoRefines == Spec => MisoDelivers
<1>1. LInit => MosiInv /\ MisoInv /\ MisoChannel!Init
  <2> SUFFICES ASSUME LInit PROVE MosiInv /\ MisoInv /\ MisoChannel!Init
    OBVIOUS
  <2>1. /\ state = "ready" /\ devIn = << >> /\ mSent = << >> /\ dRcvd = << >>
        /\ dSent = << >> /\ mRcvd = << >>
    BY DEF LInit, Init
  <2>2. MosiInv
    BY <2>1, EmptySeq DEF MosiInv, UnderWay
  <2>3. MisoInv
    BY <2>1, EmptySeq DEF MisoInv, Late
  <2>4. QED
    BY <2>1, <2>2, <2>3 DEF MisoChannel!Init
<1>2. QED
  BY <1>1, TypeInit, TypeStep, MosiStep, MisoStep, PTL
     DEF Spec, MisoDelivers, MisoChannel!Spec, MisoMoves
================================================================================
