-------------------------- MODULE TouchScreenProofs --------------------------
(***************************************************************************)
(* For every set of places, every width of the sequence number and every   *)
(* burst of samples shorter than one turn of it: the touch screen driver   *)
(* shows a pen that is down at a place of the present touch, keeps every   *)
(* transition of the pen in its flag until a callback has been told, and   *)
(* gives its caller a sample that was shown as a whole.                    *)
(***************************************************************************)
EXTENDS TouchScreen, TLAPS

USE PlacesAssumption, BurstAssumption

-----------------------------------------------------------------------------
(* The inductive invariant.                                                *)

\* Byte i of a sequence, i > 0, while the pen rests where it was put down.
Half(i) == [axis |-> IF i < 3 THEN "X" ELSE "Y", place |-> pen,
            half |-> IF i = 1 \/ i = 3 THEN "high" ELSE "low"]

\* The wire carries the command of the present phase, or none.
Stepped ==
  /\ spi # None => spi = Commands[sample_phase + 1]
  /\ rrdy => spi = None

\* Unless the pen has been lifted, each byte of the sequence is where the phase says:
\* the old ones in the machine, the last one in the receiver, the next in the converter.
Bytes ==
  pen # Up =>
    /\ \A i \in 1 .. sample_phase - 1 : rxdata_values[i] = Half(i)
    /\ spi # None /\ sample_phase > 0 => adc = Half(sample_phase)
    /\ rrdy /\ sample_phase > 0 => rxdata = Half(sample_phase)
    /\ rrdy /\ sample_phase < 4 => adc = Half(sample_phase + 1)

\* The pen is at a place of the present touch.
OnTrail == pen \in Places => pen \in trail

Shown == [n |-> sample_number, down |-> pen_down, x |-> x, y |-> y]

\* How many samples the caller's copy is behind: fewer than one turn of the number.
Behind == IF sample_number >= got.n THEN sample_number - got.n ELSE sample_number + Width - got.n

\* What the program has copied when it is not behind is the sample shown.
Copied ==
  pc \in {"down", "x", "y", "check"} =>
    /\ Behind <= published
    /\ Behind = 0 => /\ pc # "down" => got.down = pen_down
                     /\ pc \in {"y", "check"} => got.x = x
                     /\ pc = "check" => got.y = y

Witnessed == InGetPen => Shown \in during

Invariant ==
  TypeOK /\ FreshPosition /\ NoEventLost /\ Stepped /\ Bytes /\ OnTrail /\ Copied /\ Witnessed

-----------------------------------------------------------------------------
(* Facts about the operators.                                              *)

SampleType == [n : 0 .. Width - 1, down : BOOLEAN, x : Coordinates, y : Coordinates]

(* The commands of a sequence, one by one.                                 *)
LEMMA CommandsAre ==
  /\ Commands[1] = "X" /\ Commands[2] = "fill" /\ Commands[3] = "Y"
  /\ Commands[4] = "fill" /\ Commands[5] = "fill"
BY DEF Commands

(* The commands are bytes the wire can carry.                              *)
LEMMA CommandType ==
  ASSUME NEW i \in 1 .. 5
  PROVE  Commands[i] \in {"X", "Y", "fill"}
<1>1. i = 1 \/ i = 2 \/ i = 3 \/ i = 4 \/ i = 5
  OBVIOUS
<1>2. QED
  BY <1>1, CommandsAre

(* No place and no command is one of the values that stand for nothing.    *)
LEMMA Distinct == Up \notin Places /\ Up \notin Coordinates /\ "X" # None /\ "Y" # None /\ "fill" # None
BY DEF Up, None, Garbage, Coordinates

(* The next sample number, without a division.                             *)
LEMMA NextNumber ==
  ASSUME NEW n \in 0 .. Width - 1
  PROVE  /\ (n + 1) % Width = IF n = Width - 1 THEN 0 ELSE n + 1
         /\ (n + 1) % Width \in 0 .. Width - 1
<1>1. Width \in Nat /\ Width > 0
  OBVIOUS
<1>2. \A m \in Nat : m > 0 /\ n + 1 <= m => (n + 1) % m = IF n + 1 = m THEN 0 ELSE n + 1
  BY SMT
<1>3. QED
  BY <1>1, <1>2

(* A byte of a resting pen is a result of the converter.                   *)
LEMMA HalfType ==
  ASSUME NEW i \in 1 .. 4, pen \in Places
  PROVE  Half(i) \in Conversions
BY DEF Half, Conversions, Coordinates

(* The two halves of an axis make the place; every assembly makes a        *)
(* coordinate.                                                             *)
LEMMA Assembled ==
  /\ pen \in Places => /\ assemble_sample("X", Half(1), Half(2)) = pen
                       /\ assemble_sample("Y", Half(3), Half(4)) = pen
  /\ \A axis, second : \A first \in Conversions : assemble_sample(axis, first, second) \in Coordinates
<1>1. ASSUME pen \in Places
      PROVE  /\ assemble_sample("X", Half(1), Half(2)) = pen
             /\ assemble_sample("Y", Half(3), Half(4)) = pen
  <2>1. Half(1) = [axis |-> "X", place |-> pen, half |-> "high"]
    BY DEF Half
  <2>2. Half(2) = [axis |-> "X", place |-> pen, half |-> "low"]
    BY DEF Half
  <2>3. Half(3) = [axis |-> "Y", place |-> pen, half |-> "high"]
    BY DEF Half
  <2>4. Half(4) = [axis |-> "Y", place |-> pen, half |-> "low"]
    BY DEF Half
  <2>5. QED
    BY <2>1, <2>2, <2>3, <2>4 DEF assemble_sample
<1>2. ASSUME NEW axis, NEW second, NEW first \in Conversions
      PROVE  assemble_sample(axis, first, second) \in Coordinates
  BY <1>2 DEF assemble_sample, Conversions, Coordinates
<1>3. QED
  BY <1>1, <1>2

-----------------------------------------------------------------------------
(* A sample is published.                                                  *)

\* The types of what a sample changes.
SampleTyped ==
  /\ pen_down \in BOOLEAN /\ pen_detect_counter \in 0 .. 2 /\ sample_number \in 0 .. Width - 1
  /\ x \in Coordinates /\ y \in Coordinates /\ flags \in [Kinds -> BOOLEAN]
  /\ published \in 0 .. Burst /\ during \subseteq SampleType
  /\ trail \subseteq Places /\ owed \in [{"up", "down"} -> BOOLEAN]

(* Publishing a sample keeps what is said of the sample, the flags and the *)
(* caller's copy, if the new position is one of the present touch.         *)
LEMMA PublishStep ==
  ASSUME TypeOK, FreshPosition, NoEventLost, Copied, NEW detect \in BOOLEAN,
         NEW newX \in Coordinates, NEW newY \in Coordinates,
         detect => newX \in trail /\ newY \in trail,
         Publish(detect, newX, newY)
  PROVE  SampleTyped' /\ FreshPosition' /\ NoEventLost' /\ Copied' /\ Witnessed'
<1>1. sample_number' = (IF sample_number = Width - 1 THEN 0 ELSE sample_number + 1)
      /\ sample_number' \in 0 .. Width - 1
  <2>1. sample_number \in 0 .. Width - 1 /\ sample_number' = (sample_number + 1) % Width
    BY DEF TypeOK, Publish
  <2>2. QED
    BY <2>1, NextNumber
<1>2. pen_detect_counter' \in 0 .. 2 /\ (pen_detect_counter' > 1 => detect)
  BY DEF TypeOK, Publish, Counted
<1>3. pen_down' \in BOOLEAN /\ (pen_down' => detect)
  <2>1. pen_down' = (pen_detect_counter' > 1)
    BY DEF Publish
  <2>2. pen_down' \in BOOLEAN
    BY <2>1
  <2>3. pen_down' => pen_detect_counter' > 1
    BY <2>1, Zenon
  <2>4. QED
    BY <1>2, <2>2, <2>3
<1>4. x' = newX /\ y' = newY /\ trail' = (IF detect THEN trail ELSE {}) /\ pc' = pc /\ got' = got
      /\ flags' = Raised(pen_down, pen_down')
  BY DEF Publish
<1>5. flags' \in [Kinds -> BOOLEAN]
      /\ flags'["up"] = (flags["up"] \/ (~pen_down' /\ pen_down))
      /\ flags'["down"] = (flags["down"] \/ (pen_down' /\ ~pen_down))
  <2>1. flags \in [Kinds -> BOOLEAN] /\ "up" \in Kinds /\ "down" \in Kinds /\ "move" \in Kinds
    BY DEF TypeOK, Kinds
  <2>2. flags' = [flags EXCEPT !["up"] = @ \/ (~pen_down' /\ pen_down),
                               !["down"] = @ \/ (pen_down' /\ ~pen_down),
                               !["move"] = @ \/ pen_down']
    BY <1>4 DEF Raised
  <2>3. QED
    BY <1>3, <2>1, <2>2 DEF TypeOK
<1>6. owed' \in [{"up", "down"} -> BOOLEAN]
      /\ owed'["up"] = (owed["up"] \/ (~pen_down' /\ pen_down))
      /\ owed'["down"] = (owed["down"] \/ (pen_down' /\ ~pen_down))
  <2>1. owed \in [{"up", "down"} -> BOOLEAN]
    BY DEF TypeOK
  <2>2. owed' = [owed EXCEPT !["up"] = @ \/ (~pen_down' /\ pen_down),
                             !["down"] = @ \/ (pen_down' /\ ~pen_down)]
    BY DEF Publish
  <2>3. QED
    BY <1>3, <2>1, <2>2
<1>7. published' \in 0 .. Burst /\ (InGetPen => published < Burst /\ published' = published + 1)
  BY DEF TypeOK, Publish
<1>8. Shown' \in SampleType
  BY <1>1, <1>3, <1>4 DEF Shown, SampleType
<1>9. during' = {s \in during \cup {Shown'} : InGetPen}
  BY DEF Publish, Shown
<1>10. SampleTyped'
  <2>1. during' \subseteq SampleType
    BY <1>8, <1>9 DEF TypeOK, SampleType
  <2>2. trail' \subseteq Places
    BY <1>4 DEF TypeOK
  <2>3. QED
    BY <1>1, <1>2, <1>3, <1>4, <1>5, <1>6, <1>7, <2>1, <2>2 DEF SampleTyped
<1>11. FreshPosition'
  BY <1>3, <1>4 DEF FreshPosition
<1>12. NoEventLost'
  BY <1>5, <1>6 DEF NoEventLost
<1>13. Copied'
  <2> SUFFICES ASSUME pc \in {"down", "x", "y", "check"}
               PROVE  Behind' <= published' /\ Behind' # 0
      BY <1>4 DEF Copied
  <2>1. InGetPen /\ Behind <= published /\ published < Burst /\ published \in Nat
    BY <1>7 DEF InGetPen, Copied, TypeOK
  <2>2. got.n \in 0 .. Width - 1 /\ sample_number \in 0 .. Width - 1
    BY DEF TypeOK
  <2>3. Behind' = Behind + 1 /\ Behind \in Nat
    BY <1>1, <1>4, <2>1, <2>2 DEF Behind
  <2>4. QED
    BY <1>7, <2>1, <2>3
<1>14. Witnessed'
  BY <1>4, <1>9 DEF Witnessed, InGetPen
<1>15. QED
  BY <1>10, <1>11, <1>12, <1>13, <1>14

-----------------------------------------------------------------------------
(* The pen, the converter and the bytes of a sequence.                     *)

\* The types of what moves a sequence on.
SequenceTyped ==
  /\ pen \in Places \cup {Up} /\ adc \in Conversions /\ spi \in {"X", "Y", "fill", None}
  /\ rrdy \in BOOLEAN /\ rxdata \in Conversions
  /\ sample_phase \in Phases /\ rxdata_values \in [Phases -> Conversions]

(* What is said of the sample, the flags and the caller does not depend on *)
(* the bytes under way; the places of a touch only become more.            *)
LEMMA SampleKept ==
  ASSUME Invariant, SequenceTyped', trail \subseteq trail', trail' \subseteq Places,
         UNCHANGED <<sample, flags, application, during, owed>>
  PROVE  TypeOK' /\ FreshPosition' /\ NoEventLost' /\ Copied' /\ Witnessed'
<1>1. UNCHANGED <<pen_down, pen_detect_counter, sample_number, x, y, flags, pc, got, published,
                  during, owed>>
  BY DEF sample, application
<1>2. TypeOK /\ FreshPosition /\ NoEventLost /\ Copied /\ Witnessed
  BY DEF Invariant
<1>3. TypeOK'
  BY <1>1, <1>2 DEF TypeOK, SequenceTyped
<1>4. FreshPosition' /\ NoEventLost'
  BY <1>1, <1>2 DEF FreshPosition, NoEventLost
<1>5. Copied' /\ Witnessed'
  BY <1>1, <1>2 DEF Copied, Witnessed, Behind, Shown, InGetPen
<1>6. QED
  BY <1>3, <1>4, <1>5

(* The pen is put down, moved and lifted: no byte is under way when it     *)
(* comes to another place.                                                 *)
LEMMA PenStep ==
  ASSUME Invariant, (\E p \in Places : Touch(p)) \/ Lift
  PROVE  Invariant'
<1>1. /\ SequenceTyped /\ trail \subseteq Places
      /\ UNCHANGED <<converter, machine, sample, flags, application, during, owed>>
  BY DEF Invariant, TypeOK, SequenceTyped, Touch, Lift, history
<1>2. UNCHANGED <<adc, spi, rrdy, rxdata, sample_phase, rxdata_values>>
  BY <1>1 DEF converter, machine
<1>3. CASE \E p \in Places : Touch(p)
  <2>1. PICK p \in Places : pen' = p /\ trail' = trail \cup {p} /\ ~InSequence
    BY <1>3 DEF Touch
  <2>2. SequenceTyped'
    BY <1>1, <1>2, <2>1 DEF SequenceTyped
  <2>3. Stepped' /\ Bytes'
    BY <1>2, <2>1 DEF InSequence, Stepped, Bytes, Invariant
  <2>4. OnTrail'
    BY <2>1 DEF OnTrail
  <2>5. QED
    BY <1>1, <2>1, <2>2, <2>3, <2>4, SampleKept DEF Invariant
<1>4. CASE Lift
  <2>1. pen' = Up /\ trail' = trail
    BY <1>4 DEF Lift, history
  <2>2. SequenceTyped'
    BY <1>1, <1>2, <2>1 DEF SequenceTyped
  <2>3. Stepped' /\ Bytes'
    BY <1>2, <2>1 DEF Stepped, Bytes, Invariant
  <2>4. OnTrail'
    BY <2>1, Distinct DEF OnTrail
  <2>5. QED
    BY <1>1, <2>1, <2>2, <2>3, <2>4, SampleKept DEF Invariant
<1>5. QED
  BY <1>3, <1>4

(* A byte has been exchanged: the receiver has what the converter held,    *)
(* and the converter the byte that follows it.                             *)
LEMMA ByteStep ==
  ASSUME Invariant, ByteDone
  PROVE  Invariant'
<1>1. /\ SequenceTyped /\ Stepped /\ Bytes /\ OnTrail
  BY DEF Invariant, TypeOK, SequenceTyped
<1>2. /\ spi # None /\ rrdy' = TRUE /\ rxdata' = adc /\ spi' = None /\ pen' = pen /\ trail' = trail
      /\ UNCHANGED <<sample_phase, rxdata_values, sample, flags, application, during, owed>>
  BY DEF ByteDone, machine, history
<1>3. sample_phase \in 0 .. 4 /\ spi = Commands[sample_phase + 1]
  BY <1>1, <1>2 DEF SequenceTyped, Stepped, Phases
<1>4. /\ spi = "X" <=> sample_phase = 0
      /\ spi = "Y" <=> sample_phase = 2
      /\ spi = "fill" <=> sample_phase \in {1, 3, 4}
  <2>1. /\ sample_phase = 0 \/ sample_phase = 1 \/ sample_phase = 2 \/ sample_phase = 3
           \/ sample_phase = 4
    BY <1>3
  <2>2. QED
    BY <1>3, <2>1, CommandsAre
<1>5. spi # "fill" => adc' = [axis |-> spi, half |-> "high",
                              place |-> IF pen = Up THEN Garbage ELSE pen]
  BY DEF ByteDone
<1>6. spi = "fill" => adc' = IF sample_phase < 4 THEN [adc EXCEPT !.half = "low"] ELSE Idle
  BY DEF ByteDone
<1>7. adc' \in Conversions
  <2>1. spi \in {"X", "Y", "fill"} /\ pen \in Places \cup {Up} /\ adc \in Conversions
    BY <1>1, <1>2 DEF SequenceTyped
  <2>2. CASE spi # "fill"
    BY <1>5, <2>1, <2>2 DEF Conversions, Coordinates
  <2>3. CASE spi = "fill"
    BY <1>6, <2>1, <2>3 DEF Conversions, Coordinates, Idle
  <2>4. QED
    BY <2>2, <2>3
<1>8. SequenceTyped'
  BY <1>1, <1>2, <1>7 DEF SequenceTyped
<1>9. Stepped'
  BY <1>2 DEF Stepped
<1>10. Bytes'
  <2> SUFFICES ASSUME pen # Up
               PROVE  /\ \A i \in 1 .. sample_phase - 1 : rxdata_values[i] = Half(i)
                      /\ sample_phase > 0 => adc = Half(sample_phase)
                      /\ sample_phase < 4 => adc' = Half(sample_phase + 1)
      BY <1>2 DEF Bytes, Half
  <2>1. /\ \A i \in 1 .. sample_phase - 1 : rxdata_values[i] = Half(i)
        /\ sample_phase > 0 => adc = Half(sample_phase)
    BY <1>1, <1>2 DEF Bytes
  <2>2. sample_phase = 0 => adc' = Half(sample_phase + 1)
    BY <1>4, <1>5 DEF Half
  <2>3. sample_phase = 1 => adc' = Half(sample_phase + 1)
    BY <1>4, <1>6, <2>1 DEF Half
  <2>4. sample_phase = 2 => adc' = Half(sample_phase + 1)
    BY <1>4, <1>5 DEF Half
  <2>5. sample_phase = 3 => adc' = Half(sample_phase + 1)
    BY <1>4, <1>6, <2>1 DEF Half
  <2>6. QED
    BY <1>3, <2>1, <2>2, <2>3, <2>4, <2>5
<1>11. OnTrail'
  BY <1>1, <1>2 DEF OnTrail
<1>12. TypeOK' /\ FreshPosition' /\ NoEventLost' /\ Copied' /\ Witnessed'
  <2>1. trail \subseteq Places
    BY DEF Invariant, TypeOK
  <2>2. QED
    BY <1>2, <1>8, <2>1, SampleKept
<1>13. QED
  BY <1>9, <1>10, <1>11, <1>12 DEF Invariant

(* The alarm starts a sequence.                                            *)
LEMMA StartStep ==
  ASSUME Invariant, AlarmStarts
  PROVE  Invariant'
<1>1. /\ SequenceTyped /\ Stepped /\ Bytes /\ OnTrail /\ trail \subseteq Places
  BY DEF Invariant, TypeOK, SequenceTyped
<1>2. /\ spi' = "X" /\ sample_phase = 0 /\ ~rrdy /\ trail' = trail
      /\ UNCHANGED <<pen, adc, rrdy, rxdata, sample_phase, rxdata_values, sample, flags,
                     application, during, owed>>
  BY CommandsAre DEF AlarmStarts, InSequence, machine, history
<1>3. SequenceTyped'
  BY <1>1, <1>2 DEF SequenceTyped
<1>4. Stepped'
  BY <1>2, CommandsAre DEF Stepped
<1>5. Bytes' /\ OnTrail'
  BY <1>1, <1>2 DEF Bytes, OnTrail
<1>6. QED
  BY <1>1, <1>2, <1>3, <1>4, <1>5, SampleKept DEF Invariant

(* The interrupt routine stores a byte and sends the next command.         *)
LEMMA SendStep ==
  ASSUME Invariant, SendNext
  PROVE  Invariant'
<1>1. /\ SequenceTyped /\ Stepped /\ Bytes /\ OnTrail /\ trail \subseteq Places
  BY DEF Invariant, TypeOK, SequenceTyped
<1>2. /\ rrdy /\ sample_phase < 4 /\ sample_phase' = sample_phase + 1
      /\ rxdata_values' = [rxdata_values EXCEPT ![sample_phase] = rxdata]
      /\ spi' = Commands[sample_phase + 2] /\ rrdy' = FALSE /\ rxdata' = Idle /\ trail' = trail
      /\ UNCHANGED <<pen, adc, sample, flags, application, during, owed>>
  BY DEF SendNext, history
<1>3. /\ sample_phase \in 0 .. 3 /\ sample_phase' \in 1 .. 4 /\ sample_phase + 2 \in 1 .. 5
      /\ sample_phase' + 1 = sample_phase + 2
  BY <1>1, <1>2 DEF SequenceTyped, Phases
<1>4. SequenceTyped'
  <2>1. spi' \in {"X", "Y", "fill"}
    BY <1>2, <1>3, CommandType
  <2>2. rxdata_values' \in [Phases -> Conversions] /\ rxdata' \in Conversions
    BY <1>1, <1>2 DEF SequenceTyped, Idle, Conversions, Coordinates
  <2>3. sample_phase' \in Phases
    BY <1>3 DEF Phases
  <2>4. rrdy' \in BOOLEAN /\ pen' = pen /\ adc' = adc
    BY <1>2
  <2>5. QED
    BY <1>1, <2>1, <2>2, <2>3, <2>4 DEF SequenceTyped
<1>5. Stepped'
  BY <1>2, <1>3 DEF Stepped
<1>6. Bytes'
  <2> SUFFICES ASSUME pen # Up
               PROVE  /\ \A i \in 1 .. sample_phase : rxdata_values'[i] = Half(i)
                      /\ adc = Half(sample_phase + 1)
    <3>1. sample_phase' - 1 = sample_phase /\ ~rrdy' /\ adc' = adc /\ pen' = pen
      BY <1>2, <1>3
    <3>2. \A i : Half(i)' = Half(i)
      BY <3>1 DEF Half
    <3>3. QED
      BY <1>2, <3>1, <3>2 DEF Bytes
  <2>1. /\ \A i \in 1 .. sample_phase - 1 : rxdata_values[i] = Half(i)
        /\ sample_phase > 0 => rxdata = Half(sample_phase)
        /\ adc = Half(sample_phase + 1)
    BY <1>1, <1>2 DEF Bytes
  <2>2. ASSUME NEW i \in 1 .. sample_phase PROVE rxdata_values'[i] = Half(i)
    <3>1. i \in Phases /\ sample_phase \in Phases /\ (i = sample_phase \/ i \in 1 .. sample_phase - 1)
      BY <1>3, <2>2 DEF Phases
    <3>2. rxdata_values'[i] = IF i = sample_phase THEN rxdata ELSE rxdata_values[i]
      BY <1>1, <1>2, <3>1 DEF SequenceTyped
    <3>3. QED
      BY <1>3, <2>1, <2>2, <3>1, <3>2
  <2>3. QED
    BY <2>1, <2>2
<1>7. OnTrail'
  BY <1>1, <1>2 DEF OnTrail
<1>8. QED
  BY <1>1, <1>2, <1>4, <1>5, <1>6, <1>7, SampleKept DEF Invariant

(* A pen that is up is seen by the alarm: the flags say it, the position   *)
(* stays.                                                                  *)
LEMMA PenUpStep ==
  ASSUME Invariant, AlarmSeesPenUp
  PROVE  Invariant'
<1>1. /\ TypeOK /\ FreshPosition /\ NoEventLost /\ Stepped /\ Bytes /\ OnTrail /\ Copied
      /\ x \in Coordinates /\ y \in Coordinates
  BY DEF Invariant, TypeOK
<1>2. /\ pen = Up /\ Publish(FALSE, x, y)
      /\ UNCHANGED <<pen, adc, spi, rrdy, rxdata, sample_phase, rxdata_values>>
  BY DEF AlarmSeesPenUp, converter, machine
<1>3. SampleTyped' /\ FreshPosition' /\ NoEventLost' /\ Copied' /\ Witnessed'
  BY <1>1, <1>2, PublishStep
<1>4. pc' = pc /\ got' = got
  BY <1>2 DEF Publish
<1>5. TypeOK'
  BY <1>1, <1>2, <1>3, <1>4 DEF TypeOK, SampleTyped, SampleType
<1>6. Stepped' /\ Bytes' /\ OnTrail'
  BY <1>1, <1>2, Distinct DEF Stepped, Bytes, OnTrail
<1>7. QED
  BY <1>3, <1>5, <1>6 DEF Invariant

(* The last byte of a sequence: the position is the place of the pen, or,  *)
(* if the pen has been lifted meanwhile, the old one.                      *)
LEMMA EndOfSequence ==
  ASSUME Invariant, EndSample
  PROVE  /\ Invariant'
         /\ (x' = x /\ y' = y) \/ (x' \in trail' /\ y' \in trail')
<1> DEFINE r == [rxdata_values EXCEPT ![4] = rxdata]
           newX == NewPosition(pen # Up, r[1], r[2], "X", x)
           newY == NewPosition(pen # Up, r[3], r[4], "Y", y)
<1>1. /\ TypeOK /\ FreshPosition /\ NoEventLost /\ Stepped /\ Bytes /\ OnTrail /\ Copied
      /\ SequenceTyped /\ x \in Coordinates /\ y \in Coordinates
  BY DEF Invariant, TypeOK, SequenceTyped
<1>2. /\ rrdy /\ sample_phase = 4 /\ sample_phase' = 0 /\ rrdy' = FALSE /\ rxdata' = Idle
      /\ rxdata_values' = [i \in Phases |-> Idle] /\ UNCHANGED <<pen, adc, spi>>
  BY DEF EndSample, sample_machine_reset
<1>3. Publish(pen # Up, newX, newY)
  BY DEF EndSample
<1>4. /\ r[1] = rxdata_values[1] /\ r[2] = rxdata_values[2] /\ r[3] = rxdata_values[3]
      /\ r[4] = rxdata /\ r \in [Phases -> Conversions]
  BY <1>1 DEF SequenceTyped, Phases
<1>5. pen # Up => newX = pen /\ newY = pen /\ pen \in trail
  <2> SUFFICES ASSUME pen # Up PROVE newX = pen /\ newY = pen /\ pen \in trail
      OBVIOUS
  <2>1. pen \in Places /\ pen \in trail
    BY <1>1 DEF SequenceTyped, OnTrail
  <2>2. \A i \in 1 .. sample_phase - 1 : rxdata_values[i] = Half(i)
    BY <1>1 DEF Bytes
  <2>3. rxdata = Half(4)
    BY <1>1, <1>2 DEF Bytes
  <2>4. r[1] = Half(1) /\ r[2] = Half(2) /\ r[3] = Half(3) /\ r[4] = Half(4)
    BY <1>2, <1>4, <2>2, <2>3
  <2>5. newX = assemble_sample("X", r[1], r[2]) /\ newY = assemble_sample("Y", r[3], r[4])
    BY DEF NewPosition
  <2>6. QED
    BY <2>1, <2>4, <2>5, Assembled
<1>6. pen = Up => newX = x /\ newY = y
  BY DEF NewPosition
<1>7. newX \in Coordinates /\ newY \in Coordinates
  BY <1>1, <1>5, <1>6 DEF SequenceTyped, Coordinates
<1> HIDE DEF r, newX, newY
<1>8. (pen # Up) \in BOOLEAN
  OBVIOUS
<1>9. SampleTyped' /\ FreshPosition' /\ NoEventLost' /\ Copied' /\ Witnessed'
  BY <1>1, <1>3, <1>5, <1>7, <1>8, PublishStep
<1>10. pc' = pc /\ got' = got /\ x' = newX /\ y' = newY /\ (pen # Up => trail' = trail)
  BY <1>3 DEF Publish
<1>11. SequenceTyped'
  <2>1. Idle \in Conversions /\ 0 \in Phases
    BY DEF Idle, Conversions, Coordinates, Phases
  <2>2. rxdata_values' \in [Phases -> Conversions] /\ rxdata' \in Conversions /\ rrdy' \in BOOLEAN
    BY <1>2, <2>1
  <2>3. QED
    BY <1>1, <1>2, <2>1, <2>2 DEF SequenceTyped
<1>12. TypeOK'
  BY <1>1, <1>9, <1>10, <1>11 DEF TypeOK, SampleTyped, SampleType, SequenceTyped
<1>13. Stepped'
  BY <1>1, <1>2 DEF Stepped
<1>14. Bytes'
  BY <1>1, <1>2 DEF Bytes, Stepped
<1>15. OnTrail'
  BY <1>1, <1>2, <1>10, Distinct DEF OnTrail
<1>16. (x' = x /\ y' = y) \/ (x' \in trail' /\ y' \in trail')
  BY <1>5, <1>6, <1>10
<1>17. QED
  BY <1>9, <1>12, <1>13, <1>14, <1>15, <1>16 DEF Invariant

-----------------------------------------------------------------------------
(* The application.                                                        *)

(* What the interrupt level has set is untouched by the application.       *)
LEMMA ApplicationLeaves ==
  ASSUME Invariant, UNCHANGED <<pen, converter, machine, sample, trail>>
  PROVE  SequenceTyped' /\ FreshPosition' /\ Stepped' /\ Bytes' /\ OnTrail' /\ Shown' = Shown
<1>1. UNCHANGED <<pen, adc, spi, rrdy, rxdata, sample_phase, rxdata_values, pen_down,
                  sample_number, x, y, trail>>
  BY DEF converter, machine, sample
<1>2. SequenceTyped /\ FreshPosition /\ Stepped /\ Bytes /\ OnTrail
  BY DEF Invariant, TypeOK, SequenceTyped
<1>3. \A i : Half(i)' = Half(i)
  BY <1>1 DEF Half
<1>4. SequenceTyped' /\ FreshPosition' /\ Stepped' /\ OnTrail' /\ Shown' = Shown
  BY <1>1, <1>2 DEF SequenceTyped, FreshPosition, Stepped, OnTrail, Shown
<1>5. Bytes'
  BY <1>1, <1>2, <1>3 DEF Bytes
<1>6. QED
  BY <1>4, <1>5

\* The types of what the application changes.
CallTyped ==
  /\ flags \in [Kinds -> BOOLEAN] /\ published \in 0 .. Burst
  /\ pc \in {"idle", "number", "down", "x", "y", "check"}
       \cup {"test_up", "test_down", "test_move", "clear_up", "clear_down", "clear_move"}
  /\ got \in SampleType /\ during \subseteq SampleType
  /\ owed \in [{"up", "down"} -> BOOLEAN]

(* A step of alt_touchscreen_get_pen: a copy whose sequence number is the  *)
(* present one was a whole sample of the call.                             *)
LEMMA GetPenStep ==
  ASSUME Invariant, CallGetPen \/ GetPen, UNCHANGED <<flags, sample>>
  PROVE  /\ CallTyped' /\ NoEventLost' /\ Copied' /\ (InGetPen' => Shown \in during')
         /\ pc = "check" /\ pc' # "number" => got \in during
<1>1. /\ CallTyped /\ NoEventLost /\ Copied /\ Witnessed /\ Shown \in SampleType
      /\ sample_number \in 0 .. Width - 1 /\ pen_down \in BOOLEAN
      /\ x \in Coordinates /\ y \in Coordinates
  BY DEF Invariant, TypeOK, CallTyped, Shown, SampleType
<1>2. UNCHANGED <<flags, owed, trail, pen_down, sample_number, x, y>>
  BY DEF CallGetPen, GetPen, sample
<1>3. NoEventLost'
  BY <1>1, <1>2 DEF NoEventLost
<1>4. pc = "check" /\ pc' # "number" => got \in during
  <2> SUFFICES ASSUME pc = "check", pc' # "number" PROVE got \in during
      OBVIOUS
  <2>1. got.n = sample_number
    BY DEF CallGetPen, GetPen, At, ReadNumber, ReadDown, ReadX, ReadY, CheckNumber
  <2>2. Behind = 0
    BY <1>1, <2>1 DEF Behind
  <2>3. got.down = pen_down /\ got.x = x /\ got.y = y
    BY <1>1, <2>2 DEF Copied
  <2>4. got = Shown
    BY <1>1, <2>1, <2>3 DEF CallTyped, SampleType, Shown
  <2>5. QED
    BY <1>1, <2>4 DEF Witnessed, InGetPen
<1>5. CASE CallGetPen
  <2>1. /\ pc' = "number" /\ published' = 0 /\ during' = {Shown} /\ got' = got
    BY <1>5 DEF CallGetPen, At, Shown
  <2>2. CallTyped'
    BY <1>1, <1>2, <2>1 DEF CallTyped
  <2>3. QED
    BY <1>3, <1>4, <2>1, <2>2 DEF Copied
<1>6. CASE GetPen
  <2>1. /\ during' = (IF pc' = "test_up" THEN {} ELSE during)
        /\ published' = (IF pc' = "test_up" THEN 0 ELSE published)
    BY <1>6 DEF GetPen
  <2>2. /\ InGetPen /\ pc' \in {"number", "down", "x", "y", "check", "test_up"}
        /\ got' \in SampleType
    BY <1>1, <1>6 DEF GetPen, InGetPen, At, ReadNumber, ReadDown, ReadX, ReadY, CheckNumber,
                      Nothing, CallTyped, SampleType, Coordinates
  <2>3. CallTyped'
    <3>1. published' \in 0 .. Burst /\ during' \subseteq SampleType
      BY <1>1, <2>1 DEF CallTyped
    <3>2. QED
      BY <1>1, <1>2, <2>2, <3>1 DEF CallTyped
  <2>4. InGetPen' => Shown \in during'
    BY <1>1, <2>1, <2>2 DEF InGetPen, Witnessed
  <2>5. Copied'
    <3>1. CASE ReadNumber
      <4>1. pc' = "down" /\ got' = [got EXCEPT !.n = sample_number]
        BY <3>1 DEF ReadNumber, At
      <4>2. got'.n = sample_number
        BY <1>1, <4>1 DEF CallTyped, SampleType
      <4>3. Behind' = 0 /\ published' \in 0 .. Burst
        BY <1>1, <1>2, <2>3, <4>2 DEF Behind, CallTyped
      <4>4. QED
        BY <4>1, <4>3 DEF Copied
    <3>2. CASE ReadDown
      <4>1. pc = "down" /\ pc' = "x" /\ got' = [got EXCEPT !.down = pen_down] /\ published' = published
        BY <2>1, <3>2 DEF ReadDown, At
      <4>2. got'.n = got.n /\ got'.down = pen_down
        BY <1>1, <4>1 DEF CallTyped, SampleType
      <4>3. QED
        BY <1>1, <1>2, <4>1, <4>2 DEF Copied, Behind
    <3>3. CASE ReadX
      <4>1. pc = "x" /\ pc' = "y" /\ got' = [got EXCEPT !.x = x] /\ published' = published
        BY <2>1, <3>3 DEF ReadX, At
      <4>2. got'.n = got.n /\ got'.down = got.down /\ got'.x = x
        BY <1>1, <4>1 DEF CallTyped, SampleType
      <4>3. QED
        BY <1>1, <1>2, <4>1, <4>2 DEF Copied, Behind
    <3>4. CASE ReadY
      <4>1. pc = "y" /\ pc' = "check" /\ got' = [got EXCEPT !.y = y] /\ published' = published
        BY <2>1, <3>4 DEF ReadY, At
      <4>2. got'.n = got.n /\ got'.down = got.down /\ got'.x = got.x /\ got'.y = y
        BY <1>1, <4>1 DEF CallTyped, SampleType
      <4>3. QED
        BY <1>1, <1>2, <4>1, <4>2 DEF Copied, Behind
    <3>5. CASE CheckNumber
      BY <3>5 DEF CheckNumber, Copied
    <3>6. QED
      BY <1>6, <3>1, <3>2, <3>3, <3>4, <3>5 DEF GetPen
  <2>6. QED
    BY <1>3, <1>4, <2>3, <2>4, <2>5
<1>7. QED
  BY <1>5, <1>6

(* A test of a flag moves on only; the flag that is cleared is that of the *)
(* transition its callback has just told.                                  *)
LEMMA DispatchStep ==
  ASSUME Invariant, Dispatch
  PROVE  /\ CallTyped' /\ NoEventLost' /\ ~InGetPen' /\ pc # "check"
         /\ pc' \notin {"down", "x", "y", "check"} /\ trail' = trail
<1>1. CallTyped /\ NoEventLost
  BY DEF Invariant, TypeOK, CallTyped, SampleType
<1>2. CASE \/ TestFlag("up", "test_up", "clear_up", "test_down")
           \/ TestFlag("down", "test_down", "clear_down", "test_move")
           \/ TestFlag("move", "test_move", "clear_move", "idle")
  <2>1. UNCHANGED <<flags, got, published, during, trail, owed>>
    BY <1>2 DEF TestFlag, history
  <2>2. /\ pc \in {"test_up", "test_down", "test_move"}
        /\ pc' \in {"clear_up", "test_down", "clear_down", "test_move", "clear_move", "idle"}
    BY <1>2 DEF TestFlag
  <2>3. QED
    BY <1>1, <2>1, <2>2 DEF CallTyped, NoEventLost, InGetPen
<1>3. ASSUME NEW kind \in Kinds, NEW clear \in {"clear_up", "clear_down", "clear_move"},
             NEW next \in {"test_down", "test_move", "idle"}, CallBack(kind, clear, next)
      PROVE  /\ CallTyped' /\ NoEventLost' /\ pc = clear /\ pc' = next /\ trail' = trail
  <2>1. /\ pc = clear /\ pc' = next /\ flags' = [flags EXCEPT ![kind] = FALSE]
        /\ owed' = [k \in {"up", "down"} |-> owed[k] /\ k # kind]
        /\ UNCHANGED <<got, published, during, trail>>
    BY <1>3 DEF CallBack, At
  <2>2. CallTyped'
    <3>1. flags' \in [Kinds -> BOOLEAN]
      BY <1>1, <2>1 DEF CallTyped
    <3>2. owed' \in [{"up", "down"} -> BOOLEAN]
      BY <1>1, <2>1 DEF CallTyped
    <3>3. QED
      BY <1>1, <2>1, <3>1, <3>2 DEF CallTyped
  <2>3. NoEventLost'
    <3> SUFFICES ASSUME NEW k \in {"up", "down"}, owed'[k] PROVE flags'[k]
        BY DEF NoEventLost
    <3>1. owed[k] /\ k # kind
      BY <2>1
    <3>2. flags[k] /\ k \in Kinds
      BY <1>1, <3>1 DEF NoEventLost, Kinds
    <3>3. QED
      BY <1>1, <2>1, <3>1, <3>2 DEF CallTyped
  <2>4. QED
    BY <2>1, <2>2, <2>3
<1>4. CASE \/ CallBack("up", "clear_up", "test_down")
           \/ CallBack("down", "clear_down", "test_move")
           \/ CallBack("move", "clear_move", "idle")
  BY <1>3, <1>4 DEF Kinds, InGetPen
<1>5. QED
  BY <1>2, <1>4 DEF Dispatch

(* A step of the application keeps the invariant, and gives its caller     *)
(* only a sample that was shown as a whole.                                *)
LEMMA ApplicationStep ==
  ASSUME Invariant, Application
  PROVE  /\ Invariant' /\ UNCHANGED <<x, y>>
         /\ pc = "check" /\ pc' # "number" => got \in during
<1>1. UNCHANGED <<pen, converter, machine, sample, pen_detect_counter, x, y>>
  BY DEF Application, sample
<1>2. trail' = trail
  BY DispatchStep DEF Application, CallGetPen, GetPen
<1>3. SequenceTyped' /\ FreshPosition' /\ Stepped' /\ Bytes' /\ OnTrail' /\ Shown' = Shown
  BY <1>1, <1>2, ApplicationLeaves
<1>4. /\ CallTyped' /\ NoEventLost' /\ Copied' /\ Witnessed'
      /\ pc = "check" /\ pc' # "number" => got \in during
  <2>1. CASE (CallGetPen \/ GetPen) /\ UNCHANGED flags
    BY <1>1, <1>3, <2>1, GetPenStep DEF Witnessed
  <2>2. CASE Dispatch
    BY <2>2, DispatchStep DEF Witnessed, Copied
  <2>3. QED
    BY <2>1, <2>2 DEF Application
<1>5. TypeOK'
  <2>1. /\ pen_down \in BOOLEAN /\ pen_detect_counter \in 0 .. 2
        /\ sample_number \in 0 .. Width - 1 /\ x \in Coordinates /\ y \in Coordinates
        /\ trail \subseteq Places
    BY DEF Invariant, TypeOK
  <2>2. UNCHANGED <<pen_down, pen_detect_counter, sample_number, x, y, trail>>
    BY <1>1, <1>2 DEF sample
  <2>3. QED
    BY <1>3, <1>4, <2>1, <2>2 DEF TypeOK, SequenceTyped, CallTyped, SampleType
<1>6. QED
  BY <1>1, <1>3, <1>4, <1>5 DEF Invariant

-----------------------------------------------------------------------------
(* The theorems.                                                           *)

(* The initial states satisfy the invariant.                               *)
LEMMA InitHolds == Init => Invariant
<1> SUFFICES ASSUME Init PROVE Invariant
    OBVIOUS
<1>1. TypeOK
  <2>1. Idle \in Conversions /\ Garbage \in Coordinates /\ 0 \in Phases
    BY DEF Idle, Conversions, Coordinates, Phases
  <2>2. /\ rxdata_values \in [Phases -> Conversions] /\ flags \in [Kinds -> BOOLEAN]
        /\ owed \in [{"up", "down"} -> BOOLEAN]
    BY <2>1 DEF Init
  <2>3. /\ pen \in Places \cup {Up} /\ adc \in Conversions /\ spi = None /\ rxdata \in Conversions
        /\ sample_phase \in Phases /\ pen_detect_counter = 0 /\ sample_number \in 0 .. Width - 1
        /\ x \in Coordinates /\ y \in Coordinates /\ published \in 0 .. Burst
        /\ pc = "idle" /\ during = {} /\ trail \subseteq Places
    BY <2>1 DEF Init
  <2>4. pen_down \in BOOLEAN /\ rrdy \in BOOLEAN
    BY DEF Init
  <2>5. got \in SampleType
    BY <2>1 DEF Init, Nothing, SampleType
  <2>6. QED
    BY <2>2, <2>3, <2>4, <2>5 DEF TypeOK, SampleType
<1>2. FreshPosition /\ Stepped /\ OnTrail
  BY DEF Init, FreshPosition, Stepped, OnTrail
<1>3. NoEventLost
  BY DEF Init, NoEventLost
<1>4. Bytes
  BY DEF Init, Bytes
<1>5. Copied /\ Witnessed
  BY DEF Init, Copied, Witnessed, InGetPen
<1>6. QED
  BY <1>1, <1>2, <1>3, <1>4, <1>5 DEF Invariant

(* A step keeps the invariant; what it changes of the position and what it *)
(* ends of a call is as the action properties say.                         *)
LEMMA NextStep ==
  ASSUME Invariant, [Next]_vars
  PROVE  /\ Invariant'
         /\ (x' = x /\ y' = y) \/ (x' \in trail' /\ y' \in trail')
         /\ pc = "check" /\ pc' # "number" /\ pc' # pc => got \in during
<1>1. CASE \/ (\E p \in Places : Touch(p)) \/ Lift
           \/ ByteDone \/ AlarmStarts \/ SendNext
  <2>1. UNCHANGED <<sample, application>>
    BY <1>1 DEF Touch, Lift, ByteDone, AlarmStarts, SendNext
  <2>2. x' = x /\ y' = y /\ pc' = pc
    BY <2>1 DEF sample, application
  <2>3. Invariant'
    BY <1>1, PenStep, ByteStep, StartStep, SendStep
  <2>4. QED
    BY <2>2, <2>3
<1>2. CASE AlarmSeesPenUp
  <2>1. x' = x /\ y' = y /\ pc' = pc
    BY <1>2 DEF AlarmSeesPenUp, Publish
  <2>2. Invariant'
    BY <1>2, PenUpStep
  <2>3. QED
    BY <2>1, <2>2
<1>3. CASE EndSample
  <2>1. pc' = pc
    BY <1>3 DEF EndSample, Publish
  <2>2. Invariant' /\ ((x' = x /\ y' = y) \/ (x' \in trail' /\ y' \in trail'))
    BY <1>3, EndOfSequence
  <2>3. QED
    BY <2>1, <2>2
<1>4. CASE Application
  BY <1>4, ApplicationStep
<1>5. CASE AlarmBusy \/ UNCHANGED vars
  <2>1. UNCHANGED vars
    BY <1>5 DEF AlarmBusy
  <2>2. UNCHANGED <<pen, converter, machine, sample, flags, application, history>>
    BY <2>1 DEF vars
  <2>3. UNCHANGED <<pc, got, during, trail, owed, x, y>>
    BY <2>2 DEF sample, application, history
  <2>4. SequenceTyped' /\ Stepped' /\ Bytes' /\ OnTrail'
    BY <2>2, <2>3, ApplicationLeaves
  <2>5. trail \subseteq trail' /\ trail' \subseteq Places
    BY <2>3 DEF Invariant, TypeOK
  <2>6. TypeOK' /\ FreshPosition' /\ NoEventLost' /\ Copied' /\ Witnessed'
    BY <2>2, <2>3, <2>4, <2>5, SampleKept
  <2>7. Invariant'
    BY <2>4, <2>6 DEF Invariant
  <2>8. QED
    BY <2>3, <2>7
<1>6. QED
  BY <1>1, <1>2, <1>3, <1>4, <1>5 DEF Next, Alarm, SpiIsr

(* The invariant holds in every reachable state.                           *)
THEOREM Inductive == Spec => []Invariant
<1>1. Invariant /\ [Next]_vars => Invariant'
  BY NextStep
<1>2. QED
  BY InitHolds, <1>1, PTL DEF Spec

(* The types; a pen reported down is reported where it has touched since   *)
(* it was last seen up; a transition not yet told is still in its flag.    *)
THEOREM StateCorrect == Spec => []StateOK
<1>1. Invariant => StateOK
  BY DEF Invariant, StateOK
<1>2. QED
  BY Inductive, <1>1, PTL

(* What alt_touchscreen_get_pen returns was shown as a whole at some       *)
(* instant of the call, and the position shown changes only to a place of  *)
(* the present touch.                                                      *)
THEOREM SamplesTrue == Spec => SampleTrue
<1>1. Invariant /\ [Next]_vars => [pc = "check" /\ pc' # "number" => got \in during]_pc
  BY NextStep
<1>2. Invariant /\ [Next]_vars => [x' \in trail' /\ y' \in trail']_<<x, y>>
  BY NextStep
<1>3. QED
  BY Inductive, <1>1, <1>2, PTL DEF Spec, SampleTrue, CoherentSample, LastPlaceKept
=============================================================================
