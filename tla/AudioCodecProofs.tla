-------------------------- MODULE AudioCodecProofs --------------------------
(***************************************************************************)
(* For every size of the ring, the safety buffer, the controller's FIFO    *)
(* and the frames, on any processor: the driver of the audio controller    *)
(* keeps its types, never overfills the FIFO, moves the samples in order   *)
(* as long as it moves samples at all, and leaves at most one frame        *)
(* asleep with the interrupt disabled.                                     *)
(***************************************************************************)
EXTENDS AudioCodec, SequenceTheorems, TLAPS

USE DepthAssumption, MarginAssumption, FifoAssumption, FrameAssumption

-----------------------------------------------------------------------------
(* Arithmetic of the ring, without a division.                             *)

Wrap(a) == IF a < Depth - 1 THEN a ELSE a - (Depth - 1)
Dist(i, o) == IF i >= o THEN i - o ELSE i + (Depth - 1) - o

(* The remainder of a sum below two laps.                                  *)
LEMMA WrapIs ==
  ASSUME NEW a \in Nat, a < 2 * (Depth - 1)
  PROVE  a % (Depth - 1) = Wrap(a) /\ Wrap(a) \in Slots
<1>1. Depth - 1 \in Nat /\ Depth - 1 > 0
  OBVIOUS
<1>2. \A m \in Nat : m > 0 /\ a < 2 * m => a % m = IF a < m THEN a ELSE a - m
  BY SMT
<1>3. QED
  BY <1>1, <1>2 DEF Wrap, Slots

(* The successor of a slot is a slot.                                      *)
LEMMA SuccIs ==
  ASSUME NEW i \in Slots
  PROVE  Succ(i) = Wrap(i + 1) /\ Succ(i) \in Slots
<1>1. i + 1 \in Nat /\ i + 1 < 2 * (Depth - 1)
  BY DEF Slots
<1>2. QED
  BY <1>1, WrapIs DEF Succ

(* The distance of two slots is less than a lap, and zero when they meet.  *)
LEMMA DistIs ==
  ASSUME NEW i \in Slots, NEW o \in Slots
  PROVE  Dist(i, o) \in 0 .. Depth - 2 /\ (Dist(i, o) = 0 <=> i = o)
BY DEF Dist, Slots

(* Moving the end of a stretch lengthens it, as long as a slot stays free. *)
LEMMA Lengthened ==
  ASSUME NEW i \in Slots, NEW o \in Slots, Dist(i, o) < Depth - 2
  PROVE  Dist(Succ(i), o) = Dist(i, o) + 1
BY SuccIs DEF Dist, Slots, Wrap

(* Moving the start of a stretch that is not empty shortens it.            *)
LEMMA Shortened ==
  ASSUME NEW i \in Slots, NEW o \in Slots, Dist(i, o) > 0
  PROVE  Dist(i, Succ(o)) = Dist(i, o) - 1
BY SuccIs DEF Dist, Slots, Wrap

-----------------------------------------------------------------------------
(* The inductive invariant.                                                *)

\* A frame that is being written is one of those the player hands over, or the
\* rest of one; the routine never has more to write than the FIFO has room for.
Counts ==
  /\ main # "idle" => frame > 0
  /\ \E n \in FrameLens : frame <= n
  /\ fifo <= FifoDepth
  /\ isr = "move" => fifo + samples_to_write <= FifoDepth

\* Where the stored samples end: a sample is stored before the index moves.
End == IF main = "advance" THEN Succ(write_index) ELSE write_index

\* The samples stored and not yet moved are those between the indices.
Placed ==
  ~overdrawn =>
    /\ Len(unplayed) = Dist(End, read_index)
    /\ \A i \in 1 .. Len(unplayed) : buffer[Wrap(read_index + (i - 1))] = unplayed[i]

\* What write_samples knows of the ring, though the routine may have run since it
\* looked: compared with the write index ahead, the read index has not passed it;
\* a frame found to fit still fits, with one slot left free.
Room ==
  ~overdrawn =>
    /\ main = "space" /\ ~wrapped => read_index <= write_index
    /\ main \in {"read", "write"} /\ space > frame => Len(unplayed) + frame <= Depth - 2
    /\ main = "store" => Len(unplayed) + frame <= Depth - 2
    /\ main = "advance" => Len(unplayed) + frame <= Depth - 1

\* The interrupt is disabled by a routine that found the indices equal; what was
\* stored since is part of the frame under way.
ToStore == CASE main = "store" -> frame [] main = "advance" -> frame - 1 [] OTHER -> 0
Sleeps ==
  /\ overdrawn => unplayed = << >>
  /\ isr = "disable" => Len(unplayed) <= IF main = "advance" THEN 1 ELSE 0
  /\ ~control.enable => \E n \in FrameLens : Len(unplayed) + ToStore <= n

Invariant == TypeOK /\ Counts /\ Placed /\ Room /\ Sleeps

(* The controller changes the request bit of a value of the register only. *)
LEMMA LatchedIs ==
  ASSUME NEW c \in [enable : BOOLEAN, irq : BOOLEAN], NEW n \in Nat
  PROVE  /\ Latched(c, n) \in [enable : BOOLEAN, irq : BOOLEAN]
         /\ Latched(c, n).enable = c.enable
BY DEF Latched

(* Every step keeps the types, and the counts that keep them.              *)
LEMMA TypeStep ==
  ASSUME TypeOK, Counts, [Next]_vars
  PROVE  TypeOK' /\ Counts'
<1> USE DEF TypeOK, Counts
<1>1. CASE CallWrite
  BY <1>1 DEF CallWrite, MainAt, ring, isrVars, time, history
<1>2. CASE CompareIndices
  BY <1>2 DEF CompareIndices, MainAt, ring, isrVars, time, history
<1>3. CASE ComputeSpace
  BY <1>3 DEF ComputeSpace, MainAt, ring, isrVars, time, history, FreeSpace, Slots
<1>4. CASE ReadControl
  BY <1>4 DEF ReadControl, MainAt, ring, isrVars, time, history
<1>5. CASE EnableInterrupts
  <2>1. [copy EXCEPT !.enable = TRUE] \in [enable : BOOLEAN, irq : BOOLEAN] /\ fifo \in Nat
    OBVIOUS
  <2>2. control' \in [enable : BOOLEAN, irq : BOOLEAN]
    BY <1>5, <2>1, LatchedIs DEF EnableInterrupts
  <2>3. QED
    BY <1>5, <2>2 DEF EnableInterrupts, MainAt, ring, isrVars, time, history
<1>6. CASE StoreSample
  <2>1. next \in Samples /\ next' \in Samples
    BY <1>6 DEF StoreSample, Samples
  <2>2. unplayed' \in Seq(Samples)
    BY <1>6, <2>1 DEF StoreSample
  <2>3. buffer' \in [Slots -> Samples \cup {-1}]
    BY <1>6, <2>1 DEF StoreSample
  <2>4. QED
    BY <1>6, <2>1, <2>2, <2>3 DEF StoreSample, MainAt, isrVars, time
<1>7. CASE AdvanceWrite
  BY <1>7, SuccIs DEF AdvanceWrite, MainAt, isrVars, history
<1>8. CASE Enter
  BY <1>8 DEF Enter, ring, mainVars, time, history, ToWrite, SamplesInBuffer, Slots
<1>9. CASE MoveSample
  <2>1. fifo + 1 \in Nat /\ control \in [enable : BOOLEAN, irq : BOOLEAN]
    OBVIOUS
  <2>2. control' \in [enable : BOOLEAN, irq : BOOLEAN]
    BY <1>9, <2>1, LatchedIs DEF MoveSample
  <2>3. unplayed' \in Seq(Samples)
    BY <1>9, HeadTailProperties, EmptySeq DEF MoveSample
  <2>4. read_index' \in Slots
    BY <1>9, SuccIs DEF MoveSample
  <2>5. samples_to_write' \in Nat /\ fifo' \in Nat /\ fifo' + samples_to_write' <= FifoDepth
    BY <1>9 DEF MoveSample
  <2>6. QED
    BY <1>9, <2>2, <2>3, <2>4, <2>5 DEF MoveSample, mainVars, time
<1>10. CASE EndOfMove
  BY <1>10 DEF EndOfMove, ring, mainVars, time, history
<1>11. CASE DisableInterrupts
  BY <1>11 DEF DisableInterrupts, ring, mainVars, time, history
<1>12. CASE ClearIrq
  <2>1. [control EXCEPT !.irq = FALSE] \in [enable : BOOLEAN, irq : BOOLEAN] /\ fifo \in Nat
    OBVIOUS
  <2>2. control' \in [enable : BOOLEAN, irq : BOOLEAN]
    BY <1>12, <2>1, LatchedIs DEF ClearIrq
  <2>3. QED
    BY <1>12, <2>2 DEF ClearIrq, ring, mainVars, isrVars, time, history
<1>13. CASE Return
  BY <1>13 DEF Return, ring, mainVars, history
<1>14. CASE Play
  <2>1. fifo - 1 \in Nat /\ control \in [enable : BOOLEAN, irq : BOOLEAN]
    BY <1>14 DEF Play
  <2>2. control' \in [enable : BOOLEAN, irq : BOOLEAN]
    BY <1>14, <2>1, LatchedIs DEF Play
  <2>3. QED
    BY <1>14, <2>1, <2>2 DEF Play, ring, mainVars, isrVars, history
<1>15. CASE UNCHANGED vars
  BY <1>15 DEF vars, ring, mainVars, isrVars, time, history
<1>16. QED
  BY <1>1, <1>2, <1>3, <1>4, <1>5, <1>6, <1>7, <1>8, <1>9, <1>10, <1>11, <1>12, <1>13, <1>14,
     <1>15 DEF Next, Main, Isr

-----------------------------------------------------------------------------
(* The order of the samples.                                               *)

(* A slot counted from the start of a stretch is its end just when all of  *)
(* the stretch has been counted.                                           *)
LEMMA Reached ==
  ASSUME NEW i \in Slots, NEW o \in Slots, NEW k \in 0 .. Dist(i, o)
  PROVE  Wrap(o + k) \in Slots /\ (Wrap(o + k) = i <=> k = Dist(i, o))
BY DEF Wrap, Dist, Slots

(* Counting from the next slot on is counting one more.                    *)
LEMMA FromNext ==
  ASSUME NEW o \in Slots, NEW k \in Nat, k < Depth - 2
  PROVE  Wrap(Succ(o) + k) = Wrap(o + (k + 1))
BY SuccIs DEF Wrap, Slots

(* A frame found to fit leaves a slot free behind it, although the read    *)
(* index may have moved between the comparison and its second reading.     *)
LEMMA SpaceIsFree ==
  ASSUME TypeOK, Placed, Room, main = "space", ~overdrawn, frame \in Nat \ {0}, FreeSpace > frame
  PROVE  Len(unplayed) + frame <= Depth - 2
<1>1. /\ write_index \in Slots /\ read_index \in Slots /\ wrapped \in BOOLEAN
      /\ Len(unplayed) = Dist(write_index, read_index)
      /\ ~wrapped => read_index <= write_index
  BY DEF TypeOK, Placed, Room, End
<1>2. QED
  BY <1>1 DEF FreeSpace, Dist, Slots

(* The program stores a sample at the end of the others.                   *)
LEMMA StoreKeepsOrder ==
  ASSUME TypeOK, Counts, Placed, Room, StoreSample
  PROVE  Placed' /\ Room'
<1> SUFFICES ASSUME ~overdrawn' PROVE Placed' /\ Room'
    BY DEF Placed, Room
<1> DEFINE l == Len(unplayed)
<1>1. /\ main = "store" /\ main' = "advance" /\ ~overdrawn /\ frame' = frame
      /\ buffer' = [buffer EXCEPT ![write_index] = next]
      /\ unplayed' = Append(unplayed, next)
      /\ read_index' = read_index /\ write_index' = write_index
  BY DEF StoreSample, MainAt
<1>2. /\ read_index \in Slots /\ write_index \in Slots /\ frame \in Nat /\ frame > 0
      /\ unplayed \in Seq(Samples) /\ next \in Samples
      /\ buffer \in [Slots -> Samples \cup {-1}]
  BY <1>1 DEF TypeOK, Counts
<1>3. l \in Nat /\ l = Dist(write_index, read_index) /\ l + frame <= Depth - 2
  BY <1>1, <1>2, LenProperties DEF Placed, Room, End
<1>4. \A i \in 1 .. l : buffer[Wrap(read_index + (i - 1))] = unplayed[i]
  BY <1>1 DEF Placed
<1>5. Len(unplayed') = l + 1 /\ unplayed'[l + 1] = next /\ \A i \in 1 .. l : unplayed'[i] = unplayed[i]
  BY <1>1, <1>2, AppendProperties
<1>6. Len(unplayed') = Dist(End', read_index')
  <2>1. End' = Succ(write_index)
    BY <1>1 DEF End, Succ
  <2>2. Dist(Succ(write_index), read_index) = Dist(write_index, read_index) + 1
    BY <1>2, <1>3, Lengthened
  <2>3. QED
    BY <1>1, <1>3, <1>5, <2>1, <2>2
<1>7. \A i \in 1 .. l + 1 : buffer'[Wrap(read_index' + (i - 1))] = unplayed'[i]
  <2> SUFFICES ASSUME NEW i \in 1 .. l + 1
               PROVE  buffer'[Wrap(read_index + (i - 1))] = unplayed'[i]
      BY <1>1
  <2>1. i - 1 \in 0 .. l /\ (i - 1 = l <=> i = l + 1)
    BY <1>3
  <2>2. Wrap(read_index + (i - 1)) \in Slots /\ (Wrap(read_index + (i - 1)) = write_index <=> i - 1 = l)
    BY <1>2, <1>3, <2>1, Reached
  <2>3. CASE i = l + 1
    <3>1. Wrap(read_index + (i - 1)) = write_index
      BY <2>1, <2>2, <2>3
    <3>2. buffer'[write_index] = next
      BY <1>1, <1>2
    <3>3. QED
      BY <1>5, <2>3, <3>1, <3>2
  <2>4. CASE i # l + 1
    <3>1. i \in 1 .. l
      BY <1>3, <2>4
    <3>2. Wrap(read_index + (i - 1)) # write_index
      BY <2>1, <2>2, <2>4
    <3>3. buffer'[Wrap(read_index + (i - 1))] = buffer[Wrap(read_index + (i - 1))]
      BY <1>1, <1>2, <2>2, <3>2
    <3>4. QED
      BY <1>4, <1>5, <3>1, <3>3
  <2>5. QED
    BY <2>3, <2>4
<1>8. Placed'
  BY <1>5, <1>6, <1>7 DEF Placed
<1>9. Room'
  BY <1>1, <1>2, <1>3, <1>5 DEF Room
<1>10. QED
  BY <1>8, <1>9

(* The routine moves the oldest sample.                                    *)
LEMMA MoveKeepsOrder ==
  ASSUME TypeOK, Placed, Room, MoveSample
  PROVE  Placed' /\ Room'
<1> SUFFICES ASSUME ~overdrawn' PROVE Placed' /\ Room'
    BY DEF Placed, Room
<1> DEFINE l == Len(unplayed)
<1>1. /\ ~overdrawn /\ unplayed # << >> /\ unplayed' = Tail(unplayed)
      /\ read_index' = Succ(read_index)
      /\ buffer' = buffer /\ write_index' = write_index
      /\ main' = main /\ wrapped' = wrapped /\ space' = space /\ frame' = frame
  BY DEF MoveSample, mainVars
<1>2. /\ read_index \in Slots /\ write_index \in Slots /\ End \in Slots
      /\ unplayed \in Seq(Samples) /\ frame \in Nat
  BY SuccIs DEF TypeOK, End
<1>3. l \in Nat /\ l > 0 /\ l = Dist(End, read_index) /\ l <= Depth - 2
  <2>1. l \in Nat /\ l > 0
    BY <1>1, <1>2, LenProperties, EmptySeq
  <2>2. l = Dist(End, read_index)
    BY <1>1 DEF Placed
  <2>3. Dist(End, read_index) \in 0 .. Depth - 2
    BY <1>2, DistIs
  <2>4. QED
    BY <2>1, <2>2, <2>3
<1>4. Len(unplayed') = l - 1 /\ \A i \in 1 .. l - 1 : unplayed'[i] = unplayed[i + 1]
  BY <1>1, <1>2, HeadTailProperties
<1>5. End' = End
  BY <1>1 DEF End, Succ
<1>6. Dist(End', read_index') = l - 1
  BY <1>1, <1>2, <1>3, <1>5, Shortened
<1>7. \A i \in 1 .. l - 1 : buffer'[Wrap(read_index' + (i - 1))] = unplayed'[i]
  <2> SUFFICES ASSUME NEW i \in 1 .. l - 1
               PROVE  buffer[Wrap(Succ(read_index) + (i - 1))] = unplayed[i + 1]
      BY <1>1, <1>4
  <2>1. i - 1 \in Nat /\ i - 1 < Depth - 2 /\ i + 1 \in 1 .. l /\ i - 1 + 1 = i + 1 - 1
    BY <1>3
  <2>2. Wrap(Succ(read_index) + (i - 1)) = Wrap(read_index + (i - 1 + 1))
    BY <1>2, <2>1, FromNext
  <2>3. buffer[Wrap(read_index + (i + 1 - 1))] = unplayed[i + 1]
    BY <1>1, <2>1 DEF Placed
  <2>4. QED
    BY <2>1, <2>2, <2>3
<1>8. Placed'
  BY <1>4, <1>6, <1>7 DEF Placed
<1>9. main = "space" /\ ~wrapped => read_index' <= write_index
  <2> SUFFICES ASSUME main = "space", ~wrapped PROVE read_index' <= write_index
      OBVIOUS
  <2>1. read_index <= write_index /\ Dist(write_index, read_index) > 0
    BY <1>1, <1>3 DEF Room, End
  <2>2. read_index < write_index
    BY <1>2, <2>1, DistIs DEF Slots
  <2>3. Succ(read_index) = read_index + 1
    BY <1>2, <2>2, SuccIs DEF Wrap, Slots
  <2>4. QED
    BY <1>1, <1>2, <2>2, <2>3 DEF Slots
<1>10. Room'
  BY <1>1, <1>2, <1>3, <1>4, <1>9 DEF Room
<1>11. QED
  BY <1>8, <1>10

(* Every step keeps the samples in order.                                  *)
LEMMA OrderStep ==
  ASSUME TypeOK, Counts, Placed, Room, [Next]_vars
  PROVE  Placed' /\ Room'
<1>t. /\ read_index \in Slots /\ write_index \in Slots /\ frame \in Nat /\ space \in Int
      /\ Len(unplayed) \in Nat
  BY LenProperties DEF TypeOK
<1>1. CASE CallWrite
  <2>1. /\ main = "idle" /\ main' = "compare"
        /\ UNCHANGED <<ring, wrapped, space, unplayed, overdrawn>>
    BY <1>1 DEF CallWrite, MainAt, history
  <2>2. QED
    BY <2>1 DEF Placed, Room, End, Succ, ring
<1>2. CASE CompareIndices
  <2>1. /\ main = "compare" /\ main' = "space" /\ wrapped' = (write_index < read_index)
        /\ UNCHANGED <<ring, space, frame, unplayed, overdrawn>>
    BY <1>2 DEF CompareIndices, MainAt, history
  <2>2. ~wrapped' => ~(write_index < read_index)
    BY <2>1, Zenon
  <2>3. ~wrapped' => read_index <= write_index
    BY <1>t, <2>2 DEF Slots
  <2>4. QED
    BY <2>1, <2>3 DEF Placed, Room, End, Succ, ring
<1>3. CASE ComputeSpace
  <2>1. /\ main = "space" /\ main' = "read" /\ space' = FreeSpace
        /\ UNCHANGED <<ring, wrapped, frame, unplayed, overdrawn>>
    BY <1>3 DEF ComputeSpace, MainAt, history
  <2>2. frame \in Nat \ {0}
    BY <1>t, <2>1 DEF Counts
  <2>3. ~overdrawn /\ space' > frame => Len(unplayed) + frame <= Depth - 2
    BY <2>1, <2>2, SpaceIsFree
  <2>4. QED
    BY <2>1, <2>3 DEF Placed, Room, End, Succ, ring
<1>4. CASE ReadControl
  <2>1. /\ main = "read" /\ main' = "write"
        /\ UNCHANGED <<ring, wrapped, space, frame, unplayed, overdrawn>>
    BY <1>4 DEF ReadControl, MainAt, history
  <2>2. QED
    BY <2>1 DEF Placed, Room, End, Succ, ring
<1>5. CASE EnableInterrupts
  <2>1. /\ main = "write" /\ main' = IF space > frame THEN "store" ELSE "compare"
        /\ UNCHANGED <<ring, wrapped, space, frame, unplayed, overdrawn>>
    BY <1>5 DEF EnableInterrupts, MainAt, history
  <2>2. QED
    BY <2>1 DEF Placed, Room, End, Succ, ring
<1>6. CASE StoreSample
  BY <1>6, StoreKeepsOrder
<1>7. CASE AdvanceWrite
  <2>1. /\ main = "advance" /\ main' = IF frame = 1 THEN "idle" ELSE "store"
        /\ write_index' = Succ(write_index) /\ frame' = frame - 1
        /\ UNCHANGED <<buffer, read_index, wrapped, space, unplayed, overdrawn>>
    BY <1>7 DEF AdvanceWrite, MainAt, history
  <2>2. End' = End
    BY <2>1 DEF End
  <2>3. Placed'
    BY <2>1, <2>2 DEF Placed
  <2>4. Room'
    BY <1>t, <2>1 DEF Room
  <2>5. QED
    BY <2>3, <2>4
<1>8. CASE MoveSample
  BY <1>8, MoveKeepsOrder
<1>9. CASE Enter \/ EndOfMove \/ DisableInterrupts \/ ClearIrq \/ Return \/ Play \/ UNCHANGED vars
  <2>1. UNCHANGED <<ring, main, wrapped, space, frame, unplayed, overdrawn>>
    BY <1>9 DEF Enter, EndOfMove, DisableInterrupts, ClearIrq, Return, Play, vars, mainVars, history
  <2>2. QED
    BY <2>1 DEF Placed, Room, End, Succ, ring
<1>10. QED
  BY <1>1, <1>2, <1>3, <1>4, <1>5, <1>6, <1>7, <1>8, <1>9 DEF Next, Main, Isr

-----------------------------------------------------------------------------
(* What waits with the interrupt disabled.                                 *)

(* A routine that finds the indices equal leaves nothing behind, but for   *)
(* the sample whose slot the program has yet to count.                     *)
LEMMA EmptyIsEmpty ==
  ASSUME TypeOK, Placed, ~overdrawn, SamplesInBuffer = 0
  PROVE  Len(unplayed) <= IF main = "advance" THEN 1 ELSE 0
<1>1. read_index \in Slots /\ write_index \in Slots /\ Len(unplayed) = Dist(End, read_index)
  BY DEF TypeOK, Placed
<1>2. write_index = read_index
  BY <1>1 DEF SamplesInBuffer, Slots
<1>3. Dist(write_index, read_index) = 0
  BY <1>1, <1>2, DistIs
<1>4. Dist(Succ(write_index), read_index) = Dist(write_index, read_index) + 1
  BY <1>1, <1>3, Lengthened
<1>5. QED
  BY <1>1, <1>3, <1>4 DEF End

(* Every step keeps what may sleep within the frame under way.             *)
LEMMA SleepStep ==
  ASSUME TypeOK, Counts, Placed, Sleeps, [Next]_vars
  PROVE  Sleeps'
<1>t. /\ control \in [enable : BOOLEAN, irq : BOOLEAN]
      /\ copy \in [enable : BOOLEAN, irq : BOOLEAN]
      /\ frame \in Nat /\ fifo \in Nat /\ unplayed \in Seq(Samples) /\ Len(unplayed) \in Nat
  BY LenProperties DEF TypeOK
<1>u. FrameLens \subseteq Nat
  OBVIOUS
<1>1. CASE CallWrite \/ CompareIndices \/ ComputeSpace \/ ReadControl
  <2>1. /\ main \notin {"store", "advance"} /\ main' \notin {"store", "advance"} /\ isr' = "off"
        /\ UNCHANGED <<control, unplayed, overdrawn>>
    BY <1>1 DEF CallWrite, CompareIndices, ComputeSpace, ReadControl, MainAt, isrVars, history
  <2>2. ToStore' = 0 /\ ToStore = 0
    BY <2>1 DEF ToStore
  <2>3. QED
    BY <2>1, <2>2 DEF Sleeps
<1>2. CASE EnableInterrupts
  <2>1. isr' = "off" /\ UNCHANGED <<unplayed, overdrawn>>
    BY <1>2 DEF EnableInterrupts, MainAt, isrVars, history
  <2>2. control'.enable
    <3>1. /\ [copy EXCEPT !.enable = TRUE] \in [enable : BOOLEAN, irq : BOOLEAN]
          /\ [copy EXCEPT !.enable = TRUE].enable
      BY <1>t
    <3>2. control' = Latched([copy EXCEPT !.enable = TRUE], fifo)
      BY <1>2 DEF EnableInterrupts
    <3>3. QED
      BY <1>t, <3>1, <3>2, LatchedIs
  <2>3. QED
    BY <2>1, <2>2 DEF Sleeps
<1>3. CASE StoreSample
  <2>1. /\ main = "store" /\ main' = "advance" /\ isr' = "off" /\ frame' = frame
        /\ unplayed' = IF overdrawn THEN << >> ELSE Append(unplayed, next)
        /\ UNCHANGED <<control, overdrawn>>
    BY <1>3 DEF StoreSample, MainAt, isrVars
  <2>2. Len(unplayed') \in Nat /\ Len(unplayed') <= Len(unplayed) + 1
    BY <1>t, <2>1, AppendProperties, EmptySeq DEF TypeOK
  <2>3. ToStore = frame /\ ToStore' = frame - 1
    BY <2>1 DEF ToStore
  <2>4. ~control'.enable => \E n \in FrameLens : Len(unplayed') + ToStore' <= n
    BY <1>t, <1>u, <2>1, <2>2, <2>3 DEF Sleeps
  <2>5. QED
    BY <2>1, <2>4 DEF Sleeps
<1>4. CASE AdvanceWrite
  <2>1. /\ main = "advance" /\ main' = (IF frame = 1 THEN "idle" ELSE "store")
        /\ frame' = frame - 1 /\ isr' = "off" /\ UNCHANGED <<control, unplayed, overdrawn>>
    BY <1>4 DEF AdvanceWrite, MainAt, isrVars, history
  <2>2. ToStore' = ToStore
    BY <1>t, <2>1 DEF ToStore
  <2>3. QED
    BY <2>1, <2>2 DEF Sleeps
<1>5. CASE Enter
  <2>1. /\ UNCHANGED <<main, frame, control, unplayed, overdrawn>>
        /\ isr' = IF SamplesInBuffer = 0 THEN "disable" ELSE "move"
    BY <1>5 DEF Enter, mainVars, history
  <2>2. ToStore' = ToStore
    BY <2>1 DEF ToStore
  <2>3. isr' = "disable" => Len(unplayed) <= IF main = "advance" THEN 1 ELSE 0
    <3>1. CASE overdrawn
      BY <1>t, <3>1, EmptySeq DEF Sleeps
    <3>2. CASE ~overdrawn
      BY <2>1, <3>2, EmptyIsEmpty
    <3>3. QED
      BY <3>1, <3>2
  <2>4. QED
    BY <2>1, <2>2, <2>3 DEF Sleeps
<1>6. CASE MoveSample
  <2>1. /\ isr' = "move" /\ main' = main /\ frame' = frame
        /\ control' = Latched(control, fifo + 1)
        /\ unplayed' = IF unplayed # << >> THEN Tail(unplayed) ELSE unplayed
        /\ overdrawn' = (overdrawn \/ unplayed = << >>)
    BY <1>6 DEF MoveSample, mainVars
  <2>2. control'.enable = control.enable
    BY <1>t, <2>1, LatchedIs
  <2>3. Len(unplayed') \in Nat /\ Len(unplayed') <= Len(unplayed)
    BY <1>t, <2>1, HeadTailProperties
  <2>4. ToStore' = ToStore /\ ToStore \in Int
    BY <1>t, <2>1 DEF ToStore
  <2>5. overdrawn' => unplayed' = << >>
    BY <2>1 DEF Sleeps
  <2>6. ~control'.enable => \E n \in FrameLens : Len(unplayed') + ToStore' <= n
    BY <1>t, <1>u, <2>2, <2>3, <2>4 DEF Sleeps
  <2>7. QED
    BY <2>1, <2>5, <2>6 DEF Sleeps
<1>7. CASE DisableInterrupts
  <2>1. isr = "disable" /\ isr' = "clear" /\ UNCHANGED <<main, frame, unplayed, overdrawn>>
    BY <1>7 DEF DisableInterrupts, mainVars, history
  <2>2. Len(unplayed) <= IF main = "advance" THEN 1 ELSE 0
    BY <2>1 DEF Sleeps
  <2>3. PICK n \in FrameLens : frame <= n
    BY DEF Counts
  <2>4. Len(unplayed) + ToStore <= n
    BY <1>t, <1>u, <2>2, <2>3 DEF ToStore
  <2>5. ToStore' = ToStore
    BY <2>1 DEF ToStore
  <2>6. QED
    BY <2>1, <2>4, <2>5 DEF Sleeps
<1>8. CASE EndOfMove \/ ClearIrq \/ Return \/ Play \/ UNCHANGED vars
  <2>1. UNCHANGED <<main, frame, unplayed, overdrawn>> /\ (isr' = "disable" => isr = "disable")
    BY <1>8 DEF EndOfMove, ClearIrq, Return, Play, vars, mainVars, isrVars, history
  <2>2. control'.enable = control.enable
    <3>1. CASE ClearIrq
      <4>1. /\ [control EXCEPT !.irq = FALSE] \in [enable : BOOLEAN, irq : BOOLEAN]
            /\ [control EXCEPT !.irq = FALSE].enable = control.enable
        BY <1>t
      <4>2. QED
        BY <1>t, <3>1, <4>1, LatchedIs DEF ClearIrq
    <3>2. CASE Play
      <4>1. fifo - 1 \in Nat /\ control' = Latched(control, fifo - 1)
        BY <1>t, <3>2 DEF Play
      <4>2. QED
        BY <1>t, <4>1, LatchedIs
    <3>3. CASE EndOfMove \/ Return \/ UNCHANGED vars
      BY <3>3 DEF EndOfMove, Return, vars
    <3>4. QED
      BY <1>8, <3>1, <3>2, <3>3
  <2>3. ToStore' = ToStore
    BY <2>1 DEF ToStore
  <2>4. QED
    BY <2>1, <2>2, <2>3 DEF Sleeps
<1>9. QED
  BY <1>1, <1>2, <1>3, <1>4, <1>5, <1>6, <1>7, <1>8 DEF Next, Main, Isr

-----------------------------------------------------------------------------
(* The theorems.                                                           *)

(* The initial state satisfies the invariant.                              *)
LEMMA InitHolds == Init => Invariant
<1> SUFFICES ASSUME Init PROVE Invariant
    OBVIOUS
<1>1. control \in [enable : BOOLEAN, irq : BOOLEAN] /\ control.enable
  <2>1. /\ [enable |-> TRUE, irq |-> FALSE] \in [enable : BOOLEAN, irq : BOOLEAN]
        /\ [enable |-> TRUE, irq |-> FALSE].enable
    OBVIOUS
  <2>2. QED
    BY <2>1, LatchedIs DEF Init
<1>2. TypeOK
  <2>1. unplayed \in Seq(Samples)
    BY EmptySeq DEF Init
  <2>2. buffer \in [Slots -> Samples \cup {-1}]
    BY DEF Init
  <2>3. copy \in [enable : BOOLEAN, irq : BOOLEAN]
    BY DEF Init
  <2>4. /\ read_index \in Slots /\ write_index \in Slots /\ next \in Samples
        /\ fifo \in Nat /\ samples_to_write \in Nat /\ frame \in Nat
        /\ taken \in 0 .. 1 /\ space \in Int
    BY DEF Init, Slots, Samples
  <2>5. prompt \in BOOLEAN /\ wrapped \in BOOLEAN /\ overdrawn \in BOOLEAN
    BY Zenon DEF Init
  <2>6. main = "idle" /\ isr = "off"
    BY Zenon DEF Init
  <2>7. QED
    BY <1>1, <2>1, <2>2, <2>3, <2>4, <2>5, <2>6 DEF TypeOK
<1>3. Counts
  <2>1. main = "idle" /\ isr = "off" /\ frame = 0 /\ fifo = 0
    BY Zenon DEF Init
  <2>2. PICK n \in FrameLens : n \in Nat
    OBVIOUS
  <2>3. frame <= n
    BY <2>1, <2>2
  <2>4. QED
    BY <2>1, <2>3 DEF Counts
<1>4. Len(unplayed) = 0
  BY EmptySeq DEF Init
<1>5. Placed
  BY <1>4 DEF Init, Placed, End, Dist
<1>6. Room /\ Sleeps
  BY <1>1 DEF Init, Room, Sleeps
<1>7. QED
  BY <1>2, <1>3, <1>5, <1>6 DEF Invariant

(* The invariant holds in every reachable state.                           *)
THEOREM Inductive == Spec => []Invariant
<1>1. Invariant /\ [Next]_vars => Invariant'
  BY TypeStep, OrderStep, SleepStep DEF Invariant
<1>2. QED
  BY InitHolds, <1>1, PTL DEF Spec

(* The types, and that the routine never writes to a FIFO that is full:    *)
(* the free words it counted can only have become more.                    *)
THEOREM Types == Spec => []StateOK
<1>1. Invariant => StateOK
  BY DEF Invariant, Counts, StateOK, FifoNeverOverfilled
<1>2. QED
  BY Inductive, <1>1, PTL

(* write_samples never stores over a sample still to be moved, and the     *)
(* routine moves the oldest one next, although each looks at an index the  *)
(* other one moves.                                                        *)
THEOREM Ordered == Spec => []MovesInOrder
<1>1. Invariant => MovesInOrder
  <2> SUFFICES ASSUME Invariant, ~overdrawn, NEW i \in 1 .. Len(unplayed)
               PROVE  buffer[(read_index + i - 1) % (Depth - 1)] = unplayed[i]
      BY DEF MovesInOrder
  <2>1. /\ read_index \in Slots /\ End \in Slots /\ Len(unplayed) = Dist(End, read_index)
        /\ buffer[Wrap(read_index + (i - 1))] = unplayed[i]
    BY SuccIs DEF Invariant, TypeOK, Placed, End
  <2>2. Len(unplayed) <= Depth - 2
    BY <2>1, DistIs
  <2>3. /\ read_index + (i - 1) \in Nat /\ read_index + (i - 1) < 2 * (Depth - 1)
        /\ read_index + (i - 1) = read_index + i - 1
    BY <2>1, <2>2 DEF Slots
  <2>4. (read_index + (i - 1)) % (Depth - 1) = Wrap(read_index + (i - 1))
    BY <2>3, WrapIs
  <2>5. QED
    BY <2>1, <2>3, <2>4
<1>2. QED
  BY Inductive, <1>1, PTL

(* A disabled interrupt leaves at most one frame unplayed.                 *)
THEOREM SleepIsShort == Spec => []AtMostOneFrameSleeps
<1>1. Invariant => AtMostOneFrameSleeps
  <2> SUFFICES ASSUME Invariant, ~control.enable, main = "idle"
               PROVE  \E n \in FrameLens : Len(unplayed) <= n
      BY DEF AtMostOneFrameSleeps
  <2>1. ToStore = 0 /\ Len(unplayed) \in Nat
    BY LenProperties DEF ToStore, Invariant, TypeOK
  <2>2. QED
    BY <2>1 DEF Invariant, Sleeps
<1>2. QED
  BY Inductive, <1>1, PTL
=============================================================================
