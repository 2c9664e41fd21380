----------------------------- MODULE AudioCodec -----------------------------
(***************************************************************************)
(* The driver of the WM8731 audio controller (audio_codec_WM8731.c): the   *)
(* player's main loop writes frames of decoded samples into a ring buffer  *)
(* in memory, and the interrupt routine moves them into the small FIFO in  *)
(* front of the converter.                                                 *)
(*                                                                         *)
(* There is one processor.  The interrupt routine runs between any two     *)
(* steps of the main loop and is not interrupted by it; the converter      *)
(* takes samples from its FIFO at any time.  The controller's hardware     *)
(* (audio_codec_wm8731.v) raises the interrupt on every clock on which the *)
(* FIFO is less than half full and the interrupt is enabled, so a step     *)
(* that clears it while the condition holds finds it raised again before   *)
(* the next access: Latched is applied to every new value of the register. *)
(*                                                                         *)
(* Samples are numbered; unplayed is the sequence of samples the driver    *)
(* has stored and not yet given to the controller.                         *)
(***************************************************************************)
EXTENDS Integers, Sequences, SequencesExt

CONSTANTS
  Depth,      \* sample_buffer_depth, the slots allocated
  Margin,     \* the "safety buffer" of write_samples
  FifoDepth,  \* DAC_FIFO_DEPTH
  FrameLens   \* the values of num_samples

ASSUME DepthAssumption == Depth \in Nat /\ Depth > 2
ASSUME MarginAssumption == Margin \in Nat \ {0}
ASSUME FifoAssumption == FifoDepth \in Nat /\ FifoDepth > 1
ASSUME FrameAssumption == FrameLens \subseteq Nat \ {0} /\ FrameLens # {}

VARIABLES
  buffer, read_index, write_index,    \* sample_buffer
  control,                            \* bits IRQ enable and IRQ of register 0
  fifo,                               \* samples in the converter's FIFO
  main, wrapped, space, frame, copy,  \* the main loop in write_samples
  isr, samples_to_write,              \* the interrupt routine
  prompt, taken,                      \* the processor's speed: see Play
  next, unplayed,                     \* history: next number; accepted samples
  overdrawn                           \* history: see MoveSample

ring == <<buffer, read_index, write_index>>
time == <<prompt, taken>>
history == <<next, unplayed, overdrawn>>
mainVars == <<main, wrapped, space, frame, copy>>
isrVars == <<isr, samples_to_write>>
vars == <<ring, control, fifo, mainVars, isrVars, time, history>>

-----------------------------------------------------------------------------
\* The slots the indices run over: both wrap at depth - 1.
Slots == 0 .. Depth - 2
Succ(i) == (i + 1) % (Depth - 1)

\* Twice the slots, so that a sample and its successor a lap later differ.
Samples == 0 .. 2 * (Depth - 1) - 1

Threshold == FifoDepth \div 2

\* What the controller makes of a value c of the register with n words queued.
Latched(c, n) == [c EXCEPT !.irq = @ \/ (c.enable /\ n < Threshold)]

\* Fault: the safety buffer is forgotten
FreeSpaceAll ==
  IF wrapped THEN read_index - write_index ELSE read_index + (Depth - write_index)

\* free_space_in_buffer, from the comparison made before
FreeSpace ==
  (IF wrapped THEN read_index - write_index
              ELSE read_index + (Depth - write_index)) - Margin

\* samples_in_buffer
SamplesInBuffer ==
  IF write_index >= read_index THEN write_index - read_index
                               ELSE (write_index + Depth) - read_index

TypeOK ==
  /\ buffer \in [Slots -> Samples \cup {-1}]
  /\ read_index \in Slots /\ write_index \in Slots
  /\ control \in [enable : BOOLEAN, irq : BOOLEAN]
  /\ copy \in [enable : BOOLEAN, irq : BOOLEAN]
  /\ fifo \in Nat /\ samples_to_write \in Nat /\ frame \in Nat
  /\ prompt \in BOOLEAN /\ taken \in 0 .. 1
  /\ main \in {"idle", "compare", "space", "read", "write", "store", "advance"}
  /\ isr \in {"off", "move", "disable", "clear"}
  /\ wrapped \in BOOLEAN /\ space \in Int
  /\ next \in Samples /\ unplayed \in Seq(Samples) /\ overdrawn \in BOOLEAN

\* alt_audio_codec_init has run: the interrupt is enabled and the FIFO empty.
Init ==
  /\ buffer = [s \in Slots |-> -1] /\ read_index = 0 /\ write_index = 0
  /\ control = Latched([enable |-> TRUE, irq |-> FALSE], 0)
  /\ fifo = 0 /\ taken = 0 /\ prompt \in BOOLEAN
  /\ main = "idle" /\ wrapped = FALSE /\ space = 0 /\ frame = 0
  /\ copy = [enable |-> FALSE, irq |-> FALSE]
  /\ isr = "off" /\ samples_to_write = 0
  /\ next = 0 /\ unplayed = <<>> /\ overdrawn = FALSE

-----------------------------------------------------------------------------
(* The main loop.  It does not run while an interrupt is pending or being  *)
(* served.                                                                 *)

Serving == control.irq \/ isr # "off"
Storing == main \in {"store", "advance"}

MainAt(pc) == main = pc /\ isr = "off" /\ ~control.irq

\* The decoder has a frame: NiosIIMP3_Output calls write_samples ...
CallWrite ==
  /\ MainAt("idle")
  /\ frame' \in FrameLens
  /\ main' = "compare"
  /\ UNCHANGED <<ring, control, fifo, wrapped, space, copy, isrVars, time, history>>

\* ... which compares the indices, reads them again for the free space,
CompareIndices ==
  /\ MainAt("compare")
  /\ wrapped' = (write_index < read_index)
  /\ main' = "space"
  /\ UNCHANGED <<ring, control, fifo, space, frame, copy, isrVars, time, history>>

ComputeSpace ==
  /\ MainAt("space")
  /\ space' = FreeSpace
  /\ main' = "read"
  /\ UNCHANGED <<ring, control, fifo, wrapped, frame, copy, isrVars, time, history>>

\* and enables the interrupt: the register is read, then written back.
ReadControl ==
  /\ MainAt("read")
  /\ copy' = control
  /\ main' = "write"
  /\ UNCHANGED <<ring, control, fifo, wrapped, space, frame, isrVars, time, history>>

\* Fault: the bits read are written back as they were
WriteBack ==
  /\ MainAt("write")
  /\ control' = Latched(copy, fifo)
  /\ main' = IF space > frame THEN "store" ELSE "compare"
  /\ UNCHANGED <<ring, fifo, wrapped, space, frame, copy, isrVars, time, history>>

\* Fault: the interrupt is enabled only for a frame that is accepted
EnableIfAccepted ==
  /\ MainAt("write")
  /\ control' = IF space > frame THEN Latched([copy EXCEPT !.enable = TRUE], fifo) ELSE control
  /\ main' = IF space > frame THEN "store" ELSE "compare"
  /\ UNCHANGED <<ring, fifo, wrapped, space, frame, copy, isrVars, time, history>>

\* The frame is refused when it does not fit: the player calls again.
EnableInterrupts ==
  /\ MainAt("write")
  /\ control' = Latched([copy EXCEPT !.enable = TRUE], fifo)
  /\ main' = IF space > frame THEN "store" ELSE "compare"
  /\ UNCHANGED <<ring, fifo, wrapped, space, frame, copy, isrVars, time, history>>

StoreSample ==
  /\ MainAt("store")
  /\ buffer' = [buffer EXCEPT ![write_index] = next]
  /\ unplayed' = IF overdrawn THEN << >> ELSE Append(unplayed, next)
  /\ next' = (next + 1) % (2 * (Depth - 1))
  /\ main' = "advance"
  /\ UNCHANGED <<read_index, write_index, control, fifo, wrapped, space, frame, copy,
                 isrVars, time, overdrawn>>

AdvanceWrite ==
  /\ MainAt("advance")
  /\ write_index' = Succ(write_index)
  /\ frame' = frame - 1
  /\ taken' = IF frame = 1 THEN 0 ELSE taken
  /\ main' = IF frame = 1 THEN "idle" ELSE "store"
  /\ UNCHANGED <<buffer, read_index, control, fifo, wrapped, space, copy, isrVars, prompt, history>>

Main == \/ CallWrite \/ CompareIndices \/ ComputeSpace \/ ReadControl
        \/ EnableInterrupts \/ StoreSample \/ AdvanceWrite

-----------------------------------------------------------------------------
(* The interrupt routine.                                                  *)

\* Fault: the room in the FIFO is not looked at
ToWriteAll(n) == n

\* samples_to_write when the buffer holds n samples, n # 0
ToWrite(n) == IF n > FifoDepth - fifo THEN FifoDepth - fifo ELSE n

Enter ==
  /\ isr = "off" /\ control.irq
  /\ samples_to_write' = ToWrite(SamplesInBuffer)
  /\ isr' = IF SamplesInBuffer = 0 THEN "disable" ELSE "move"
  /\ UNCHANGED <<ring, control, fifo, mainVars, time, history>>

\* One sample to the controller; the loop ends when all are written.  The
\* buffer is overdrawn by a sample written from a slot main has yet to fill;
\* from then on the indices disagree with the history, which ends there.
MoveSample ==
  /\ isr = "move" /\ samples_to_write > 0
  /\ fifo' = fifo + 1
  /\ control' = Latched(control, fifo')
  /\ unplayed' = IF unplayed # <<>> THEN Tail(unplayed) ELSE unplayed
  /\ overdrawn' = (overdrawn \/ unplayed = <<>>)
  /\ read_index' = Succ(read_index)
  /\ samples_to_write' = samples_to_write - 1
  /\ UNCHANGED <<buffer, write_index, mainVars, isr, time, next>>

EndOfMove ==
  /\ isr = "move" /\ samples_to_write = 0
  /\ isr' = "clear"
  /\ UNCHANGED <<ring, control, fifo, mainVars, samples_to_write, time, history>>

\* No samples in the buffer: the next write enables the interrupt again.
DisableInterrupts ==
  /\ isr = "disable"
  /\ control' = [control EXCEPT !.enable = FALSE]
  /\ isr' = "clear"
  /\ UNCHANGED <<ring, fifo, mainVars, samples_to_write, time, history>>

\* The loop that clears the interrupt until it reads as clear
ClearIrq ==
  /\ isr = "clear" /\ control.irq
  /\ control' = Latched([control EXCEPT !.irq = FALSE], fifo)
  /\ UNCHANGED <<ring, fifo, mainVars, isrVars, time, history>>

Return ==
  /\ isr = "clear" /\ ~control.irq
  /\ isr' = "off"
  /\ taken' = IF Storing THEN taken ELSE 0
  /\ UNCHANGED <<ring, control, fifo, mainVars, samples_to_write, prompt, history>>

Isr == Enter \/ MoveSample \/ EndOfMove \/ DisableInterrupts \/ ClearIrq \/ Return

-----------------------------------------------------------------------------
(* The converter takes a sample.  A prompt processor is faster than the    *)
(* sample rate: an interrupt is served before the converter takes another  *)
(* sample, and at most one is taken while a frame is stored.  Other        *)
(* interrupt routines, or a slow memory, make it a processor that is not.  *)

InTime ==
  \/ ~Serving /\ ~Storing
  \/ ~Serving /\ Storing /\ taken = 0
  \/ isr = "clear" /\ fifo < Threshold  \* the loop is not left in any time

Play ==
  /\ fifo > 0
  /\ prompt => InTime
  /\ fifo' = fifo - 1
  /\ control' = Latched(control, fifo')
  /\ taken' = IF prompt /\ Storing THEN 1 ELSE taken
  /\ UNCHANGED <<ring, mainVars, isrVars, prompt, history>>

Next == Main \/ Isr \/ Play

\* The processor serves a pending interrupt, the converter runs on its own
\* clock.  The player keeps decoding and calling: the main loop gets on between
\* two interrupts, however short the time, so its fairness is strong.
Spec == Init /\ [][Next]_vars /\ SF_vars(Main) /\ WF_vars(Isr) /\ WF_vars(Play)
-----------------------------------------------------------------------------
(* Properties                                                              *)

\* What is stored and not yet moved lies in the slots from read_index on, in
\* order: write_samples never stores over a sample the interrupt routine still
\* has to move, whatever the routine does between its two reads of the read
\* index, and the routine moves the oldest one next.
MovesInOrder ==
  ~overdrawn =>
    \A i \in 1 .. Len(unplayed) :
      buffer[(read_index + i - 1) % (Depth - 1)] = unplayed[i]

\* The routine counts the free words of the FIFO once and fills it while the
\* converter drains it: it never writes to a full FIFO.
FifoNeverOverfilled == fifo <= FifoDepth

\* With the interrupt disabled nothing moves until the next call; what waits
\* then is at most the frame stored last, although the routine may run,
\* and disable the interrupt, between the steps of the call that enables it.
AtMostOneFrameSleeps ==
  ~control.enable /\ isr = "off" /\ main = "idle" => \E n \in FrameLens : Len(unplayed) <= n

\* On a prompt processor, and until the buffer is overdrawn: a player that keeps
\* decoding hears every sample it handed over ...
EverySamplePlays ==
  prompt => \A s \in Samples :
    s \in ToSet(unplayed) ~> s \notin ToSet(unplayed) \/ overdrawn

\* ... gets every frame accepted: the loop of retries ends ...
EveryFrameAccepted == prompt => (main = "compare" ~> main = "idle" \/ overdrawn)

\* ... and the loop that clears the interrupt ends: the FIFO is at least half
\* full by then, or the interrupt disabled.
PromptRoutineReturns == prompt => (isr # "off" ~> isr = "off" \/ overdrawn)

\* The driver plays on.
PlaysOn == EverySamplePlays /\ EveryFrameAccepted /\ PromptRoutineReturns

\* The types, and a FIFO the routine never writes to when it is full.
StateOK == TypeOK /\ FifoNeverOverfilled

\* The comment in the routine: with no samples in the buffer it disables the
\* interrupt, so what it moves is always a sample stored and not yet moved.
NothingReplayed == ~overdrawn
=============================================================================
