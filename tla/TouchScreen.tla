---------------------------- MODULE TouchScreen ----------------------------
(***************************************************************************)
(* The touch screen driver of the player (alt_touchscreen.c): an alarm     *)
(* that starts a sample sequence while the pen is down, the interrupt      *)
(* routine of the SPI controller that steps the sequence through its five  *)
(* bytes and publishes the sample, and the application, which copies the   *)
(* published sample and calls its callbacks in alt_touchscreen_event_loop_ *)
(* update.                                                                 *)
(*                                                                         *)
(* The application is interrupted between any two of its reads; the alarm  *)
(* and the interrupt routine are not interrupted.  A position is the place *)
(* the pen touches: x and y are right when both are that place.            *)
(*                                                                         *)
(* Timing of the board: a byte on the SPI wire is shorter than an alarm    *)
(* period, during a sequence the pen may be lifted but touches no other    *)
(* place, and at most Burst samples are published while alt_touchscreen_   *)
(* get_pen runs.                                                           *)
(***************************************************************************)
EXTENDS Integers, Sequences

CONSTANTS
  Places,   \* where the pen may touch
  Width,    \* sample_number counts modulo Width
  Burst     \* samples published during one call of alt_touchscreen_get_pen

Up == "up"
Garbage == "garbage"       \* a coordinate that is none of the pen's
None == "none"

ASSUME PlacesAssumption == Places \cap {Up, Garbage, None} = {}
ASSUME BurstAssumption == Burst \in Nat /\ Width \in Nat /\ Width > Burst

VARIABLES
  pen,                      \* where the pen is, or Up
  adc, spi, rrdy, rxdata,     \* the AD7843; the byte under way; RRDY and RXDATA
  sample_phase, rxdata_values,
  pen_down, pen_detect_counter, sample_number, x, y,
  flags,                    \* the event flags
  pc, got, published,       \* the application: its copy of the sample, the samples
                            \* published since alt_touchscreen_get_pen was called
  during, trail, owed       \* history: the states of the sample during the call;
                            \* the places touched since the pen was seen up;
                            \* the transitions no callback has told yet

converter == <<adc, spi, rrdy, rxdata>>
machine == <<sample_phase, rxdata_values>>
sample == <<pen_down, pen_detect_counter, sample_number, x, y>>
application == <<pc, got, published>>
history == <<during, trail, owed>>
vars == <<pen, converter, machine, sample, flags, application, history>>

-----------------------------------------------------------------------------
Phases == 0 .. 4
Coordinates == Places \cup {Garbage}
Commands == <<"X", "fill", "Y", "fill", "fill">>
Kinds == {"up", "down", "move"}
Conversions == [axis : {"X", "Y"}, place : Coordinates, half : {"high", "low"}]
Idle == [axis |-> "X", place |-> Garbage, half |-> "low"]

Nothing == [n |-> 0, down |-> FALSE, x |-> Garbage, y |-> Garbage]
InGetPen == pc \in {"number", "down", "x", "y", "check"}

TypeOK ==
  /\ pen \in Places \cup {Up}
  /\ adc \in Conversions /\ spi \in {"X", "Y", "fill", None}
  /\ rrdy \in BOOLEAN /\ rxdata \in Conversions
  /\ sample_phase \in Phases /\ rxdata_values \in [Phases -> Conversions]
  /\ pen_down \in BOOLEAN /\ pen_detect_counter \in 0 .. 2
  /\ sample_number \in 0 .. Width - 1
  /\ x \in Coordinates /\ y \in Coordinates
  /\ flags \in [Kinds -> BOOLEAN]
  /\ pc \in {"idle", "number", "down", "x", "y", "check"}
       \cup {"test_up", "test_down", "test_move", "clear_up", "clear_down", "clear_move"}
  /\ got \in [n : 0 .. Width - 1, down : BOOLEAN, x : Coordinates, y : Coordinates]
  /\ published \in 0 .. Burst
  /\ during \subseteq [n : 0 .. Width - 1, down : BOOLEAN, x : Coordinates, y : Coordinates]
  /\ trail \subseteq Places /\ owed \in [{"up", "down"} -> BOOLEAN]

Init ==
  /\ pen \in Places \cup {Up}
  /\ adc = Idle /\ spi = None /\ rrdy = FALSE /\ rxdata = Idle
  /\ sample_phase = 0 /\ rxdata_values = [i \in Phases |-> Idle]
  /\ pen_down = FALSE /\ pen_detect_counter = 0 /\ sample_number = 0
  /\ x = Garbage /\ y = Garbage
  /\ flags = [k \in Kinds |-> FALSE]
  /\ pc = "idle" /\ published = 0
  /\ got = Nothing
  /\ during = {} /\ trail = {pen} \cap Places
  /\ owed = [k \in {"up", "down"} |-> FALSE]

-----------------------------------------------------------------------------
(* The pen and the converter *)

\* The pen touches the screen, or moves on it, and is lifted
InSequence == sample_phase # 0 \/ spi # None \/ rrdy

Touch(p) ==
  /\ ~InSequence
  /\ pen' = p /\ trail' = trail \cup {p}
  /\ UNCHANGED <<converter, machine, sample, flags, application, during, owed>>

Lift ==
  /\ pen # Up
  /\ pen' = Up
  /\ UNCHANGED <<converter, machine, sample, flags, application, history>>

\* A byte has been exchanged: a command starts a conversion of its axis, and the
\* next two bytes bring the high and the low part of the result.  Behind the last byte
\* the converter is deselected.
ByteDone ==
  /\ spi # None
  /\ rrdy' = TRUE /\ rxdata' = adc
  /\ adc' = CASE spi # "fill" -> [axis |-> spi, half |-> "high",
                                   place |-> IF pen = Up THEN Garbage ELSE pen]
            [] spi = "fill" /\ sample_phase < 4 -> [adc EXCEPT !.half = "low"]
            [] OTHER -> Idle
  /\ spi' = None
  /\ UNCHANGED <<pen, machine, sample, flags, application, history>>

-----------------------------------------------------------------------------
(* The interrupt level *)

assemble_sample(axis, first, second) ==
  IF first = [second EXCEPT !.half = "high"] /\ second.half = "low" /\ first.axis = axis
  THEN first.place ELSE Garbage

\* Fault: the flags show the last update only
RaisedAnew(was, is) == [k \in Kinds |->
  CASE k = "up" -> ~is /\ was [] k = "down" -> is /\ ~was [] OTHER -> is]

\* event_flag_group_update_from_pen_state
Raised(was, is) ==
  [flags EXCEPT !["up"] = @ \/ (~is /\ was), !["down"] = @ \/ (is /\ ~was), !["move"] = @ \/ is]

\* The counter matters up to two
Counted(detect) ==
  IF ~detect THEN 0 ELSE IF pen_detect_counter = 2 THEN 2 ELSE pen_detect_counter + 1

\* pen_state_update_from_detect_sample, the event flags, and the position
Publish(detect, newX, newY) ==
  /\ InGetPen => published < Burst
  /\ sample_number' = (sample_number + 1) % Width
  /\ pen_detect_counter' = Counted(detect)
  /\ pen_down' = (pen_detect_counter' > 1)
  /\ flags' = Raised(pen_down, pen_down')
  /\ x' = newX /\ y' = newY
  /\ published' = IF InGetPen THEN published + 1 ELSE 0
  /\ during' = {s \in during \cup {[n |-> sample_number', down |-> pen_down', x |-> x', y |-> y']} :
                 InGetPen}
  /\ trail' = IF detect THEN trail ELSE {}
  /\ owed' = [owed EXCEPT !["up"] = @ \/ (~pen_down' /\ pen_down),
                          !["down"] = @ \/ (pen_down' /\ ~pen_down)]
  /\ UNCHANGED <<pc, got>>

\* alarm_callback.  The machine is ready in phase 0, also while the first byte is
\* under way: the alarm period is longer than a byte.
AlarmBusy ==
  /\ sample_phase # 0
  /\ UNCHANGED vars

AlarmStarts ==
  /\ ~InSequence
  /\ pen # Up
  /\ spi' = Commands[1]
  /\ UNCHANGED <<pen, adc, rrdy, rxdata, machine, sample, flags, application, history>>

\* Fault: without a pen there is nothing to do
AlarmIgnoresPenUp ==
  /\ ~InSequence
  /\ pen = Up
  /\ UNCHANGED vars

AlarmSeesPenUp ==
  /\ ~InSequence
  /\ pen = Up
  /\ Publish(FALSE, x, y)
  /\ UNCHANGED <<pen, converter, machine>>

Alarm == AlarmBusy \/ AlarmStarts \/ AlarmSeesPenUp

\* spi_isr.  The bytes of a finished sample and a byte read are not read again:
\* the model forgets them.
SendNext ==
  /\ rrdy /\ sample_phase < 4
  /\ rxdata_values' = [rxdata_values EXCEPT ![sample_phase] = rxdata]
  /\ sample_phase' = sample_phase + 1
  /\ spi' = Commands[sample_phase + 2]
  /\ rrdy' = FALSE /\ rxdata' = Idle
  /\ UNCHANGED <<pen, adc, sample, flags, application, history>>

\* The position the bytes make, unless the pen is up
NewPosition(detect, high, low, axis, old) ==
  IF detect THEN assemble_sample(axis, high, low) ELSE old

sample_machine_reset == 0

EndSample ==
  /\ rrdy /\ sample_phase = 4
  /\ LET r == [rxdata_values EXCEPT ![4] = rxdata]
         detect == pen # Up
     IN  Publish(detect,
                 NewPosition(detect, r[1], r[2], "X", x),
                 NewPosition(detect, r[3], r[4], "Y", y))
  /\ rxdata_values' = [i \in Phases |-> Idle]
  /\ sample_phase' = sample_machine_reset
  /\ rrdy' = FALSE /\ rxdata' = Idle
  /\ UNCHANGED <<pen, adc, spi>>

SpiIsr == SendNext \/ EndSample

-----------------------------------------------------------------------------
(* The application: alt_touchscreen_event_loop_update *)

At(label, next) == pc = label /\ pc' = next

CallGetPen ==
  /\ At("idle", "number")
  /\ published' = 0
  /\ during' = {[n |-> sample_number, down |-> pen_down, x |-> x, y |-> y]}
  /\ UNCHANGED <<got, trail, owed>>

ReadNumber == At("number", "down") /\ got' = [got EXCEPT !.n = sample_number]
ReadDown == At("down", "x") /\ got' = [got EXCEPT !.down = pen_down]
ReadX == At("x", "y") /\ got' = [got EXCEPT !.x = x]
ReadY == At("y", "check") /\ got' = [got EXCEPT !.y = y]

\* Fault: the copy is taken as it is
CheckNothing ==
  /\ At("check", "test_up")
  /\ got' = [Nothing EXCEPT !.down = got.down]

\* Once more, if a sample was published meanwhile.  What was copied is the caller's
\* then: the model keeps the pen state of it.
CheckNumber ==
  /\ pc = "check"
  /\ pc' = IF got.n = sample_number THEN "test_up" ELSE "number"
  /\ got' = [Nothing EXCEPT !.down = got.down]

GetPen ==
  /\ ReadNumber \/ ReadDown \/ ReadX \/ ReadY \/ CheckNumber
  /\ during' = IF pc' = "test_up" THEN {} ELSE during
  /\ published' = IF pc' = "test_up" THEN 0 ELSE published
  /\ UNCHANGED <<trail, owed>>

\* Fault: an event that did not happen ends the dispatch
TestFlagOrReturn(kind, test, clear, next) ==
  /\ pc = test
  /\ pc' = IF flags[kind] THEN clear ELSE "idle"
  /\ UNCHANGED <<flags, got, published, history>>

\* callback_registry_dispatch_one_type: its test of the flag, and the clearing and
\* the callbacks
TestFlag(kind, test, clear, next) ==
  /\ pc = test
  /\ pc' = IF flags[kind] THEN clear ELSE next
  /\ UNCHANGED <<flags, got, published, history>>

CallBack(kind, clear, next) ==
  /\ At(clear, next)
  /\ flags' = [flags EXCEPT ![kind] = FALSE]
  /\ owed' = [k \in {"up", "down"} |-> owed[k] /\ k # kind]
  /\ UNCHANGED <<got, published, during, trail>>

Dispatch ==
  \/ TestFlag("up", "test_up", "clear_up", "test_down")
  \/ CallBack("up", "clear_up", "test_down")
  \/ TestFlag("down", "test_down", "clear_down", "test_move")
  \/ CallBack("down", "clear_down", "test_move")
  \/ TestFlag("move", "test_move", "clear_move", "idle")
  \/ CallBack("move", "clear_move", "idle")

Application ==
  /\ \/ (CallGetPen \/ GetPen) /\ UNCHANGED flags
     \/ Dispatch
  /\ UNCHANGED <<pen, converter, machine, sample>>

-----------------------------------------------------------------------------
Next == (\E p \in Places : Touch(p)) \/ Lift \/ ByteDone \/ Alarm \/ SpiIsr \/ Application

Fairness == WF_vars(ByteDone) /\ WF_vars(Alarm) /\ WF_vars(SpiIsr) /\ WF_vars(Application)

Spec == Init /\ [][Next]_vars /\ Fairness

-----------------------------------------------------------------------------
(* Properties *)

\* What alt_touchscreen_get_pen returns is a sample the driver showed as a whole at
\* some instant of the call, however often the interrupt routine ran in between.
CoherentSample == [][pc = "check" /\ pc' # "number" => got \in during]_pc

\* A pen reported down is reported at a place it has touched since it was last seen
\* up: never at the place of the touch before, never with a coordinate of two halves
\* that do not belong together.
FreshPosition == pen_down => x \in trail /\ y \in trail

\* The position only changes to a place of the present touch.  While the pen is up it
\* stays the last place the pen was seen at: what the converter returns without a pen
\* is not shown.
LastPlaceKept == [][x' \in trail' /\ y' \in trail']_<<x, y>>

\* A transition of the pen nobody has been told is still in its flag.
NoEventLost == \A k \in {"up", "down"} : owed[k] => flags[k]

\* Every transition of the pen reaches the callbacks.
EventsTold == \A k \in {"up", "down"} : owed[k] ~> ~owed[k]

\* A pen that stays up is reported up, a pen that stays down is reported down.
LiftReported == <>[](pen = Up) => <>[](~got.down)
TouchReported == <>[](pen # Up) => <>[](got.down)

\* The types, a position that belongs to this touch, and no event dropped.
StateOK == TypeOK /\ FreshPosition /\ NoEventLost

\* What the driver shows and what a call returns were so at one instant.
SampleTrue == CoherentSample /\ LastPlaceKept

\* The application learns how the pen stands in the end.
PenReported == LiftReported /\ TouchReported
=============================================================================
