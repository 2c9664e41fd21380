--------------------------------- MODULE I2cBus ---------------------------------
(***************************************************************************)
(* The I2C master, its client and a device on the two open-drain lines.    *)
(* The device is an ordinary I2C slave: it follows START and STOP, samples *)
(* sda when scl rises, changes sda when scl falls, acknowledges or not,    *)
(* and may keep scl low for as long as it likes.  One that does not answer *)
(* to the address keeps listening but never pulls a line.                  *)
(*                                                                         *)
(* OpenDrain = FALSE is the copy of the master in CLOCK/i2c_master.vhd,    *)
(* which drives scl to '1' where this one lets it go.                      *)
(***************************************************************************)
EXTENDS I2cMaster, Sequences

CONSTANTS
    OpenDrain,
    Commands,       \* values of addr & rw
    Words,          \* bytes written and read
    HoldsRequest,   \* the client keeps ena, addr and rw from the last bit of a
                    \* byte read to the end of its acknowledge
    WaitsForIdle,   \* the client raises ena in ready only when busy is low
    X               \* a line driven both ways

ASSUME BusAssumption ==
    /\ {OpenDrain, HoldsRequest, WaitsForIdle} \subseteq BOOLEAN
    /\ Commands \subseteq Word /\ Words \subseteq Word
    /\ X \notin Bit

VARIABLES
    phase,      \* the device: "off", "byte", "ack", "send", "master_ack"
    bits,       \* bits received so far, or still to show, first one first
    isCommand, addressed, acks, hold,
    shown,      \* the byte the device shows or last showed
    request,    \* ena, addr & rw at the last bit of a byte read
    due,        \* bytes handed to the master that the device has not received
    nacked,     \* an acknowledge was missing in this transaction
    rises       \* rising edges of busy since a request was last taken

device == <<phase, bits, isCommand, addressed, acks, hold, shown>>
client == <<request, due, nacked, rises>>
vars == <<masterVars, device, client>>

NoRequest == [ena |-> FALSE, cmd |-> Zero]
Requests == {NoRequest} \cup [ena : {TRUE}, cmd : Commands]

deviceLow ==
    \/ phase = "ack" /\ acks
    \/ phase = "send" /\ Head(bits) = 0
sda == IF sda_ena_n = 0 \/ deviceLow THEN 0 ELSE 1
scl == IF scl_out = 0 THEN 0
       ELSE IF ~hold THEN 1 ELSE IF OpenDrain THEN 0 ELSE X

BInit ==
    /\ Init
    /\ phase = "off" /\ bits = << >>
    /\ isCommand = FALSE /\ addressed = FALSE /\ acks = FALSE /\ hold = FALSE
    /\ shown = Zero
    /\ request = NoRequest /\ due = << >> /\ nacked = FALSE /\ rises = 1

-----------------------------------------------------------------------------
(* The device, seeing the lines after a step of the master. *)

InOrder(word) == [i \in 1 .. Width |-> word[Width - i]]
AsWord(seq) == [i \in 0 .. Msb |-> seq[Width - i]]
Released == [i \in 0 .. Msb |-> 1]

\* The device may take scl when it falls, and lets it go at any time.
HoldsClock ==
    hold' \in IF hold \/ (phase # "off" /\ scl = 1 /\ scl_out' = 0)
              THEN BOOLEAN ELSE {FALSE}

SeesStart ==
    /\ phase' = "byte" /\ bits' = << >> /\ isCommand' = TRUE
    /\ addressed' = FALSE
    /\ UNCHANGED <<acks, shown>>

SeesStop ==
    /\ phase' = "off" /\ bits' = << >>
    /\ UNCHANGED <<isCommand, addressed, acks, shown>>

\* scl rises.
Samples ==
    /\ UNCHANGED <<phase, isCommand, addressed, shown>>
    /\ bits' = IF phase = "byte" THEN Append(bits, sda') ELSE bits
    /\ acks' = IF phase = "master_ack" THEN sda' = 0 ELSE acks

Loads ==
    /\ shown' \in IF addressed THEN Words ELSE {Released}
    /\ bits' = InOrder(shown')
    /\ phase' = "send"

Listens == phase' = "byte" /\ bits' = << >> /\ UNCHANGED shown

\* scl falls.
EndsByte ==
    /\ phase = "byte" /\ Len(bits) = Width
    /\ phase' = "ack"
    /\ acks' \in IF isCommand \/ addressed THEN BOOLEAN ELSE {FALSE}
    /\ addressed' = IF isCommand THEN acks' ELSE addressed
    /\ UNCHANGED <<bits, isCommand, shown>>

EndsAck ==
    /\ phase = "ack"
    /\ IF isCommand /\ bits[Width] = 1 THEN Loads ELSE Listens
    /\ isCommand' = FALSE
    /\ UNCHANGED <<addressed, acks>>

EndsBit ==
    /\ phase = "send"
    /\ bits' = Tail(bits)
    /\ phase' = IF Len(bits) = 1 THEN "master_ack" ELSE "send"
    /\ UNCHANGED <<isCommand, addressed, acks, shown>>

EndsMasterAck ==
    /\ phase = "master_ack"
    /\ IF acks THEN Loads ELSE phase' = "off" /\ UNCHANGED <<bits, shown>>
    /\ UNCHANGED <<isCommand, addressed, acks>>

SclFalls ==
    \/ EndsByte \/ EndsAck \/ EndsBit \/ EndsMasterAck
    \/ /\ phase = "off" \/ (phase = "byte" /\ Len(bits) < Width)
       /\ UNCHANGED <<phase, bits, isCommand, addressed, acks, shown>>

\* While scl is high the device does not change sda itself.
Device ==
    /\ HoldsClock
    /\ IF scl = 1 /\ scl' = 1
       THEN IF sda_ena_n = sda_ena_n' \/ deviceLow
            THEN UNCHANGED <<phase, bits, isCommand, addressed, acks, shown>>
            ELSE IF sda_ena_n' = 0 THEN SeesStart ELSE SeesStop
       ELSE IF scl # 1 /\ scl' = 1 THEN Samples
       ELSE IF scl = 1 /\ scl' # 1 THEN SclFalls
       ELSE UNCHANGED <<phase, bits, isCommand, addressed, acks, shown>>

-----------------------------------------------------------------------------
(* The client. *)

Completes == phase = "byte" /\ phase' = "ack"

\* The bytes a request adds, and the one the device has just received.
Due(new) == due' = (IF Completes THEN SubSeq(due, 2, Len(due)) ELSE due) \o new

Takes(cmd, data_wr) ==
    IF cmd[0] = 1 THEN <<cmd>> ELSE <<cmd, data_wr>>

BusyRose == IF busy = 0 /\ busy' = 1 THEN 1 ELSE 0

BAccept ==
    /\ WaitsForIdle => busy = 0
    /\ \E cmd \in Commands, data \in Words :
        Accept(cmd, data) /\ ClockGen(scl) /\ Device /\ Due(Takes(cmd, data))
    /\ rises' = BusyRose
    /\ UNCHANGED <<request, nacked>>

BContinue ==
    /\ \E cmd \in Commands, data \in Words :
        /\ state = "mstr_ack" /\ HoldsRequest => request = [ena |-> TRUE, cmd |-> cmd]
        /\ Continue(cmd, data) /\ ClockGen(scl) /\ Device
        /\ Due(IF cmd # addr_rw THEN Takes(cmd, data)
               ELSE IF cmd[0] = 1 THEN << >> ELSE <<data>>)
    /\ rises' = 0
    /\ UNCHANGED <<request, nacked>>

BComplete ==
    /\ state = "mstr_ack" /\ HoldsRequest => ~request.ena
    /\ Complete /\ ClockGen(scl) /\ Device /\ Due(<< >>)
    /\ UNCHANGED <<request, nacked, rises>>

BRdLast ==
    /\ \E r \in Requests : RdLast(r.ena, r.cmd) /\ request' = r
    /\ ClockGen(scl) /\ Device /\ Due(<< >>)
    /\ rises' = rises + BusyRose
    /\ UNCHANGED nacked

Bits == Idle \/ StartBit \/ Command \/ Wr \/ SlvAck1 \/ RdBit \/ StopBit

BBits ==
    /\ Bits /\ ClockGen(scl) /\ Device /\ Due(<< >>)
    /\ rises' = rises + BusyRose
    /\ UNCHANGED <<request, nacked>>

BFalls ==
    /\ StartFalls \/ AckFalls(sda) \/ RdFalls(sda) \/ StopFalls \/ OtherFalls
    /\ ClockGen(scl) /\ Device /\ Due(<< >>)
    /\ nacked' = IF state = "start" /\ scl_ena = 0 THEN FALSE
                 ELSE nacked \/ (phase = "ack" /\ ~acks)
    /\ UNCHANGED <<request, rises>>

BNoEdge ==
    /\ NoEdge /\ ClockGen(scl) /\ Device /\ Due(<< >>)
    /\ UNCHANGED <<request, nacked, rises>>

\* The board's reset reaches the device.
BReset ==
    /\ Reset
    /\ phase' = "off" /\ bits' = << >> /\ hold' = FALSE
    /\ due' = << >> /\ nacked' = FALSE /\ rises' = 1
    /\ UNCHANGED <<isCommand, addressed, acks, shown, request>>

Tick ==
    \/ BAccept \/ BContinue \/ BComplete \/ BRdLast \/ BBits \/ BFalls \/ BNoEdge

Next == Tick \/ BReset

Spec == BInit /\ [][Next]_vars

\* clk keeps running, and the device lets scl go in the end.
FairSpec == Spec /\ WF_vars(Tick /\ ~hold')
-----------------------------------------------------------------------------
ClocksOK ==
    /\ count \in 0 .. 4 * divider - 1
    /\ stretch \in BOOLEAN
    /\ scl_clk \in Bit /\ data_clk \in Bit /\ data_clk_prev \in Bit

MachineOK ==
    /\ state \in {"ready", "start", "command", "slv_ack1", "wr", "rd", "slv_ack2",
                  "mstr_ack", "stop"}
    /\ busy \in Bit /\ scl_ena \in Bit /\ sda_int \in Bit /\ ack_error \in Bit
    /\ addr_rw \in Word /\ data_tx \in Word /\ data_rx \in Word /\ data_rd \in Word
    /\ bit_cnt \in 0 .. Msb

DeviceOK ==
    /\ phase \in {"off", "byte", "ack", "send", "master_ack"}
    /\ bits \in Seq(Bit) /\ Len(bits) <= Width
    /\ shown \in Word
    /\ isCommand \in BOOLEAN /\ addressed \in BOOLEAN
    /\ acks \in BOOLEAN /\ hold \in BOOLEAN

\* Every register keeps to its width, the device's shift register included.
TypeOK == ClocksOK /\ MachineOK /\ DeviceOK

(* With scl high, sda changes only to make START, in state start, and      *)
(* STOP, in state stop; both are reached with the device off the line.     *)
SdaStable ==
    [][~BReset /\ scl = 1 /\ scl' = 1 /\ sda # sda'
         => \/ state = "start" /\ sda' = 0
            \/ state = "stop" /\ sda' = 1]_vars

(* The device receives exactly the bytes the requests stand for, command   *)
(* before data, each bit for bit, however long it stretches the clock ...  *)
BytesArrive ==
    [][Completes => due # << >> /\ AsWord(bits) = Head(due)]_vars

(* ... and has all of them when a transaction ends, with STOP on the bus.  *)
NothingLeftOut == state = "ready" => due = << >> /\ phase = "off"

(* data_rd takes the byte the device showed, and all ones if none answered.*)
ReadsShown == [][state = "rd" /\ state' = "mstr_ack" => data_rd' = shown]_vars

(* At the end of a transaction ack_error says if any acknowledge was       *)
(* missing since its first START; repeated starts do not clear it.         *)
AckErrorTells == state \in {"stop", "ready"} => (ack_error = 1) = nacked

(* While the device keeps scl low the third quarter does not end.          *)
StretchHonoured == [][hold /\ Quarter(count) = 2 => Quarter(count') = 2 \/ BReset]_vars

(* busy rises once for each request, which is how a client counts them.    *)
BusyRisesOnce ==
    /\ rises <= 1
    /\ state \in {"slv_ack2", "mstr_ack", "stop"} => rises = 1

(* A byte under way ends, unless the device keeps scl low for ever.        *)
BytesComplete ==
    state \in {"start", "command", "slv_ack1", "wr", "rd"}
      ~> state \in {"slv_ack2", "mstr_ack", "ready"}

(* The device takes the last byte read as the last: a no-acknowledge is    *)
(* sent before STOP and before a repeated start.                           *)
NackBeforeStop ==
    [][state = "mstr_ack" /\ state' \in {"start", "stop"} => sda_int = 1]_vars

(* Every transaction opens with sda falling while scl is high.             *)
OpensWithStart ==
    [][~BReset /\ "start" \in {state, state'} /\ sda = 1 /\ sda' = 0
         => scl = 1 /\ scl' = 1]_vars

(* The rules of the bus, at every step of a transaction: START and STOP    *)
(* where they are meant and nowhere else, the last byte read refused, and  *)
(* a stretching device waited for.                                         *)
BusRules == SdaStable /\ OpensWithStart /\ NackBeforeStop /\ StretchHonoured

(* What one end puts on the bus the other has: bytes both ways, and the    *)
(* acknowledges, summed up in ack_error.                                   *)
BytesCross == BytesArrive /\ ReadsShown /\ [](NothingLeftOut /\ AckErrorTells)
================================================================================
