------------------------------ MODULE JtagUart ------------------------------
(***************************************************************************)
(* The interrupt-driven driver of the JTAG UART (the "fast" driver of      *)
(* altera_avalon_jtag_uart_*.c, without an operating system): two ring     *)
(* buffers between the program, which calls read, write and close, and the *)
(* interrupt routine, which serves the receive and transmit FIFOs of the   *)
(* device; and an alarm that counts how long the host has been silent.     *)
(*                                                                         *)
(* The interrupt routine and the alarm run between any two steps of the    *)
(* program and are not interrupted by each other; the host fills and       *)
(* empties the FIFOs, is unplugged and plugged in at any time.             *)
(*                                                                         *)
(* The k-th character in each direction is the number k.  received and     *)
(* hostGot are what came out at the other end.                             *)
(***************************************************************************)
EXTENDS Integers, Sequences

CONSTANTS
  BufLen,             \* ALTERA_AVALON_JTAG_UART_BUF_LEN
  RxDepth, TxDepth,   \* the FIFOs of the device
  Timeout,            \* sp->timeout
  Counts,             \* the count and space arguments of the calls
  MaxIn, MaxOut       \* characters the host sends, the program writes

ASSUME BufAssumption == BufLen \in Nat /\ BufLen > 1
ASSUME DepthAssumption == RxDepth \in Nat \ {0} /\ TxDepth \in Nat \ {0}
ASSUME TimeoutAssumption == Timeout \in Nat \ {0}
ASSUME CountsAssumption == Counts \subseteq Nat \ {0}
ASSUME BoundAssumption == MaxIn \in Nat /\ MaxOut \in Nat

EWOULDBLOCK == -11
EIO == -5

VARIABLES
  rx_buf, rx_in, rx_out, tx_buf, tx_in, tx_out,  \* the two rings
  irq_enable,                                    \* the RE and WE bits
  host_inactive,                                 \* seconds of silence
  rxFifo, txFifo, ac,                            \* the device; its AC bit
  pc, nonblock, left, done, in, out, n, chunk,   \* the program in a call
  isr, wspace,                                   \* the interrupt routine
  connected, hostSent, hostGot,                  \* the host
  written, claimed, received                     \* history: characters put into
              \* the ring, returned as written to the caller, read by it

rxRing == <<rx_buf, rx_in, rx_out>>
txRing == <<tx_buf, tx_in, tx_out>>
device == <<rxFifo, txFifo, ac>>
call == <<pc, nonblock, left, done, in, out, n, chunk>>
routine == <<isr, wspace>>
host == <<connected, hostSent, hostGot>>
history == <<written, claimed, received>>
vars == <<rxRing, txRing, irq_enable, host_inactive, device, call, routine, host, history>>

-----------------------------------------------------------------------------
Slots == 0 .. BufLen - 1
Lesser(a, b) == IF a < b THEN a ELSE b

\* The k characters of a ring from slot o on
Content(buf, o, k) == [i \in 1 .. k |-> buf[(o + i - 1) % BufLen]]
RxCount == (rx_in + BufLen - rx_out) % BufLen
TxCount == (tx_in + BufLen - tx_out) % BufLen
RxFull == (rx_in + 1) % BufLen = rx_out

\* The characters s stored in a ring from slot i on
Stored(buf, i, s) ==
  [k \in Slots |-> LET j == (k + BufLen - i) % BufLen
                   IN  IF j < Len(s) THEN s[j + 1] ELSE buf[k]]

Gone == host_inactive >= Timeout

Pcs == {"idle", "w_look", "w_copy", "w_advance", "w_kick", "w_wait", "w_return",
        "r_look", "r_copy", "r_advance", "r_wait", "r_enable", "r_return", "c_wait"}

TypeOK ==
  /\ rx_buf \in [Slots -> 0 .. MaxIn] /\ tx_buf \in [Slots -> 0 .. MaxOut]
  /\ rx_in \in Slots /\ rx_out \in Slots /\ tx_in \in Slots /\ tx_out \in Slots
  /\ irq_enable \in [re : BOOLEAN, we : BOOLEAN]
  /\ host_inactive \in 0 .. Timeout
  /\ rxFifo \in Seq(1 .. MaxIn) /\ txFifo \in Seq(0 .. MaxOut) /\ ac \in BOOLEAN
  /\ pc \in Pcs /\ nonblock \in BOOLEAN
  /\ left \in Nat /\ done \in Nat /\ in \in Slots /\ out \in Slots /\ n \in Nat
  /\ chunk \in Seq(0 .. MaxIn)
  /\ isr \in {"off", "look", "rx", "tx"} /\ wspace \in 0 .. TxDepth
  /\ connected \in BOOLEAN /\ hostSent \in 0 .. MaxIn /\ hostGot \in Seq(0 .. MaxOut)
  /\ written \in 0 .. MaxOut /\ claimed \in 0 .. MaxOut /\ received \in Seq(0 .. MaxIn)

\* altera_avalon_jtag_uart_init
Init ==
  /\ rx_buf = [s \in Slots |-> 0] /\ rx_in = 0 /\ rx_out = 0
  /\ tx_buf = [s \in Slots |-> 0] /\ tx_in = 0 /\ tx_out = 0
  /\ irq_enable = [re |-> TRUE, we |-> FALSE]
  /\ host_inactive = 0
  /\ rxFifo = << >> /\ txFifo = << >> /\ ac = FALSE
  /\ pc = "idle" /\ nonblock = FALSE
  /\ left = 0 /\ done = 0 /\ in = 0 /\ out = 0 /\ n = 0 /\ chunk = << >>
  /\ isr = "off" /\ wspace = 0
  /\ connected \in BOOLEAN /\ hostSent = 0 /\ hostGot = << >>
  /\ written = 0 /\ claimed = 0 /\ received = << >>

-----------------------------------------------------------------------------
(* altera_avalon_jtag_uart_write *)

AppAt(p) == pc = p /\ isr = "off"

\* A call returns; its locals are gone.
Returns ==
  /\ pc' = "idle" /\ nonblock' = FALSE
  /\ left' = 0 /\ done' = 0 /\ in' = 0 /\ out' = 0 /\ n' = 0 /\ chunk' = << >>

\* Fault: a call without blocking is told so first
ReturnBlockFirst == IF nonblock THEN EWOULDBLOCK ELSE IF done > 0 THEN done ELSE EIO

\* What read and write return: the characters moved, or an error if none was
ReturnValue == IF done > 0 THEN done ELSE IF nonblock THEN EWOULDBLOCK ELSE EIO

CallWrite ==
  /\ AppAt("idle")
  /\ left' \in Counts /\ written + left' <= MaxOut
  /\ nonblock' \in BOOLEAN
  /\ pc' = "w_look"
  /\ UNCHANGED <<rxRing, txRing, irq_enable, host_inactive, device, done, in, out, n, chunk,
                 routine, host, history>>

\* Fault: a ring that ends at slot 0 is taken for one with all slots free
WriteRoomAll == IF tx_in < tx_out THEN tx_out - 1 - tx_in ELSE BufLen - tx_in

\* The stretch of slots the program may fill without wrapping
WriteRoom == IF tx_in < tx_out THEN tx_out - 1 - tx_in
             ELSE IF tx_out > 0 THEN BufLen - tx_in
             ELSE BufLen - 1 - tx_in

WriteLook ==
  /\ AppAt("w_look")
  /\ in' = tx_in /\ out' = tx_out
  /\ n' = Lesser(WriteRoom, left)
  /\ pc' = IF WriteRoom = 0 THEN "w_kick" ELSE "w_copy"
  /\ UNCHANGED <<rxRing, txRing, irq_enable, host_inactive, device, nonblock, left, done, chunk,
                 routine, host, history>>

WriteCopy ==
  /\ AppAt("w_copy")
  /\ tx_buf' = [s \in Slots |-> IF s \in in .. in + n - 1 THEN written + s - in + 1 ELSE tx_buf[s]]
  /\ done' = done + n /\ left' = left - n
  /\ pc' = "w_advance"
  /\ UNCHANGED <<rxRing, tx_in, tx_out, irq_enable, host_inactive, device, nonblock, in, out, n,
                 chunk, routine, host, history>>

WriteAdvance ==
  /\ AppAt("w_advance")
  /\ tx_in' = (in + n) % BufLen
  /\ written' = written + n
  /\ pc' = IF left > 0 THEN "w_look" ELSE "w_kick"
  /\ UNCHANGED <<rxRing, tx_buf, tx_out, irq_enable, host_inactive, device, nonblock, left, done,
                 in, out, n, chunk, routine, host, claimed, received>>

\* Fault: the interrupt is turned on only when the ring was full
KickIfFull ==
  /\ AppAt("w_kick")
  /\ irq_enable' = [irq_enable EXCEPT !.we = @ \/ left > 0]
  /\ pc' = IF left > 0 /\ ~nonblock THEN "w_wait" ELSE "w_return"
  /\ UNCHANGED <<rxRing, txRing, host_inactive, device, nonblock, left, done, in, out, n, chunk,
                 routine, host, history>>

\* With interrupts disabled: the transmit interrupt is turned on.
WriteKick ==
  /\ AppAt("w_kick")
  /\ irq_enable' = [irq_enable EXCEPT !.we = TRUE]
  /\ pc' = IF left > 0 /\ ~nonblock THEN "w_wait" ELSE "w_return"
  /\ UNCHANGED <<rxRing, txRing, host_inactive, device, nonblock, left, done, in, out, n, chunk,
                 routine, host, history>>

\* Fault: the loop waits for the routine alone
WaitForRoom ==
  /\ AppAt("w_wait")
  /\ out # tx_out
  /\ pc' = "w_look"
  /\ UNCHANGED <<rxRing, txRing, irq_enable, host_inactive, device, nonblock, left, done, in, out,
                 n, chunk, routine, host, history>>

\* The spinning loop ends when the routine took a character or the host is gone.
WriteWait ==
  /\ AppAt("w_wait")
  /\ out # tx_out \/ Gone
  /\ pc' = IF out # tx_out THEN "w_look" ELSE "w_return"
  /\ UNCHANGED <<rxRing, txRing, irq_enable, host_inactive, device, nonblock, left, done, in, out,
                 n, chunk, routine, host, history>>

\* The caller takes a negative value for nothing written.
WriteReturn ==
  /\ AppAt("w_return")
  /\ claimed' = IF ReturnValue > 0 THEN claimed + ReturnValue ELSE claimed
  /\ Returns
  /\ UNCHANGED <<rxRing, txRing, irq_enable, host_inactive, device, routine, host, written,
                 received>>

-----------------------------------------------------------------------------
(* altera_avalon_jtag_uart_read *)

CallRead ==
  /\ AppAt("idle")
  /\ left' \in Counts
  /\ nonblock' \in BOOLEAN
  /\ pc' = "r_look"
  /\ UNCHANGED <<rxRing, txRing, irq_enable, host_inactive, device, done, in, out, n, chunk,
                 routine, host, history>>

\* The stretch of characters the program may take without wrapping
ReadRun == IF rx_in >= rx_out THEN rx_in - rx_out ELSE BufLen - rx_out

ReadLook ==
  /\ AppAt("r_look")
  /\ in' = rx_in /\ out' = rx_out
  /\ n' = Lesser(ReadRun, left)
  /\ pc' = IF ReadRun > 0 THEN "r_copy" ELSE IF done > 0 THEN "r_enable"
           ELSE IF nonblock THEN "r_return" ELSE "r_wait"
  /\ UNCHANGED <<rxRing, txRing, irq_enable, host_inactive, device, nonblock, left, done, chunk,
                 routine, host, history>>

ReadCopy ==
  /\ AppAt("r_copy")
  /\ chunk' = Content(rx_buf, out, n)
  /\ done' = done + n /\ left' = left - n
  /\ pc' = "r_advance"
  /\ UNCHANGED <<rxRing, txRing, irq_enable, host_inactive, device, nonblock, in, out, n,
                 routine, host, history>>

\* Fault: the index does not wrap
AdvanceStraight ==
  /\ AppAt("r_advance")
  /\ rx_out' = out + n
  /\ received' = received \o chunk
  /\ chunk' = << >>
  /\ pc' = IF left > 0 THEN "r_look" ELSE "r_enable"
  /\ UNCHANGED <<rx_buf, rx_in, txRing, irq_enable, host_inactive, device, nonblock, left, done,
                 in, out, n, routine, host, written, claimed>>

ReadAdvance ==
  /\ AppAt("r_advance")
  /\ rx_out' = (out + n) % BufLen
  /\ received' = received \o chunk
  /\ chunk' = << >>
  /\ pc' = IF left > 0 THEN "r_look" ELSE "r_enable"
  /\ UNCHANGED <<rx_buf, rx_in, txRing, irq_enable, host_inactive, device, nonblock, left, done,
                 in, out, n, routine, host, written, claimed>>

ReadWait ==
  /\ AppAt("r_wait")
  /\ in # rx_in \/ Gone
  /\ pc' = IF in # rx_in THEN "r_look" ELSE "r_return"
  /\ UNCHANGED <<rxRing, txRing, irq_enable, host_inactive, device, nonblock, left, done, in, out,
                 n, chunk, routine, host, history>>

\* Something was read, so there is room: the receive interrupt is turned on.
ReadEnable ==
  /\ AppAt("r_enable")
  /\ irq_enable' = [irq_enable EXCEPT !.re = TRUE]
  /\ pc' = "r_return"
  /\ UNCHANGED <<rxRing, txRing, host_inactive, device, nonblock, left, done, in, out, n, chunk,
                 routine, host, history>>

ReadReturn ==
  /\ AppAt("r_return")
  /\ Returns
  /\ UNCHANGED <<rxRing, txRing, irq_enable, host_inactive, device, routine, host, history>>

-----------------------------------------------------------------------------
(* altera_avalon_jtag_uart_close *)

CallClose ==
  /\ AppAt("idle")
  /\ nonblock' \in BOOLEAN
  /\ pc' = "c_wait"
  /\ UNCHANGED <<rxRing, txRing, irq_enable, host_inactive, device, left, done, in, out, n, chunk,
                 routine, host, history>>

CloseReturn ==
  /\ AppAt("c_wait")
  /\ tx_out = tx_in \/ Gone \/ nonblock
  /\ Returns
  /\ UNCHANGED <<rxRing, txRing, irq_enable, host_inactive, device, routine, host, history>>

Serve == \/ WriteLook \/ WriteCopy \/ WriteAdvance \/ WriteKick \/ WriteWait \/ WriteReturn
         \/ ReadLook \/ ReadCopy \/ ReadAdvance \/ ReadWait \/ ReadEnable \/ ReadReturn
         \/ CloseReturn
Call == CallWrite \/ CallRead \/ CallClose

-----------------------------------------------------------------------------
(* altera_avalon_jtag_uart_irq.  RI and WI are the interrupts the device   *)
(* raises for the bits enabled; the device may raise them later than this, *)
(* which is the routine starting late.                                     *)

RI == irq_enable.re /\ rxFifo # << >>
WI == irq_enable.we /\ Len(txFifo) < TxDepth

IrqEnter ==
  /\ isr = "off" /\ (RI \/ WI)
  /\ isr' = "look"
  /\ UNCHANGED <<rxRing, txRing, irq_enable, host_inactive, device, call, wspace, host, history>>

\* The control register is read once for both parts of the loop's body.
IrqLook ==
  /\ isr = "look"
  /\ isr' = IF RI THEN "rx" ELSE IF WI THEN "tx" ELSE "off"
  /\ wspace' = IF WI THEN TxDepth - Len(txFifo) ELSE 0
  /\ UNCHANGED <<rxRing, txRing, irq_enable, host_inactive, device, call, host, history>>

\* Characters are taken until the ring is full or the FIFO empty; what the
\* FIFO still holds then turns the receive interrupt off.
IrqReceive ==
  /\ isr = "rx"
  /\ LET k == Lesser(BufLen - 1 - RxCount, Len(rxFifo))
     IN  /\ rx_buf' = Stored(rx_buf, rx_in, SubSeq(rxFifo, 1, k))
         /\ rx_in' = (rx_in + k) % BufLen
         /\ rxFifo' = SubSeq(rxFifo, k + 1, Len(rxFifo))
  /\ irq_enable' = [irq_enable EXCEPT !.re = @ /\ rxFifo' = << >>]
  /\ isr' = IF wspace > 0 THEN "tx" ELSE "look"
  /\ UNCHANGED <<rx_out, txRing, host_inactive, txFifo, ac, call, wspace, host, history>>

\* Fault: the routine turns its interrupt off whenever it has run
TransmitOnce ==
  /\ isr = "tx"
  /\ LET k == Lesser(wspace, TxCount)
     IN  /\ txFifo' = txFifo \o Content(tx_buf, tx_out, k)
         /\ tx_out' = (tx_out + k) % BufLen
  /\ irq_enable' = [irq_enable EXCEPT !.we = FALSE]
  /\ isr' = "look" /\ wspace' = 0
  /\ UNCHANGED <<rxRing, tx_buf, tx_in, host_inactive, rxFifo, ac, call, host, history>>

\* Characters are sent until the space or the ring is used up; space left
\* turns the transmit interrupt off.
IrqTransmit ==
  /\ isr = "tx"
  /\ LET k == Lesser(wspace, TxCount)
     IN  /\ txFifo' = txFifo \o Content(tx_buf, tx_out, k)
         /\ tx_out' = (tx_out + k) % BufLen
         /\ irq_enable' = [irq_enable EXCEPT !.we = @ /\ k = wspace]
  /\ isr' = "look" /\ wspace' = 0
  /\ UNCHANGED <<rxRing, tx_buf, tx_in, host_inactive, rxFifo, ac, call, host, history>>

Irq == IrqEnter \/ IrqLook \/ IrqReceive \/ IrqTransmit

\* altera_avalon_jtag_uart_timeout; the count is capped where it decides.
Alarm ==
  /\ isr = "off"
  /\ IF ac THEN ac' = FALSE /\ host_inactive' = 0
           ELSE host_inactive' = Lesser(host_inactive + 1, Timeout) /\ UNCHANGED ac
  /\ UNCHANGED <<rxRing, txRing, irq_enable, rxFifo, txFifo, call, routine, host, history>>

-----------------------------------------------------------------------------
(* The host and its cable *)

HostSend ==
  /\ connected /\ hostSent < MaxIn /\ Len(rxFifo) < RxDepth
  /\ hostSent' = hostSent + 1
  /\ rxFifo' = Append(rxFifo, hostSent + 1)
  /\ ac' = TRUE
  /\ UNCHANGED <<rxRing, txRing, irq_enable, host_inactive, txFifo, call, routine, connected,
                 hostGot, history>>

HostTake ==
  /\ connected /\ txFifo # << >>
  /\ hostGot' = Append(hostGot, Head(txFifo))
  /\ txFifo' = Tail(txFifo)
  /\ ac' = TRUE
  /\ UNCHANGED <<rxRing, txRing, irq_enable, host_inactive, rxFifo, call, routine, connected,
                 hostSent, history>>

HostPoll ==
  /\ connected
  /\ ac' = TRUE
  /\ UNCHANGED <<rxRing, txRing, irq_enable, host_inactive, rxFifo, txFifo, call, routine, host,
                 history>>

Plug ==
  /\ connected' = ~connected
  /\ UNCHANGED <<rxRing, txRing, irq_enable, host_inactive, device, call, routine, hostSent,
                 hostGot, history>>

Host == HostSend \/ HostTake \/ HostPoll \/ Plug

Next == Call \/ Serve \/ Irq \/ Alarm \/ Host

\* The processor runs the program and serves interrupts, the alarm goes off
\* every second, and a host that is there takes what the device has for it.
Spec == /\ Init /\ [][Next]_vars
        /\ WF_vars(Serve) /\ WF_vars(Irq) /\ WF_vars(Alarm) /\ WF_vars(HostTake)
-----------------------------------------------------------------------------
(* Properties                                                              *)

\* The characters 1 .. k in their order
Upto(k) == [i \in 1 .. k |-> i]

\* What the host sent is what the program received, then what lies in the ring,
\* then what lies in the FIFO: none lost, repeated or out of order, though the
\* routine fills the ring between the copy of a stretch and the move of rx_out.
ReceivedInOrder ==
  received \o Content(rx_buf, rx_out, RxCount) \o rxFifo = Upto(hostSent)

\* The same the other way: the copy reaches the ring before tx_in does.
SentInOrder ==
  hostGot \o txFifo \o Content(tx_buf, tx_out, TxCount) = Upto(written)

\* No lost wake-up of the transmitter: outside a call that is about to turn the
\* interrupt on, characters in the ring mean that it is on, although the
\* routine turns it off on its own finding.
TransmitterAwake ==
  tx_in # tx_out /\ pc \notin {"w_look", "w_copy", "w_advance", "w_kick"}
    => irq_enable.we

\* No lost wake-up of the receiver: the receive interrupt is off only while the
\* ring is full, or a read that made room is about to turn it on.
ReceiverAwake ==
  ~irq_enable.re => RxFull \/ (done > 0 /\ pc \in {"r_look", "r_copy", "r_advance", "r_enable"})

\* The caller of write knows how much was taken: it sends the rest again after
\* a short count or an error, so nothing may go out that was not reported, and
\* nothing be reported that did not go out.
CallerKnows == pc = "idle" => claimed = written

\* Characters written reach the host, if it is there from some time on (the
\* program writes MaxOut at most, so that they are all there again and again).
Delivered == <>[]connected => []<>(Len(hostGot) = written)

\* Characters the host sent are read, by a program that reads again and again.
AllRead ==
  []<>(pc = "r_look") => []<>(Len(received) = hostSent)

\* A blocking write or close returns, be the host there or gone for good: the
\* routine makes room, or the alarm counts up to the time-out.
CallsReturn ==
  <>[]connected \/ <>[]~connected =>
    (pc \in {"w_look", "c_wait"} ~> pc = "idle")

\* A blocking read does not wait for a host that is gone for good.
ReadGivesUp == <>[]~connected => (pc = "r_look" ~> pc = "idle")

\* Both streams cross the ring and the FIFO unharmed.
InOrder == ReceivedInOrder /\ SentInOrder

\* Neither direction is left asleep with work to do.
NoLostWakeUp == TransmitterAwake /\ ReceiverAwake

\* What one end puts in comes out at the other, as long as both go on.
EverythingArrives == Delivered /\ AllRead

\* No call blocks for good.
CallsEnd == CallsReturn /\ ReadGivesUp
=============================================================================
