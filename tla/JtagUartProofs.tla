--------------------------- MODULE JtagUartProofs ---------------------------
(***************************************************************************)
(* For every size of the rings and the FIFOs, every time-out and every     *)
(* count of the calls: the driver of the JTAG UART keeps its types, no     *)
(* wake-up of the transmitter or the receiver is lost, the caller of write *)
(* is told what was taken, and both streams cross the driver unharmed.     *)
(***************************************************************************)
EXTENDS JtagUart, SequenceTheorems, TLAPS

USE BufAssumption, DepthAssumption, TimeoutAssumption, CountsAssumption, BoundAssumption

-----------------------------------------------------------------------------
(* Arithmetic of the rings.  Wrap is the remainder for the sums that occur *)
(* and Dist the number of characters between two indices, both without a   *)
(* division.                                                               *)

Wrap(a) == IF a < BufLen THEN a ELSE a - BufLen
Dist(i, o) == IF i >= o THEN i - o ELSE i + BufLen - o

(* The remainder of a sum below two laps.                                  *)
LEMMA WrapIs ==
  ASSUME NEW a \in Nat, a < 2 * BufLen
  PROVE  a % BufLen = Wrap(a) /\ Wrap(a) \in Slots
BY SMT DEF Wrap, Slots

(* The counts of the rings are the distances of their indices.             *)
LEMMA CountIs ==
  ASSUME NEW i \in Slots, NEW o \in Slots
  PROVE  /\ (i + BufLen - o) % BufLen = Dist(i, o)
         /\ Dist(i, o) \in 0 .. BufLen - 1
<1>1. i + BufLen - o \in Nat /\ i + BufLen - o < 2 * BufLen
  BY DEF Slots
<1>2. QED
  BY <1>1, WrapIs DEF Wrap, Dist, Slots

(* An index moved on as far as its distance meets the other one.           *)
LEMMA MovedOn ==
  ASSUME NEW i \in Slots, NEW o \in Slots, NEW k \in 0 .. Dist(i, o)
  PROVE  /\ (o + k) % BufLen \in Slots
         /\ (o + k) % BufLen = Wrap(o + k)
         /\ Dist(i, (o + k) % BufLen) = Dist(i, o) - k
         /\ k = Dist(i, o) => (o + k) % BufLen = i
<1>1. k \in Nat /\ o + k \in Nat /\ o + k < 2 * BufLen
  BY CountIs DEF Slots
<1>2. (o + k) % BufLen = Wrap(o + k) /\ Wrap(o + k) \in Slots
  BY <1>1, WrapIs
<1>3. QED
  BY <1>1, <1>2 DEF Wrap, Dist, Slots

(* The other index moved on into the room that is left.                    *)
LEMMA Filled ==
  ASSUME NEW i \in Slots, NEW o \in Slots, NEW k \in 0 .. BufLen - 1 - Dist(i, o)
  PROVE  /\ (i + k) % BufLen \in Slots
         /\ (i + k) % BufLen = Wrap(i + k)
         /\ Dist((i + k) % BufLen, o) = Dist(i, o) + k
<1>1. k \in Nat /\ i + k \in Nat /\ i + k < 2 * BufLen
  BY CountIs DEF Slots
<1>2. (i + k) % BufLen = Wrap(i + k) /\ Wrap(i + k) \in Slots
  BY <1>1, WrapIs
<1>3. QED
  BY <1>1, <1>2, CountIs DEF Wrap, Dist, Slots

(* A ring is full when its one empty slot is the only one.                 *)
LEMMA FullIs ==
  ASSUME NEW i \in Slots, NEW o \in Slots
  PROVE  (i + 1) % BufLen = o <=> Dist(i, o) = BufLen - 1
<1>1. i + 1 \in Nat /\ i + 1 < 2 * BufLen
  BY DEF Slots
<1>2. (i + 1) % BufLen = Wrap(i + 1)
  BY <1>1, WrapIs
<1>3. QED
  BY <1>2 DEF Wrap, Dist, Slots

-----------------------------------------------------------------------------
(* What is copied out of a ring and into one.                              *)

(* A copied stretch has the length asked for.                              *)
LEMMA ContentIs ==
  ASSUME NEW S, NEW buf \in [Slots -> S], NEW o \in Slots, NEW k \in 0 .. BufLen
  PROVE  /\ Content(buf, o, k) \in Seq(S)
         /\ Len(Content(buf, o, k)) = k
<1>1. \A i \in 1 .. k : /\ (o + i - 1) % BufLen = Wrap(o + i - 1)
                        /\ Wrap(o + i - 1) \in Slots
  <2> SUFFICES ASSUME NEW i \in 1 .. k
               PROVE  /\ (o + i - 1) % BufLen = Wrap(o + i - 1)
                      /\ Wrap(o + i - 1) \in Slots
      OBVIOUS
  <2>1. o + i - 1 \in Nat /\ o + i - 1 < 2 * BufLen
    BY DEF Slots
  <2>2. QED
    BY <2>1, WrapIs
<1>2. Content(buf, o, k) \in [1 .. k -> S]
  BY <1>1 DEF Content
<1>3. k \in Nat
  OBVIOUS
<1>4. Content(buf, o, k) \in Seq(S)
  BY <1>2, <1>3, SeqDef
<1>5. Len(Content(buf, o, k)) = k
  BY <1>2, <1>3, <1>4, LenProperties
<1>6. QED
  BY <1>4, <1>5

(* A ring that characters are stored in stays a ring.                      *)
LEMMA StoredIs ==
  ASSUME NEW S, NEW buf \in [Slots -> S], NEW i \in Slots, NEW s \in Seq(S), Len(s) < BufLen
  PROVE  Stored(buf, i, s) \in [Slots -> S]
<1>1. Len(s) \in Nat
  BY LenProperties
<1>2. \A k \in Slots : /\ (k + BufLen - i) % BufLen = Dist(k, i)
                       /\ Dist(k, i) \in 0 .. BufLen - 1
  BY CountIs
<1>3. \A k \in Slots : Dist(k, i) < Len(s) => s[Dist(k, i) + 1] \in S
  <2> SUFFICES ASSUME NEW k \in Slots, Dist(k, i) < Len(s) PROVE s[Dist(k, i) + 1] \in S
      OBVIOUS
  <2>1. Dist(k, i) + 1 \in 1 .. Len(s)
    BY <1>1, <1>2
  <2>2. QED
    BY <2>1, ElementOfSeq
<1>4. QED
  BY <1>2, <1>3 DEF Stored

-----------------------------------------------------------------------------
(* The inductive invariant: the types, what a call knows of its locals,    *)
(* what is owed to the caller of write, and the two wake-ups.              *)

\* A call that looks for room or characters has some left to move, and a stretch
\* it copies is not empty.
Locals ==
  /\ n <= BufLen
  /\ pc = "idle" => done = 0
  /\ pc \in {"w_look", "w_wait", "r_look", "r_wait"} => left > 0
  /\ pc \in {"w_copy", "r_copy"} => 0 < n /\ n <= left
  /\ pc \in {"w_advance", "r_advance"} => 0 < n /\ n <= done

\* Characters put into the ring and not yet reported are those of the call under
\* way; the ones it still has to put there are within the bound.
Writing == {"w_look", "w_copy", "w_kick", "w_wait", "w_return"}
Accounts ==
  /\ pc \in Writing => claimed + done = written /\ written + left <= MaxOut
  /\ pc = "w_advance" => claimed + done = written + n /\ written + n + left <= MaxOut
  /\ pc \notin Writing \cup {"w_advance"} => claimed = written

(* Every step keeps what a call knows of its locals.                       *)
LEMMA LocalsStep ==
  ASSUME TypeOK, Locals, [Next]_vars
  PROVE  Locals'
<1>t. left \in Nat /\ done \in Nat /\ n \in Nat /\ pc \in Pcs
  BY DEF TypeOK
<1>r. WriteRoom \in 0 .. BufLen /\ ReadRun \in 0 .. BufLen
  BY DEF TypeOK, WriteRoom, ReadRun, Slots
<1> USE DEF Locals, AppAt
<1>1. CASE CallWrite
  BY <1>1 DEF CallWrite
<1>2. CASE CallRead
  BY <1>2 DEF CallRead
<1>3. CASE CallClose
  BY <1>3 DEF CallClose
<1>4. CASE WriteLook
  BY <1>t, <1>r, <1>4 DEF WriteLook, Lesser
<1>5. CASE ReadLook
  BY <1>t, <1>r, <1>5 DEF ReadLook, Lesser
<1>6. CASE WriteCopy
  BY <1>t, <1>6 DEF WriteCopy
<1>7. CASE ReadCopy
  BY <1>t, <1>7 DEF ReadCopy
<1>8. CASE WriteAdvance
  BY <1>t, <1>8 DEF WriteAdvance
<1>9. CASE ReadAdvance
  BY <1>t, <1>9 DEF ReadAdvance
<1>10. CASE WriteKick
  BY <1>t, <1>10 DEF WriteKick
<1>11. CASE WriteWait
  BY <1>t, <1>11 DEF WriteWait
<1>12. CASE ReadWait
  BY <1>t, <1>12 DEF ReadWait
<1>13. CASE ReadEnable
  BY <1>t, <1>13 DEF ReadEnable
<1>14. CASE WriteReturn \/ ReadReturn \/ CloseReturn
  BY <1>14 DEF WriteReturn, ReadReturn, CloseReturn, Returns
<1>15. CASE UNCHANGED call
  BY <1>15 DEF call
<1>16. CASE Irq
  BY <1>15, <1>16 DEF Irq, IrqEnter, IrqLook, IrqReceive, IrqTransmit
<1>17. CASE Alarm \/ Host
  BY <1>15, <1>17 DEF Alarm, Host, HostSend, HostTake, HostPoll, Plug
<1>18. CASE UNCHANGED vars
  BY <1>15, <1>18 DEF vars
<1>19. QED
  BY <1>1, <1>2, <1>3, <1>4, <1>5, <1>6, <1>7, <1>8, <1>9, <1>10, <1>11, <1>12, <1>13, <1>14,
     <1>16, <1>17, <1>18 DEF Next, Call, Serve

(* Every step keeps the accounts of the caller of write.                   *)
LEMMA AccountsStep ==
  ASSUME TypeOK, Locals, Accounts, [Next]_vars
  PROVE  Accounts'
<1>t. /\ left \in Nat /\ done \in Nat /\ n \in Nat /\ pc \in Pcs
      /\ written \in Nat /\ claimed \in Nat
  BY DEF TypeOK
<1> USE DEF Accounts, Writing, AppAt
<1>1. CASE CallWrite
  <2>1. /\ pc = "idle" /\ pc' = "w_look" /\ done' = done /\ written + left' <= MaxOut
        /\ written' = written /\ claimed' = claimed
    BY <1>1 DEF CallWrite, history
  <2>2. done = 0 /\ claimed = written
    BY <2>1 DEF Locals
  <2>3. QED
    BY <1>t, <2>1, <2>2
<1>2. CASE CallRead
  BY <1>t, <1>2 DEF CallRead, history
<1>3. CASE CallClose
  BY <1>t, <1>3 DEF CallClose, history
<1>4. CASE WriteLook
  BY <1>t, <1>4 DEF WriteLook, history
<1>5. CASE ReadLook
  BY <1>t, <1>5 DEF ReadLook, history
<1>6. CASE WriteCopy
  BY <1>t, <1>6 DEF WriteCopy, Locals, history
<1>7. CASE ReadCopy
  BY <1>t, <1>7 DEF ReadCopy, history
<1>8. CASE WriteAdvance
  BY <1>t, <1>8 DEF WriteAdvance
<1>9. CASE ReadAdvance
  BY <1>t, <1>9 DEF ReadAdvance
<1>10. CASE WriteKick
  BY <1>t, <1>10 DEF WriteKick, history
<1>11. CASE WriteWait
  BY <1>t, <1>11 DEF WriteWait, history
<1>12. CASE ReadWait
  BY <1>t, <1>12 DEF ReadWait, history
<1>13. CASE ReadEnable
  BY <1>t, <1>13 DEF ReadEnable, history
<1>14. CASE WriteReturn
  BY <1>t, <1>14 DEF WriteReturn, ReturnValue, EWOULDBLOCK, EIO, Returns
<1>15. CASE ReadReturn \/ CloseReturn
  BY <1>t, <1>15 DEF ReadReturn, CloseReturn, Returns, history
<1>16. CASE UNCHANGED <<call, history>>
  BY <1>16 DEF call, history
<1>17. CASE Irq
  BY <1>16, <1>17 DEF Irq, IrqEnter, IrqLook, IrqReceive, IrqTransmit
<1>18. CASE Alarm \/ Host
  BY <1>16, <1>18 DEF Alarm, Host, HostSend, HostTake, HostPoll, Plug
<1>19. CASE UNCHANGED vars
  BY <1>16, <1>19 DEF vars
<1>20. QED
  BY <1>1, <1>2, <1>3, <1>4, <1>5, <1>6, <1>7, <1>8, <1>9, <1>10, <1>11, <1>12, <1>13, <1>14,
     <1>15, <1>17, <1>18, <1>19 DEF Next, Call, Serve

-----------------------------------------------------------------------------
(* The types.                                                              *)

(* The interrupt routine keeps the types.                                  *)
LEMMA IrqTypes ==
  ASSUME TypeOK, Irq
  PROVE  TypeOK'
<1>t. /\ rx_buf \in [Slots -> 0 .. MaxIn] /\ tx_buf \in [Slots -> 0 .. MaxOut]
      /\ rx_in \in Slots /\ rx_out \in Slots /\ tx_in \in Slots /\ tx_out \in Slots
      /\ irq_enable \in [re : BOOLEAN, we : BOOLEAN]
      /\ rxFifo \in Seq(1 .. MaxIn) /\ txFifo \in Seq(0 .. MaxOut)
      /\ wspace \in 0 .. TxDepth
  BY DEF TypeOK
<1>l. Len(rxFifo) \in Nat /\ Len(txFifo) \in Nat
  BY <1>t, LenProperties
<1>1. CASE IrqEnter
  BY <1>1 DEF IrqEnter, TypeOK, rxRing, txRing, device, call, host, history
<1>2. CASE IrqLook
  <2>1. wspace' \in 0 .. TxDepth
    BY <1>t, <1>l, <1>2 DEF IrqLook, WI
  <2>2. isr' \in {"off", "look", "rx", "tx"}
    BY <1>2 DEF IrqLook
  <2>3. QED
    BY <1>2, <2>1, <2>2 DEF IrqLook, TypeOK, rxRing, txRing, device, call, host, history
<1>3. CASE IrqReceive
  <2> DEFINE k == Lesser(BufLen - 1 - RxCount, Len(rxFifo))
             taken == SubSeq(rxFifo, 1, k)
             rest == SubSeq(rxFifo, k + 1, Len(rxFifo))
  <2>1. RxCount = Dist(rx_in, rx_out) /\ RxCount \in 0 .. BufLen - 1
    BY <1>t, CountIs DEF RxCount
  <2>2. k \in 0 .. BufLen - 1 - RxCount /\ k <= Len(rxFifo)
    BY <1>l, <2>1 DEF Lesser
  <2>3. /\ rx_buf' = Stored(rx_buf, rx_in, taken) /\ rx_in' = (rx_in + k) % BufLen
        /\ rxFifo' = rest
        /\ irq_enable' = [irq_enable EXCEPT !.re = @ /\ rxFifo' = << >>]
        /\ isr' = IF wspace > 0 THEN "tx" ELSE "look"
        /\ UNCHANGED <<rx_out, txRing, host_inactive, txFifo, ac, call, wspace, host, history>>
    BY <1>3 DEF IrqReceive
  <2> HIDE DEF k
  <2>5. k \in Nat
    BY <2>1, <2>2
  <2>a. \A i \in 1 .. Len(rxFifo) : rxFifo[i] \in 1 .. MaxIn
    BY <1>t, ElementOfSeq
  <2>4. /\ \A i \in 1 .. k : rxFifo[i] \in 0 .. MaxIn
        /\ \A i \in k + 1 .. Len(rxFifo) : rxFifo[i] \in 1 .. MaxIn
    BY <1>l, <2>2, <2>5, <2>a
  <2>6. taken \in Seq(0 .. MaxIn) /\ Len(taken) < BufLen
    BY <2>1, <2>2, <2>4, <2>5, SubSeqProperties
  <2>7. rest \in Seq(1 .. MaxIn)
    <3>1. k + 1 \in Int /\ Len(rxFifo) \in Int
      BY <1>l, <2>5
    <3>2. QED
      BY <3>1, <2>4, SubSeqProperties
  <2> HIDE DEF taken, rest
  <2>8. rx_buf' \in [Slots -> 0 .. MaxIn]
    BY <1>t, <2>3, <2>6, StoredIs
  <2>9. rx_in' \in Slots
    BY <1>t, <2>1, <2>2, <2>3, Filled
  <2>10. irq_enable' \in [re : BOOLEAN, we : BOOLEAN]
    BY <1>t, <2>3
  <2>11. isr' \in {"off", "look", "rx", "tx"} /\ rxFifo' \in Seq(1 .. MaxIn)
    BY <2>3, <2>7
  <2>12. QED
    BY <2>3, <2>8, <2>9, <2>10, <2>11 DEF TypeOK, txRing, call, host, history
<1>4. CASE IrqTransmit
  <2> DEFINE k == Lesser(wspace, TxCount)
  <2>1. TxCount = Dist(tx_in, tx_out) /\ TxCount \in 0 .. BufLen - 1
    BY <1>t, CountIs DEF TxCount
  <2>2. k \in 0 .. TxCount
    BY <1>t, <2>1 DEF Lesser
  <2>3. /\ txFifo' = txFifo \o Content(tx_buf, tx_out, k) /\ tx_out' = (tx_out + k) % BufLen
        /\ irq_enable' = [irq_enable EXCEPT !.we = @ /\ k = wspace]
        /\ isr' = "look" /\ wspace' = 0
        /\ UNCHANGED <<rxRing, tx_buf, tx_in, host_inactive, rxFifo, ac, call, host, history>>
    BY <1>4 DEF IrqTransmit
  <2> HIDE DEF k
  <2>4. k \in 0 .. BufLen
    BY <2>1, <2>2
  <2>5. Content(tx_buf, tx_out, k) \in Seq(0 .. MaxOut)
    BY <1>t, <2>4, ContentIs
  <2>6. txFifo' \in Seq(0 .. MaxOut)
    BY <1>t, <2>3, <2>5, ConcatProperties
  <2>7. tx_out' \in Slots
    BY <1>t, <2>1, <2>2, <2>3, MovedOn
  <2>8. irq_enable' \in [re : BOOLEAN, we : BOOLEAN]
    BY <1>t, <2>3
  <2>9. isr' \in {"off", "look", "rx", "tx"} /\ wspace' \in 0 .. TxDepth
    BY <2>3
  <2>10. QED
    BY <2>3, <2>6, <2>7, <2>8, <2>9 DEF TypeOK, rxRing, call, host, history
<1>5. QED
  BY <1>1, <1>2, <1>3, <1>4 DEF Irq

(* The alarm keeps the types.                                              *)
LEMMA AlarmTypes ==
  ASSUME TypeOK, Alarm
  PROVE  TypeOK'
<1>1. host_inactive \in 0 .. Timeout /\ ac \in BOOLEAN
  BY DEF TypeOK
<1>2. host_inactive' \in 0 .. Timeout
  BY <1>1 DEF Alarm, Lesser
<1>3. ac' \in BOOLEAN
  BY <1>1 DEF Alarm
<1>4. QED
  BY <1>2, <1>3 DEF Alarm, TypeOK, rxRing, txRing, call, routine, host, history

(* The host keeps the types when it fills or empties a FIFO.               *)
LEMMA HostTypes ==
  ASSUME TypeOK, HostSend \/ HostTake
  PROVE  TypeOK'
<1>t. /\ rxFifo \in Seq(1 .. MaxIn) /\ txFifo \in Seq(0 .. MaxOut)
      /\ hostSent \in 0 .. MaxIn /\ hostGot \in Seq(0 .. MaxOut)
  BY DEF TypeOK
<1>1. CASE HostSend
  <2>1. hostSent' \in 0 .. MaxIn /\ hostSent + 1 \in 1 .. MaxIn
    BY <1>t, <1>1 DEF HostSend
  <2>2. rxFifo' \in Seq(1 .. MaxIn)
    BY <1>t, <1>1, <2>1, AppendProperties DEF HostSend
  <2>3. ac' \in BOOLEAN
    BY <1>1 DEF HostSend
  <2>4. QED
    BY <1>1, <2>1, <2>2, <2>3
    DEF HostSend, TypeOK, rxRing, txRing, call, routine, history
<1>2. CASE HostTake
  <2>1. Head(txFifo) \in 0 .. MaxOut /\ txFifo' \in Seq(0 .. MaxOut)
    BY <1>t, <1>2, HeadTailProperties DEF HostTake
  <2>2. hostGot' \in Seq(0 .. MaxOut)
    BY <1>t, <1>2, <2>1, AppendProperties DEF HostTake
  <2>3. ac' \in BOOLEAN
    BY <1>2 DEF HostTake
  <2>4. QED
    BY <1>2, <2>1, <2>2, <2>3
    DEF HostTake, TypeOK, rxRing, txRing, call, routine, history
<1>3. QED
  BY <1>1, <1>2

(* Every step keeps the types.                                             *)
LEMMA TypeStep ==
  ASSUME TypeOK, Locals, Accounts, [Next]_vars
  PROVE  TypeOK'
<1> USE DEF TypeOK, rxRing, txRing, device, call, routine, host, history, AppAt
<1>1. CASE Call
  BY <1>1 DEF Call, CallWrite, CallRead, CallClose, Pcs
<1>2. CASE WriteLook
  <2>1. WriteRoom \in Nat
    BY DEF WriteRoom, Slots
  <2>2. Lesser(WriteRoom, left) \in Nat
    BY <2>1 DEF Lesser
  <2>3. n' \in Nat /\ pc' \in Pcs
    BY <1>2, <2>2 DEF WriteLook, Pcs
  <2>4. QED
    BY <1>2, <2>3 DEF WriteLook
<1>10. CASE ReadLook
  <2>1. ReadRun \in Nat
    BY DEF ReadRun, Slots
  <2>2. Lesser(ReadRun, left) \in Nat
    BY <2>1 DEF Lesser
  <2>3. n' \in Nat /\ pc' \in Pcs
    BY <1>10, <2>2 DEF ReadLook, Pcs
  <2>4. QED
    BY <1>10, <2>3 DEF ReadLook
<1>3. CASE WriteCopy
  <2>1. written \in Nat /\ n \in Nat /\ in \in Nat /\ written + n <= MaxOut /\ n <= left
    BY <1>3 DEF WriteCopy, Locals, Accounts, Writing, Slots
  <2>a. \A s \in Slots : s \in in .. in + n - 1 => written + s - in + 1 \in 0 .. MaxOut
    BY <2>1 DEF Slots
  <2>2. tx_buf' \in [Slots -> 0 .. MaxOut]
    BY <1>3, <2>a DEF WriteCopy
  <2>3. done' \in Nat /\ left' \in Nat
    BY <1>3, <2>1 DEF WriteCopy
  <2>4. QED
    BY <1>3, <2>2, <2>3 DEF WriteCopy, Pcs
<1>4. CASE WriteAdvance
  <2>1. in + n \in Nat /\ written + n \in 0 .. MaxOut
    BY <1>4 DEF WriteAdvance, Accounts, Slots
  <2>2. tx_in' \in Slots
    BY <1>4, <2>1 DEF WriteAdvance, Slots
  <2>3. QED
    BY <1>4, <2>1, <2>2 DEF WriteAdvance, Pcs
<1>5. CASE WriteKick \/ WriteWait \/ ReadWait \/ ReadEnable
  BY <1>5 DEF WriteKick, WriteWait, ReadWait, ReadEnable, Pcs
<1>6. CASE WriteReturn
  <2>1. claimed' \in 0 .. MaxOut
    BY <1>6 DEF WriteReturn, ReturnValue, EWOULDBLOCK, EIO, Accounts, Writing
  <2>2. chunk' \in Seq(0 .. MaxIn)
    BY <1>6, EmptySeq DEF WriteReturn, Returns
  <2>3. in' \in Slots /\ out' \in Slots
    BY <1>6 DEF WriteReturn, Returns, Slots
  <2>4. QED
    BY <1>6, <2>1, <2>2, <2>3 DEF WriteReturn, Returns, Pcs
<1>7. CASE ReadReturn \/ CloseReturn
  <2>1. Returns /\ UNCHANGED <<rxRing, txRing, irq_enable, host_inactive, device, routine, host, history>>
    BY <1>7 DEF ReadReturn, CloseReturn
  <2>2. chunk' \in Seq(0 .. MaxIn)
    BY <2>1, EmptySeq DEF Returns
  <2>3. in' \in Slots /\ out' \in Slots
    BY <2>1 DEF Returns, Slots
  <2>4. QED
    BY <2>1, <2>2, <2>3 DEF Returns, Pcs
<1>8. CASE ReadCopy
  <2>1. n \in 0 .. BufLen /\ n <= left
    BY <1>8 DEF ReadCopy, Locals
  <2>2. chunk' \in Seq(0 .. MaxIn)
    BY <1>8, <2>1, ContentIs DEF ReadCopy
  <2>3. done' \in Nat /\ left' \in Nat
    BY <1>8, <2>1 DEF ReadCopy
  <2>4. QED
    BY <1>8, <2>2, <2>3 DEF ReadCopy, Pcs
<1>9. CASE ReadAdvance
  <2>1. out + n \in Nat
    BY DEF Slots
  <2>2. rx_out' \in Slots
    BY <1>9, <2>1 DEF ReadAdvance, Slots
  <2>3. received' \in Seq(0 .. MaxIn) /\ chunk' \in Seq(0 .. MaxIn)
    BY <1>9, ConcatProperties, EmptySeq DEF ReadAdvance
  <2>4. QED
    BY <1>9, <2>2, <2>3 DEF ReadAdvance, Pcs
<1>11. CASE Irq
  BY <1>11, IrqTypes
<1>14. CASE Alarm
  BY <1>14, AlarmTypes
<1>15. CASE HostSend \/ HostTake
  BY <1>15, HostTypes
<1>17. CASE HostPoll \/ Plug
  BY <1>17 DEF HostPoll, Plug
<1>18. CASE UNCHANGED vars
  BY <1>18 DEF vars
<1>19. QED
  BY <1>1, <1>2, <1>3, <1>4, <1>5, <1>6, <1>7, <1>8, <1>9, <1>10, <1>11, <1>14, <1>15,
     <1>17, <1>18 DEF Next, Serve, Host

-----------------------------------------------------------------------------
(* The wake-ups.                                                           *)

(* A turn of the routine that leaves characters in the ring leaves the     *)
(* transmit interrupt on: only space left in the FIFO turns it off.        *)
LEMMA TransmitKeepsAwake ==
  ASSUME TypeOK, IrqTransmit, NoLostWakeUp
  PROVE  NoLostWakeUp'
<1>t. tx_in \in Slots /\ tx_out \in Slots /\ wspace \in Nat
      /\ irq_enable \in [re : BOOLEAN, we : BOOLEAN]
  BY DEF TypeOK
<1> DEFINE k == Lesser(wspace, TxCount)
<1>1. /\ tx_in' = tx_in /\ tx_out' = (tx_out + k) % BufLen
      /\ irq_enable' = [irq_enable EXCEPT !.we = @ /\ k = wspace]
      /\ pc' = pc /\ done' = done /\ rx_in' = rx_in /\ rx_out' = rx_out
  BY DEF IrqTransmit, rxRing, call
<1>2. TxCount = Dist(tx_in, tx_out) /\ TxCount \in 0 .. BufLen - 1
  BY <1>t, CountIs DEF TxCount
<1>3. k \in 0 .. TxCount /\ (k = wspace \/ k = TxCount)
  BY <1>t, <1>2 DEF Lesser
<1> HIDE DEF k
<1>4. k = TxCount => tx_out' = tx_in'
  BY <1>t, <1>1, <1>2, <1>3, MovedOn
<1>5. tx_in = tx_out => TxCount = 0
  BY <1>t, <1>2 DEF Dist, Slots
<1>6. tx_in' # tx_out' => k = wspace /\ tx_in # tx_out
  BY <1>2, <1>3, <1>4, <1>5
<1>7. irq_enable'.re = irq_enable.re /\ irq_enable'.we = (irq_enable.we /\ k = wspace)
  BY <1>t, <1>1
<1>8. TransmitterAwake'
  BY <1>1, <1>6, <1>7 DEF NoLostWakeUp, TransmitterAwake
<1>9. RxFull' = RxFull
  BY <1>1 DEF RxFull
<1>10. ReceiverAwake'
  BY <1>1, <1>7, <1>9 DEF NoLostWakeUp, ReceiverAwake
<1>11. QED
  BY <1>8, <1>10 DEF NoLostWakeUp

(* A turn of the routine that leaves characters in the FIFO has filled the *)
(* ring, and a full ring stays full.                                       *)
LEMMA ReceiveKeepsAwake ==
  ASSUME TypeOK, IrqReceive, NoLostWakeUp
  PROVE  NoLostWakeUp'
<1>t. rx_in \in Slots /\ rx_out \in Slots /\ rxFifo \in Seq(1 .. MaxIn)
      /\ irq_enable \in [re : BOOLEAN, we : BOOLEAN]
  BY DEF TypeOK
<1>l. Len(rxFifo) \in Nat
  BY <1>t, LenProperties
<1> DEFINE k == Lesser(BufLen - 1 - RxCount, Len(rxFifo))
<1>1. /\ rx_out' = rx_out /\ rx_in' = (rx_in + k) % BufLen
      /\ rxFifo' = SubSeq(rxFifo, k + 1, Len(rxFifo))
      /\ irq_enable' = [irq_enable EXCEPT !.re = @ /\ rxFifo' = << >>]
      /\ pc' = pc /\ done' = done /\ tx_in' = tx_in /\ tx_out' = tx_out
  BY DEF IrqReceive, txRing, call
<1>2. RxCount = Dist(rx_in, rx_out) /\ RxCount \in 0 .. BufLen - 1
  BY <1>t, CountIs DEF RxCount
<1>3. /\ k \in 0 .. BufLen - 1 - RxCount
      /\ k = BufLen - 1 - RxCount \/ k = Len(rxFifo)
  BY <1>l, <1>2 DEF Lesser
<1> HIDE DEF k
<1>4. rx_in' \in Slots /\ Dist(rx_in', rx_out) = RxCount + k
  BY <1>t, <1>1, <1>2, <1>3, Filled
<1>5. RxFull <=> RxCount = BufLen - 1
  BY <1>t, <1>2, FullIs DEF RxFull
<1>6. RxFull' <=> RxCount + k = BufLen - 1
  BY <1>t, <1>1, <1>4, FullIs DEF RxFull
<1>7. k = Len(rxFifo) => rxFifo' = << >>
  BY <1>1, <1>l, SubSeqEmpty
<1>8. irq_enable'.we = irq_enable.we /\ irq_enable'.re = (irq_enable.re /\ rxFifo' = << >>)
  BY <1>t, <1>1
<1>9. RxFull => RxFull'
  BY <1>2, <1>3, <1>5, <1>6
<1>10. rxFifo' # << >> => RxFull'
  BY <1>2, <1>3, <1>6, <1>7
<1>11. ReceiverAwake'
  BY <1>1, <1>8, <1>9, <1>10 DEF NoLostWakeUp, ReceiverAwake
<1>12. TransmitterAwake'
  BY <1>1, <1>8 DEF NoLostWakeUp, TransmitterAwake
<1>13. QED
  BY <1>11, <1>12 DEF NoLostWakeUp

(* Every step keeps both wake-ups.                                         *)
LEMMA AwakeStep ==
  ASSUME TypeOK, Locals, NoLostWakeUp, [Next]_vars
  PROVE  NoLostWakeUp'
<1>t. done \in Nat /\ n \in Nat /\ irq_enable \in [re : BOOLEAN, we : BOOLEAN]
  BY DEF TypeOK
<1>1. CASE IrqTransmit
  BY <1>1, TransmitKeepsAwake
<1>2. CASE IrqReceive
  BY <1>2, ReceiveKeepsAwake
<1> USE DEF NoLostWakeUp, TransmitterAwake, ReceiverAwake, RxFull, rxRing, txRing, AppAt
<1>3. CASE Call
  BY <1>3 DEF Call, CallWrite, CallRead, CallClose
<1>4. CASE WriteLook \/ WriteCopy
  BY <1>4 DEF WriteLook, WriteCopy
<1>5. CASE WriteAdvance
  BY <1>5 DEF WriteAdvance
<1>6. CASE WriteKick
  BY <1>t, <1>6 DEF WriteKick
<1>7. CASE WriteWait \/ ReadWait
  BY <1>7 DEF WriteWait, ReadWait
<1>8. CASE WriteReturn \/ ReadReturn \/ CloseReturn
  BY <1>8 DEF WriteReturn, ReadReturn, CloseReturn, Returns
<1>9. CASE ReadLook
  BY <1>t, <1>9 DEF ReadLook
<1>10. CASE ReadCopy
  BY <1>t, <1>10 DEF ReadCopy
<1>11. CASE ReadAdvance
  BY <1>t, <1>11 DEF ReadAdvance, Locals
<1>12. CASE ReadEnable
  BY <1>t, <1>12 DEF ReadEnable
<1>13. CASE IrqEnter \/ IrqLook \/ Alarm \/ Host
  BY <1>13 DEF IrqEnter, IrqLook, Alarm, Host, HostSend, HostTake, HostPoll, Plug, call
<1>14. CASE UNCHANGED vars
  BY <1>14 DEF vars, call
<1>15. QED
  BY <1>1, <1>2, <1>3, <1>4, <1>5, <1>6, <1>7, <1>8, <1>9, <1>10, <1>11, <1>12, <1>13, <1>14
  DEF Next, Serve, Irq

-----------------------------------------------------------------------------
(* The theorems.                                                           *)

Invariant == TypeOK /\ Locals /\ Accounts /\ NoLostWakeUp

(* The driver starts with empty rings and nothing owed to anyone.          *)
LEMMA InitInvariant == Init => Invariant
<1> SUFFICES ASSUME Init PROVE Invariant
    OBVIOUS
<1>1. << >> \in Seq(1 .. MaxIn) /\ << >> \in Seq(0 .. MaxIn) /\ << >> \in Seq(0 .. MaxOut)
  BY EmptySeq
<1>2. 0 \in Slots /\ 0 \in 0 .. MaxIn /\ 0 \in 0 .. MaxOut /\ 0 \in 0 .. Timeout
      /\ 0 \in 0 .. TxDepth
  BY DEF Slots
<1>3. TypeOK
  BY <1>1, <1>2 DEF Init, TypeOK, Pcs
<1>4. Locals /\ Accounts
  BY DEF Init, Locals, Accounts, Writing
<1>5. NoLostWakeUp
  BY DEF Init, NoLostWakeUp, TransmitterAwake, ReceiverAwake
<1>6. QED
  BY <1>3, <1>4, <1>5 DEF Invariant

(* The invariant is inductive.                                             *)
LEMMA Inductive == Spec => []Invariant
<1>1. Invariant /\ [Next]_vars => Invariant'
  BY LocalsStep, AccountsStep, TypeStep, AwakeStep DEF Invariant
<1>2. QED
  BY InitInvariant, <1>1, PTL DEF Spec

(* Every reachable state of the driver has its types: no index leaves its  *)
(* ring and no count of a call goes below zero.                            *)
THEOREM TypeCorrect == Spec => []TypeOK
<1>1. Invariant => TypeOK
  BY DEF Invariant
<1>2. QED
  BY Inductive, <1>1, PTL

(* No wake-up is lost: characters in the transmit ring find the interrupt  *)
(* on or about to be turned on, and the receive interrupt is off only for  *)
(* a full ring or while a read is about to turn it on, although both the   *)
(* routine and the program write the same enable bits.                     *)
THEOREM WakeUpsKept == Spec => []NoLostWakeUp
<1>1. Invariant => NoLostWakeUp
  BY DEF Invariant
<1>2. QED
  BY Inductive, <1>1, PTL

(* Between two calls the caller of write has been told exactly what was    *)
(* put into the ring, errors and short counts included.                    *)
THEOREM CallerTold == Spec => []CallerKnows
<1>1. Invariant => CallerKnows
  BY DEF Invariant, Accounts, Writing, CallerKnows
<1>2. QED
  BY Inductive, <1>1, PTL
-----------------------------------------------------------------------------
(* The order of the characters: the position of every one is given slot by *)
(* slot, with what a call that is copying has claimed.                     *)

\* A write that copies has a stretch of free slots at tx_in, and has filled it
\* before it moves the index.
SendRoom ==
  /\ pc \in {"w_copy", "w_advance"} =>
       in = tx_in /\ in + n <= BufLen /\ Dist(tx_in, tx_out) + n <= BufLen - 1
  /\ pc = "w_advance" => \A s \in in .. in + n - 1 : tx_buf[s] = written + s - in + 1

\* Every character the program has written stands at its place: with the host,
\* in the FIFO, or in its slot of the ring.
Sent ==
  /\ Len(hostGot) + Len(txFifo) + Dist(tx_in, tx_out) = written
  /\ \A i \in 1 .. Len(hostGot) : hostGot[i] = i
  /\ \A i \in 1 .. Len(txFifo) : txFifo[i] = Len(hostGot) + i
  /\ \A k \in Slots : k < Dist(tx_in, tx_out) =>
       tx_buf[Wrap(tx_out + k)] = Len(hostGot) + Len(txFifo) + k + 1

\* A read that copies has a stretch of characters at rx_out; its copy is the
\* next ones the program is to get.
ReceiveRun ==
  /\ pc \in {"r_copy", "r_advance"} =>
       out = rx_out /\ out + n <= BufLen /\ n <= Dist(rx_in, rx_out)
  /\ pc = "r_advance" => Len(chunk) = n /\ \A i \in 1 .. n : chunk[i] = Len(received) + i

\* Every character the host has sent stands at its place: with the program, in
\* its slot of the ring, or in the FIFO.
Received ==
  /\ Len(received) + Dist(rx_in, rx_out) + Len(rxFifo) = hostSent
  /\ \A i \in 1 .. Len(received) : received[i] = i
  /\ \A k \in Slots : k < Dist(rx_in, rx_out) =>
       rx_buf[Wrap(rx_out + k)] = Len(received) + k + 1
  /\ \A i \in 1 .. Len(rxFifo) : rxFifo[i] = Len(received) + Dist(rx_in, rx_out) + i

-----------------------------------------------------------------------------
(* The characters sent.                                                    *)

(* The stretch found free has no character of the ring in it, and one slot *)
(* of the ring stays empty.                                                *)
LEMMA RoomIsFree ==
  ASSUME TypeOK
  PROVE  /\ WriteRoom \in Nat /\ tx_in + WriteRoom <= BufLen
         /\ Dist(tx_in, tx_out) + WriteRoom <= BufLen - 1
<1>1. tx_in \in Slots /\ tx_out \in Slots
  BY DEF TypeOK
<1>2. QED
  BY <1>1 DEF WriteRoom, Dist, Slots

(* A part of a stretch fits where the stretch does.                        *)
LEMMA LessFits ==
  ASSUME NEW a \in Nat, NEW w \in Nat, NEW m \in Nat, NEW b \in Int, a + w <= b, m <= w
  PROVE  a + m <= b
OBVIOUS

(* The copy of a stretch leaves the characters of the ring alone.          *)
LEMMA CopyKeepsSent ==
  ASSUME TypeOK, SendRoom, Sent, WriteCopy
  PROVE  SendRoom' /\ Sent'
<1>t. /\ tx_in \in Slots /\ tx_out \in Slots /\ n \in Nat /\ in \in Slots /\ written \in Nat
      /\ tx_buf \in [Slots -> 0 .. MaxOut]
  BY DEF TypeOK
<1>1. /\ pc = "w_copy" /\ pc' = "w_advance" /\ in' = in /\ n' = n
      /\ tx_buf' = [s \in Slots |-> IF s \in in .. in + n - 1 THEN written + s - in + 1
                                    ELSE tx_buf[s]]
      /\ tx_in' = tx_in /\ tx_out' = tx_out /\ written' = written
      /\ hostGot' = hostGot /\ txFifo' = txFifo
  BY DEF WriteCopy, AppAt, device, host, history
<1>2. in = tx_in /\ in + n <= BufLen /\ Dist(tx_in, tx_out) + n <= BufLen - 1
  BY <1>1 DEF SendRoom
<1>3. \A s \in in .. in + n - 1 : s \in Slots
  BY <1>t, <1>2 DEF Slots
<1>4. SendRoom'
  BY <1>1, <1>2, <1>3 DEF SendRoom, Dist
<1>5. \A k \in Slots : k < Dist(tx_in, tx_out) =>
         Wrap(tx_out + k) \in Slots /\ Wrap(tx_out + k) \notin in .. in + n - 1
  BY <1>t, <1>2 DEF Wrap, Dist, Slots
<1>6. \A k \in Slots : k < Dist(tx_in, tx_out) =>
         tx_buf'[Wrap(tx_out + k)] = tx_buf[Wrap(tx_out + k)]
  BY <1>1, <1>5
<1>7. Dist(tx_in', tx_out') = Dist(tx_in, tx_out)
  BY <1>1
<1>8. Sent'
  BY <1>1, <1>6, <1>7 DEF Sent
<1>9. QED
  BY <1>4, <1>8

(* The move of tx_in puts the copied stretch behind what the ring held.    *)
LEMMA AdvanceKeepsSent ==
  ASSUME TypeOK, SendRoom, Sent, WriteAdvance
  PROVE  SendRoom' /\ Sent'
<1>t. /\ tx_in \in Slots /\ tx_out \in Slots /\ n \in Nat /\ in \in Slots /\ written \in Nat
      /\ hostGot \in Seq(0 .. MaxOut) /\ txFifo \in Seq(0 .. MaxOut)
  BY DEF TypeOK
<1>l. Len(hostGot) \in Nat /\ Len(txFifo) \in Nat
  BY <1>t, LenProperties
<1>1. /\ pc = "w_advance" /\ pc' \in {"w_look", "w_kick"}
      /\ tx_in' = (in + n) % BufLen /\ written' = written + n
      /\ tx_buf' = tx_buf /\ tx_out' = tx_out /\ hostGot' = hostGot /\ txFifo' = txFifo
  BY DEF WriteAdvance, AppAt, device, host
<1>2. /\ in = tx_in /\ in + n <= BufLen /\ Dist(tx_in, tx_out) + n <= BufLen - 1
      /\ \A s \in in .. in + n - 1 : tx_buf[s] = written + s - in + 1
  BY <1>1 DEF SendRoom
<1> DEFINE d == Dist(tx_in, tx_out)
<1>b. Dist(tx_in, tx_out) \in 0 .. BufLen - 1
  BY <1>t, CountIs
<1>c. Len(hostGot) + Len(txFifo) + Dist(tx_in, tx_out) = written
  BY DEF Sent
<1>3. d \in 0 .. BufLen - 1 /\ written = Len(hostGot) + Len(txFifo) + d
  BY <1>b, <1>c
<1>4. n \in 0 .. BufLen - 1 - Dist(tx_in, tx_out)
  BY <1>t, <1>2, <1>3
<1>5. Dist(tx_in', tx_out') = d + n
  BY <1>t, <1>1, <1>2, <1>4, Filled
<1>6. \A k \in Slots : d <= k /\ k < d + n =>
         /\ Wrap(tx_out + k) = in + (k - d)
         /\ in + (k - d) \in in .. in + n - 1
  BY <1>t, <1>2 DEF Wrap, Dist, Slots
<1>7. \A k \in Slots : d <= k /\ k < d + n => tx_buf[Wrap(tx_out + k)] = written + (k - d) + 1
  <2> SUFFICES ASSUME NEW k \in Slots, d <= k, k < d + n
               PROVE  tx_buf[Wrap(tx_out + k)] = written + (k - d) + 1
      OBVIOUS
  <2>1. tx_buf[in + (k - d)] = written + (in + (k - d)) - in + 1
    BY <1>2, <1>6
  <2>2. k \in Nat /\ in \in Nat /\ d \in Nat
    BY <1>t, <1>3 DEF Slots
  <2>3. Wrap(tx_out + k) = in + (k - d)
    BY <1>6
  <2> HIDE DEF d
  <2>4. written + (in + (k - d)) - in + 1 = written + (k - d) + 1
    BY <1>t, <2>2
  <2>5. QED
    BY <2>1, <2>3, <2>4
<1>8. \A k \in Slots : k < d => tx_buf[Wrap(tx_out + k)] = Len(hostGot) + Len(txFifo) + k + 1
  BY DEF Sent
<1>a. \A k \in Slots : k \in Nat
  BY DEF Slots
<1> HIDE DEF d
<1>9. \A k \in Slots : k < d + n =>
         tx_buf[Wrap(tx_out + k)] = Len(hostGot) + Len(txFifo) + k + 1
  <2> SUFFICES ASSUME NEW k \in Slots, k < d + n
               PROVE  tx_buf[Wrap(tx_out + k)] = Len(hostGot) + Len(txFifo) + k + 1
      OBVIOUS
  <2>1. k \in Nat /\ d \in Nat
    BY <1>a, <1>3
  <2>2. CASE k < d
    BY <1>8, <2>2
  <2>3. CASE d <= k
    <3>1. tx_buf[Wrap(tx_out + k)] = written + (k - d) + 1
      BY <1>7, <2>3
    <3>2. QED
      BY <1>t, <1>l, <1>3, <2>1, <3>1
  <2>4. QED
    BY <2>1, <2>2, <2>3
<1>10. Len(hostGot) + Len(txFifo) + (d + n) = written + n
  BY <1>t, <1>l, <1>3
<1>11. Sent'
  BY <1>1, <1>5, <1>9, <1>10 DEF Sent
<1>12. SendRoom'
  BY <1>1 DEF SendRoom
<1>13. QED
  BY <1>11, <1>12

(* Two moves of an index are one.                                          *)
LEMMA WrapTwice ==
  ASSUME NEW o \in Slots, NEW k \in Nat, NEW j \in Nat, k + j < BufLen
  PROVE  Wrap(Wrap(o + k) + j) = Wrap(o + (k + j)) /\ k + j \in Slots
BY DEF Wrap, Slots

(* The characters of a copied stretch are those of the slots from o on.    *)
LEMMA ContentAt ==
  ASSUME NEW buf, NEW o \in Slots, NEW k \in 0 .. BufLen, NEW i \in 1 .. k
  PROVE  Content(buf, o, k)[i] = buf[Wrap(o + (i - 1))]
<1>1. o + i - 1 \in Nat /\ o + i - 1 < 2 * BufLen /\ o + (i - 1) = o + i - 1
  BY DEF Slots
<1>2. (o + i - 1) % BufLen = Wrap(o + i - 1)
  BY <1>1, WrapIs
<1>3. QED
  BY <1>1, <1>2 DEF Content

(* The routine appends to the FIFO the oldest characters of the ring.      *)
LEMMA TransmitKeepsSent ==
  ASSUME TypeOK, SendRoom, Sent, IrqTransmit
  PROVE  SendRoom' /\ Sent'
<1>t. /\ tx_in \in Slots /\ tx_out \in Slots /\ n \in Nat /\ wspace \in Nat
      /\ hostGot \in Seq(0 .. MaxOut) /\ txFifo \in Seq(0 .. MaxOut)
      /\ tx_buf \in [Slots -> 0 .. MaxOut] /\ written \in Nat
  BY DEF TypeOK
<1>l. Len(hostGot) \in Nat /\ Len(txFifo) \in Nat
  BY <1>t, LenProperties
<1> DEFINE k == Lesser(wspace, TxCount)
           d == Dist(tx_in, tx_out)
           g == Len(hostGot)
           f == Len(txFifo)
           content == Content(tx_buf, tx_out, k)
<1>1. /\ txFifo' = txFifo \o content /\ tx_out' = (tx_out + k) % BufLen
      /\ tx_in' = tx_in /\ tx_buf' = tx_buf /\ hostGot' = hostGot /\ written' = written
      /\ pc' = pc /\ in' = in /\ n' = n
  BY DEF IrqTransmit, call, host, history
<1>2. TxCount = d /\ d \in 0 .. BufLen - 1
  BY <1>t, CountIs DEF TxCount
<1>3. k \in 0 .. d
  BY <1>t, <1>2 DEF Lesser
<1> HIDE DEF k
<1>4. /\ tx_out' = Wrap(tx_out + k) /\ Dist(tx_in', tx_out') = d - k
  BY <1>t, <1>1, <1>3, MovedOn
<1>5. k \in 0 .. BufLen /\ k \in Nat
  BY <1>2, <1>3
<1>6. content \in Seq(0 .. MaxOut) /\ Len(content) = k
  BY <1>t, <1>5, ContentIs
<1>7. /\ g + f + d = written
      /\ \A i \in 1 .. g : hostGot[i] = i
      /\ \A i \in 1 .. f : txFifo[i] = g + i
      /\ \A j \in Slots : j < d => tx_buf[Wrap(tx_out + j)] = g + f + j + 1
  BY DEF Sent
<1>8. g \in Nat /\ f \in Nat /\ d \in Nat
  BY <1>l, <1>2
<1> HIDE DEF content, d, g, f
<1>9. \A i \in 1 .. k : content[i] = g + f + i
  <2> SUFFICES ASSUME NEW i \in 1 .. k PROVE content[i] = g + f + i
      OBVIOUS
  <2>1. i - 1 \in Slots /\ i - 1 < d
    BY <1>2, <1>3, <1>5 DEF Slots
  <2>2. tx_buf[Wrap(tx_out + (i - 1))] = g + f + (i - 1) + 1
    BY <1>7, <2>1
  <2>3. g + f + (i - 1) + 1 = g + f + i
    BY <1>5, <1>8
  <2>4. content[i] = tx_buf[Wrap(tx_out + (i - 1))]
    BY <1>t, <1>5, ContentAt DEF content
  <2>5. QED
    BY <2>2, <2>3, <2>4
<1>10. Len(txFifo') = f + k
  BY <1>t, <1>1, <1>6, ConcatProperties DEF f
<1>11. \A i \in 1 .. f + k : txFifo'[i] = g + i
  <2> SUFFICES ASSUME NEW i \in 1 .. f + k PROVE txFifo'[i] = g + i
      OBVIOUS
  <2>1. txFifo'[i] = IF i <= f THEN txFifo[i] ELSE content[i - f]
    BY <1>t, <1>1, <1>6, ConcatProperties DEF f
  <2>2. CASE i <= f
    BY <1>7, <1>8, <2>1, <2>2
  <2>3. CASE i > f
    <3>1. i - f \in 1 .. k /\ g + f + (i - f) = g + i
      BY <1>5, <1>8, <2>3
    <3>2. QED
      BY <1>5, <1>8, <1>9, <2>1, <2>3, <3>1
  <2>4. QED
    BY <1>5, <1>8, <2>2, <2>3
<1>12. \A j \in Slots : j < d - k => tx_buf[Wrap(tx_out' + j)] = g + (f + k) + j + 1
  <2> SUFFICES ASSUME NEW j \in Slots, j < d - k
               PROVE  tx_buf[Wrap(tx_out' + j)] = g + (f + k) + j + 1
      OBVIOUS
  <2>1. j \in Nat /\ k + j < d /\ k + j < BufLen
    BY <1>2, <1>5, <1>8 DEF Slots
  <2>2. Wrap(tx_out' + j) = Wrap(tx_out + (k + j)) /\ k + j \in Slots
    <3>1. tx_out \in Slots /\ k \in Nat /\ j \in Nat /\ k + j < BufLen
      BY <1>t, <1>5, <2>1
    <3>2. Wrap(Wrap(tx_out + k) + j) = Wrap(tx_out + (k + j)) /\ k + j \in Slots
      BY <3>1, WrapTwice
    <3>3. QED
      BY <1>4, <3>2
  <2>3. tx_buf[Wrap(tx_out + (k + j))] = g + f + (k + j) + 1
    BY <1>7, <2>1, <2>2
  <2>4. QED
    BY <1>5, <1>8, <2>1, <2>2, <2>3
<1>13. g + (f + k) + (d - k) = written
  BY <1>5, <1>7, <1>8
<1>14. Sent'
  <2>1. Len(hostGot') = g /\ hostGot' = hostGot /\ tx_buf' = tx_buf
    BY <1>1 DEF g
  <2>2. QED
    BY <1>1, <1>4, <1>7, <1>10, <1>11, <1>12, <1>13, <2>1 DEF Sent
<1>15. SendRoom'
  <2>1. pc \in {"w_copy", "w_advance"} => in = tx_in /\ in + n <= BufLen /\ d + n <= BufLen - 1
    BY DEF SendRoom, d
  <2>2. pc \in {"w_copy", "w_advance"} => Dist(tx_in', tx_out') + n' <= BufLen - 1
    BY <1>t, <1>1, <1>4, <1>5, <1>8, <2>1
  <2>3. QED
    BY <1>1, <2>1, <2>2 DEF SendRoom
<1>16. QED
  BY <1>14, <1>15

(* The host takes the oldest character of the FIFO.                        *)
LEMMA TakeKeepsSent ==
  ASSUME TypeOK, Sent, HostTake
  PROVE  Sent'
<1>t. /\ hostGot \in Seq(0 .. MaxOut) /\ txFifo \in Seq(0 .. MaxOut)
  BY DEF TypeOK
<1>l. Len(hostGot) \in Nat /\ Len(txFifo) \in Nat
  BY <1>t, LenProperties
<1>1. /\ txFifo # << >> /\ hostGot' = Append(hostGot, Head(txFifo)) /\ txFifo' = Tail(txFifo)
      /\ tx_in' = tx_in /\ tx_out' = tx_out /\ tx_buf' = tx_buf /\ written' = written
  BY DEF HostTake, txRing, history
<1>2. Len(txFifo) > 0
  BY <1>t, <1>1, EmptySeq
<1>3. /\ Head(txFifo) = txFifo[1] /\ Head(txFifo) \in 0 .. MaxOut
      /\ Len(Tail(txFifo)) = Len(txFifo) - 1
      /\ \A i \in 1 .. Len(Tail(txFifo)) : Tail(txFifo)[i] = txFifo[i + 1]
  BY <1>t, <1>1, HeadTailProperties
<1>4. /\ Len(hostGot') = Len(hostGot) + 1
      /\ \A i \in 1 .. Len(hostGot) : hostGot'[i] = hostGot[i]
      /\ hostGot'[Len(hostGot) + 1] = Head(txFifo)
  BY <1>t, <1>1, <1>3, AppendProperties
<1>5. /\ Len(hostGot) + Len(txFifo) + Dist(tx_in, tx_out) = written
      /\ \A i \in 1 .. Len(hostGot) : hostGot[i] = i
      /\ \A i \in 1 .. Len(txFifo) : txFifo[i] = Len(hostGot) + i
      /\ \A k \in Slots : k < Dist(tx_in, tx_out) =>
           tx_buf[Wrap(tx_out + k)] = Len(hostGot) + Len(txFifo) + k + 1
  BY DEF Sent
<1>6. Len(hostGot') + Len(txFifo') = Len(hostGot) + Len(txFifo)
  BY <1>l, <1>1, <1>3, <1>4
<1>7. \A i \in 1 .. Len(hostGot') : hostGot'[i] = i
  BY <1>l, <1>2, <1>3, <1>4, <1>5
<1>8. \A i \in 1 .. Len(txFifo') : txFifo'[i] = Len(hostGot') + i
  BY <1>l, <1>1, <1>3, <1>4, <1>5
<1>9. QED
  BY <1>1, <1>5, <1>6, <1>7, <1>8 DEF Sent

(* Every step keeps the characters sent in their places.                   *)
LEMMA SendStep ==
  ASSUME TypeOK, SendRoom, Sent, [Next]_vars
  PROVE  SendRoom' /\ Sent'
<1>t. n \in Nat /\ left \in Nat /\ WriteRoom \in Nat
  BY RoomIsFree DEF TypeOK
<1>f. UNCHANGED <<tx_buf, tx_in, tx_out, hostGot, txFifo, written>> => Sent'
  BY DEF Sent
<1>g. /\ UNCHANGED <<tx_buf, tx_in, tx_out, written, pc, in, n>>
        \/ (UNCHANGED <<tx_buf, tx_in, tx_out, written>> /\ pc' \notin {"w_copy", "w_advance"})
      => SendRoom'
  BY DEF SendRoom
<1>1. CASE WriteCopy
  BY <1>1, CopyKeepsSent
<1>2. CASE WriteAdvance
  BY <1>2, AdvanceKeepsSent
<1>3. CASE IrqTransmit
  BY <1>3, TransmitKeepsSent
<1>4. CASE HostTake
  BY <1>4, <1>g, TakeKeepsSent DEF HostTake, txRing, call, history
<1>5. CASE WriteLook
  <2>1. /\ in' = tx_in /\ n' = Lesser(WriteRoom, left) /\ pc' # "w_advance"
        /\ tx_in' = tx_in /\ tx_out' = tx_out
    BY <1>5 DEF WriteLook, txRing
  <2>2. n' \in Nat /\ n' <= WriteRoom
    BY <1>t, <2>1 DEF Lesser
  <2>3. tx_in \in Nat /\ Dist(tx_in, tx_out) \in Nat
    <3>1. tx_in \in Slots /\ tx_out \in Slots
      BY DEF TypeOK
    <3>2. QED
      BY <3>1 DEF Slots, Dist
  <2>r. tx_in + WriteRoom <= BufLen /\ Dist(tx_in, tx_out) + WriteRoom <= BufLen - 1
    BY RoomIsFree
  <2>4. tx_in + n' <= BufLen /\ Dist(tx_in, tx_out) + n' <= BufLen - 1
    <3>1. WriteRoom \in Nat /\ BufLen \in Int /\ BufLen - 1 \in Int
      BY <1>t
    <3>2. QED
      BY <2>2, <2>3, <2>r, <3>1, LessFits, Zenon
  <2>5. SendRoom'
    BY <2>1, <2>4 DEF SendRoom
  <2>6. QED
    BY <1>5, <1>f, <2>5 DEF WriteLook, txRing, device, host, history
<1>6. CASE Call
  BY <1>6, <1>f, <1>g DEF Call, CallWrite, CallRead, CallClose, txRing, device, host, history
<1>7. CASE WriteKick \/ WriteWait \/ WriteReturn
  BY <1>7, <1>f, <1>g
  DEF WriteKick, WriteWait, WriteReturn, Returns, txRing, device, host, history
<1>8. CASE ReadLook \/ ReadCopy \/ ReadAdvance
  BY <1>8, <1>f, <1>g DEF ReadLook, ReadCopy, ReadAdvance, txRing, device, host, history
<1>9. CASE ReadWait \/ ReadEnable \/ ReadReturn \/ CloseReturn
  BY <1>9, <1>f, <1>g
  DEF ReadWait, ReadEnable, ReadReturn, CloseReturn, Returns, txRing, device, host, history
<1>10. CASE IrqEnter \/ IrqLook \/ IrqReceive \/ Alarm
  BY <1>10, <1>f, <1>g
  DEF IrqEnter, IrqLook, IrqReceive, Alarm, txRing, device, call, host, history
<1>11. CASE HostSend \/ HostPoll \/ Plug
  BY <1>11, <1>f, <1>g DEF HostSend, HostPoll, Plug, txRing, device, call, host, history
<1>12. CASE UNCHANGED vars
  BY <1>12, <1>f, <1>g DEF vars, txRing, device, call, host, history
<1>13. QED
  BY <1>1, <1>2, <1>3, <1>4, <1>5, <1>6, <1>7, <1>8, <1>9, <1>10, <1>11, <1>12
  DEF Next, Serve, Irq, Host

-----------------------------------------------------------------------------
(* The characters received.                                                *)

(* The copy of a read is the next characters the program is to get.        *)
LEMMA CopyTakesNext ==
  ASSUME TypeOK, Locals, ReceiveRun, Received, ReadCopy
  PROVE  ReceiveRun' /\ Received'
<1>t. /\ rx_in \in Slots /\ rx_out \in Slots /\ n \in Nat /\ out \in Slots
      /\ rx_buf \in [Slots -> 0 .. MaxIn] /\ received \in Seq(0 .. MaxIn)
  BY DEF TypeOK
<1>l. Len(received) \in Nat
  BY <1>t, LenProperties
<1>1. /\ pc = "r_copy" /\ pc' = "r_advance" /\ chunk' = Content(rx_buf, out, n)
      /\ out' = out /\ n' = n /\ rx_buf' = rx_buf /\ rx_in' = rx_in /\ rx_out' = rx_out
      /\ received' = received /\ rxFifo' = rxFifo /\ hostSent' = hostSent
  BY DEF ReadCopy, AppAt, rxRing, device, host, history
<1>2. out = rx_out /\ out + n <= BufLen /\ n <= Dist(rx_in, rx_out)
  BY <1>1 DEF ReceiveRun
<1>3. Dist(rx_in, rx_out) \in 0 .. BufLen - 1
  BY <1>t, CountIs
<1>4. n \in 0 .. BufLen
  BY <1>t, <1>2, <1>3
<1>5. Len(chunk') = n
  BY <1>t, <1>1, <1>4, ContentIs
<1>6. ASSUME NEW i \in 1 .. n
      PROVE  chunk'[i] = Len(received) + i
  <2>1. i - 1 \in Slots /\ i - 1 < Dist(rx_in, rx_out)
    BY <1>t, <1>2, <1>3 DEF Slots
  <2>2. rx_buf[Wrap(rx_out + (i - 1))] = Len(received) + (i - 1) + 1
    BY <2>1 DEF Received
  <2>3. Len(received) + (i - 1) + 1 = Len(received) + i
    BY <1>t, <1>l
  <2>4. Content(rx_buf, out, n)[i] = rx_buf[Wrap(out + (i - 1))]
    BY <1>t, <1>4, ContentAt
  <2>5. QED
    BY <1>1, <1>2, <2>2, <2>3, <2>4
<1>7. ReceiveRun'
  BY <1>1, <1>2, <1>5, <1>6 DEF ReceiveRun
<1>8. Received'
  BY <1>1 DEF Received
<1>9. QED
  BY <1>7, <1>8

(* The move of rx_out takes the copied stretch off the ring.               *)
LEMMA AdvanceKeepsReceived ==
  ASSUME TypeOK, ReceiveRun, Received, ReadAdvance
  PROVE  ReceiveRun' /\ Received'
<1>t. /\ rx_in \in Slots /\ rx_out \in Slots /\ n \in Nat /\ out \in Slots
      /\ received \in Seq(0 .. MaxIn) /\ chunk \in Seq(0 .. MaxIn)
      /\ rxFifo \in Seq(1 .. MaxIn) /\ hostSent \in Nat
  BY DEF TypeOK
<1>l. Len(received) \in Nat /\ Len(rxFifo) \in Nat
  BY <1>t, LenProperties
<1> DEFINE d == Dist(rx_in, rx_out)
           r == Len(received)
           f == Len(rxFifo)
<1>1. /\ pc = "r_advance" /\ pc' \in {"r_look", "r_enable"}
      /\ rx_out' = (out + n) % BufLen /\ received' = received \o chunk
      /\ rx_buf' = rx_buf /\ rx_in' = rx_in /\ rxFifo' = rxFifo /\ hostSent' = hostSent
  BY DEF ReadAdvance, AppAt, device, host
<1>2. /\ out = rx_out /\ n <= d /\ Len(chunk) = n
      /\ \A i \in 1 .. n : chunk[i] = r + i
  BY <1>1 DEF ReceiveRun
<1>3. d \in 0 .. BufLen - 1
  BY <1>t, CountIs
<1>4. n \in 0 .. Dist(rx_in, rx_out)
  BY <1>t, <1>2, <1>3
<1>5. rx_out' = Wrap(rx_out + n) /\ Dist(rx_in', rx_out') = d - n
  BY <1>t, <1>1, <1>2, <1>4, MovedOn
<1>6. /\ r + d + f = hostSent
      /\ \A i \in 1 .. r : received[i] = i
      /\ \A j \in Slots : j < d => rx_buf[Wrap(rx_out + j)] = r + j + 1
      /\ \A i \in 1 .. f : rxFifo[i] = r + d + i
  BY DEF Received
<1>7. r \in Nat /\ f \in Nat /\ d \in Nat
  BY <1>l, <1>3
<1>8. Len(received') = r + n
  BY <1>t, <1>1, <1>2, ConcatProperties
<1> HIDE DEF d, f
<1>9. ASSUME NEW i \in 1 .. r + n
      PROVE  received'[i] = i
  <2>1. received'[i] = IF i <= r THEN received[i] ELSE chunk[i - r]
    BY <1>t, <1>1, <1>2, ConcatProperties
  <2> HIDE DEF r
  <2>2. CASE i <= r
    BY <1>6, <1>7, <2>1, <2>2
  <2>3. CASE i > r
    <3>1. i - r \in 1 .. n /\ r + (i - r) = i
      BY <1>t, <1>7, <2>3
    <3>2. QED
      BY <1>t, <1>2, <1>7, <2>1, <2>3, <3>1
  <2>4. QED
    BY <1>t, <1>7, <2>2, <2>3
<1> HIDE DEF r
<1>10. ASSUME NEW j \in Slots, j < d - n
       PROVE  rx_buf[Wrap(rx_out' + j)] = (r + n) + j + 1
  <2>a. j \in Nat /\ n \in Nat /\ d <= BufLen - 1
    BY <1>t, <1>3 DEF Slots, d
  <2>1. j \in Nat /\ n + j < d /\ n + j < BufLen
    BY <1>7, <1>10, <2>a
  <2>2. Wrap(Wrap(rx_out + n) + j) = Wrap(rx_out + (n + j)) /\ n + j \in Slots
    <3>1. rx_out \in Slots /\ n \in Nat /\ j \in Nat /\ n + j < BufLen
      BY <1>t, <2>1
    <3>2. QED
      BY <3>1, WrapTwice
  <2>3. rx_buf[Wrap(rx_out + (n + j))] = r + (n + j) + 1
    BY <1>6, <2>1, <2>2
  <2>4. QED
    BY <1>t, <1>5, <1>7, <2>1, <2>2, <2>3
<1>11. /\ (r + n) + (d - n) + f = hostSent
       /\ \A i \in 1 .. f : rxFifo[i] = (r + n) + (d - n) + i
  BY <1>t, <1>6, <1>7
<1>12. Received'
  BY <1>1, <1>5, <1>8, <1>9, <1>10, <1>11 DEF Received, f
<1>13. ReceiveRun'
  BY <1>1 DEF ReceiveRun
<1>14. QED
  BY <1>12, <1>13

(* The slots of the ring are not among those the routine fills.            *)
LEMMA HeldElsewhere ==
  ASSUME NEW i \in Slots, NEW o \in Slots, NEW j \in Slots, j < Dist(i, o)
  PROVE  LET m == BufLen - Dist(i, o) + j
         IN  m \in Slots /\ Wrap(i + m) = Wrap(o + j)
BY DEF Dist, Wrap, Slots

(* The slots that follow the ring are those the routine fills.             *)
LEMMA FollowsRing ==
  ASSUME NEW i \in Slots, NEW o \in Slots, NEW j \in Slots, j >= Dist(i, o)
  PROVE  LET m == j - Dist(i, o)
         IN  m \in Slots /\ Wrap(i + m) = Wrap(o + j)
BY DEF Dist, Wrap, Slots

(* What lies in the slots of a ring after characters were stored.          *)
LEMMA StoredAt ==
  ASSUME NEW buf, NEW i \in Slots, NEW s, NEW m \in Slots
  PROVE  Stored(buf, i, s)[Wrap(i + m)] = IF m < Len(s) THEN s[m + 1] ELSE buf[Wrap(i + m)]
<1> DEFINE w == Wrap(i + m)
<1>1. w \in Slots /\ Dist(w, i) = m
  BY DEF Wrap, Dist, Slots
<1> HIDE DEF w
<1>2. (w + BufLen - i) % BufLen = m
  BY <1>1, CountIs
<1>3. Stored(buf, i, s)[w] = IF m < Len(s) THEN s[m + 1] ELSE buf[w]
  BY <1>1, <1>2 DEF Stored
<1>4. QED
  BY <1>3 DEF w

(* The routine puts the oldest characters of the FIFO behind the ring's.   *)
LEMMA ReceiveKeepsReceived ==
  ASSUME TypeOK, ReceiveRun, Received, IrqReceive
  PROVE  ReceiveRun' /\ Received'
<1>t. /\ rx_in \in Slots /\ rx_out \in Slots /\ n \in Nat
      /\ rx_buf \in [Slots -> 0 .. MaxIn] /\ hostSent \in Nat
      /\ rxFifo \in Seq(1 .. MaxIn) /\ received \in Seq(0 .. MaxIn)
  BY DEF TypeOK
<1>l. Len(rxFifo) \in Nat /\ Len(received) \in Nat
  BY <1>t, LenProperties
<1> DEFINE k == Lesser(BufLen - 1 - RxCount, Len(rxFifo))
           d == Dist(rx_in, rx_out)
           r == Len(received)
           f == Len(rxFifo)
           taken == SubSeq(rxFifo, 1, k)
           rest == SubSeq(rxFifo, k + 1, f)
<1>1. /\ rx_buf' = Stored(rx_buf, rx_in, taken) /\ rx_in' = (rx_in + k) % BufLen
      /\ rxFifo' = rest /\ rx_out' = rx_out /\ received' = received /\ hostSent' = hostSent
      /\ pc' = pc /\ out' = out /\ n' = n /\ chunk' = chunk
  BY DEF IrqReceive, call, host, history
<1>2. RxCount = d /\ d \in 0 .. BufLen - 1
  BY <1>t, CountIs DEF RxCount
<1>3. k \in 0 .. BufLen - 1 - d /\ k <= f
  BY <1>l, <1>2 DEF Lesser
<1>4. k \in 0 .. BufLen - 1 - Dist(rx_in, rx_out)
  BY <1>3
<1> HIDE DEF k
<1>5. Dist(rx_in', rx_out') = d + k
  BY <1>t, <1>1, <1>4, Filled
<1>6. k \in Nat /\ d \in Nat /\ f \in Nat /\ r \in Nat /\ d + k < BufLen
  BY <1>l, <1>2, <1>3
<1>7. /\ r + d + f = hostSent
      /\ \A i \in 1 .. r : received[i] = i
      /\ \A j \in Slots : j < d => rx_buf[Wrap(rx_out + j)] = r + j + 1
      /\ \A i \in 1 .. f : rxFifo[i] = r + d + i
  BY DEF Received
<1>8. \A i \in 1 .. f : rxFifo[i] \in 1 .. MaxIn
  BY <1>t, ElementOfSeq
<1>9. taken \in Seq(0 .. MaxIn) /\ Len(taken) = k /\ \A i \in 1 .. k : taken[i] = rxFifo[i]
  <2>1. \A i \in 1 .. k : rxFifo[i] \in 0 .. MaxIn
    BY <1>3, <1>6, <1>8
  <2>2. 1 \in Int /\ k \in Int
    BY <1>6
  <2>3. QED
    BY <1>6, <2>1, <2>2, SubSeqProperties
<1>10. Len(rest) = f - k /\ \A i \in 1 .. f - k : rest[i] = rxFifo[k + i]
  <2>1. \A i \in k + 1 .. f : rxFifo[i] \in 1 .. MaxIn
    BY <1>6, <1>8
  <2>2. k + 1 \in Int /\ f \in Int
    BY <1>6
  <2>3. /\ Len(rest) = IF k + 1 <= f THEN f - (k + 1) + 1 ELSE 0
        /\ \A i \in 1 .. f - (k + 1) + 1 : rest[i] = rxFifo[k + 1 + i - 1]
    BY <2>1, <2>2, SubSeqProperties
  <2> HIDE DEF f, rest
  <2>4. QED
    BY <1>3, <1>6, <2>3
<1> HIDE DEF taken, rest, d, f, r
<1>11. \A m \in Slots : rx_buf'[Wrap(rx_in + m)] =
                           IF m < k THEN taken[m + 1] ELSE rx_buf[Wrap(rx_in + m)]
  <2>1. Len(taken) < BufLen
    BY <1>6, <1>9
  <2>2. QED
    <3>1. \A m \in Slots : Stored(rx_buf, rx_in, taken)[Wrap(rx_in + m)] =
                              IF m < Len(taken) THEN taken[m + 1] ELSE rx_buf[Wrap(rx_in + m)]
      <4>1. rx_in \in Slots
        BY <1>t
      <4>2. QED
        BY <4>1, StoredAt
    <3>2. QED
      BY <1>1, <1>9, <3>1
<1>12. ASSUME NEW j \in Slots, j < d
       PROVE  rx_buf'[Wrap(rx_out + j)] = r + j + 1
  <2> DEFINE m == BufLen - d + j
  <2>1. m \in Slots /\ Wrap(rx_in + m) = Wrap(rx_out + j)
    BY <1>t, <1>12, HeldElsewhere DEF d
  <2>2. ~(m < k)
    BY <1>6 DEF Slots
  <2> HIDE DEF m
  <2>3. rx_buf'[Wrap(rx_in + m)] = rx_buf[Wrap(rx_in + m)]
    BY <1>11, <2>1, <2>2
  <2>4. QED
    BY <1>7, <1>12, <2>1, <2>3
<1>13. ASSUME NEW j \in Slots, d <= j, j < d + k
       PROVE  rx_buf'[Wrap(rx_out + j)] = r + j + 1
  <2> DEFINE m == j - d
  <2>1. m \in Slots /\ Wrap(rx_in + m) = Wrap(rx_out + j)
    <3>1. j >= Dist(rx_in, rx_out)
      BY <1>6, <1>13 DEF d, Slots
    <3>2. QED
      BY <1>t, <3>1, FollowsRing DEF d
  <2>2. m < k /\ m + 1 \in 1 .. k /\ m + 1 \in 1 .. f /\ r + d + (m + 1) = r + j + 1
    <3>1. j \in Nat
      BY DEF Slots
    <3>2. QED
      BY <1>3, <1>6, <1>13, <3>1
  <2> HIDE DEF m
  <2>3. rx_buf'[Wrap(rx_in + m)] = taken[m + 1]
    BY <1>11, <2>1, <2>2
  <2>4. taken[m + 1] = rxFifo[m + 1] /\ rxFifo[m + 1] = r + d + (m + 1)
    BY <1>7, <1>9, <2>2
  <2>5. QED
    BY <2>1, <2>2, <2>3, <2>4
<1>14. \A j \in Slots : j < d + k => rx_buf'[Wrap(rx_out + j)] = r + j + 1
  <2>1. \A j \in Slots : j < d \/ d <= j
    BY <1>6 DEF Slots
  <2>2. QED
    BY <1>12, <1>13, <2>1
<1>15. /\ r + (d + k) + (f - k) = hostSent
       /\ \A i \in 1 .. f - k : rest[i] = r + (d + k) + i
  BY <1>3, <1>6, <1>7, <1>10
<1>16. Received'
  <2>1. Len(received') = r /\ Len(rxFifo') = f - k
    BY <1>1, <1>10 DEF r
  <2>2. QED
    BY <1>1, <1>5, <1>7, <1>14, <1>15, <2>1 DEF Received
<1>17. ReceiveRun'
  <2>1. /\ pc \in {"r_copy", "r_advance"} => out = rx_out /\ out + n <= BufLen /\ n <= d
        /\ pc = "r_advance" => Len(chunk) = n /\ \A i \in 1 .. n : chunk[i] = r + i
    BY DEF ReceiveRun, d, r
  <2>2. n <= d => n <= d + k
    BY <1>t, <1>6
  <2>3. Len(received') = r
    BY <1>1 DEF r
  <2>4. QED
    BY <1>1, <1>5, <2>1, <2>2, <2>3 DEF ReceiveRun
<1>18. QED
  BY <1>16, <1>17

(* The host puts its next character into the FIFO.                         *)
LEMMA SendKeepsReceived ==
  ASSUME TypeOK, Received, HostSend
  PROVE  Received'
<1>t. /\ rxFifo \in Seq(1 .. MaxIn) /\ received \in Seq(0 .. MaxIn) /\ hostSent \in 0 .. MaxIn
      /\ rx_in \in Slots /\ rx_out \in Slots
  BY DEF TypeOK
<1>l. Len(rxFifo) \in Nat /\ Len(received) \in Nat /\ Dist(rx_in, rx_out) \in Nat
  BY <1>t, LenProperties, CountIs
<1>1. /\ hostSent' = hostSent + 1 /\ hostSent < MaxIn /\ rxFifo' = Append(rxFifo, hostSent + 1)
      /\ rx_buf' = rx_buf /\ rx_in' = rx_in /\ rx_out' = rx_out /\ received' = received
  BY DEF HostSend, rxRing, history
<1>2. hostSent + 1 \in 1 .. MaxIn
  BY <1>t, <1>1
<1>3. /\ Len(rxFifo') = Len(rxFifo) + 1
      /\ \A i \in 1 .. Len(rxFifo) : rxFifo'[i] = rxFifo[i]
      /\ rxFifo'[Len(rxFifo) + 1] = hostSent + 1
  BY <1>t, <1>1, <1>2, AppendProperties
<1>4. /\ Len(received) + Dist(rx_in, rx_out) + Len(rxFifo) = hostSent
      /\ \A i \in 1 .. Len(rxFifo) : rxFifo[i] = Len(received) + Dist(rx_in, rx_out) + i
  BY DEF Received
<1>5. Len(received) + Dist(rx_in, rx_out) + Len(rxFifo') = hostSent'
  <2> DEFINE x == Len(received) + Dist(rx_in, rx_out)
  <2>1. x \in Nat
    BY <1>l
  <2>2. x + Len(rxFifo) = hostSent
    BY <1>4
  <2> HIDE DEF x
  <2>3. x + Len(rxFifo') = hostSent'
    <3>1. Len(rxFifo') = Len(rxFifo) + 1 /\ hostSent' = hostSent + 1
      BY <1>1, <1>3
    <3>2. x + (Len(rxFifo) + 1) = (x + Len(rxFifo)) + 1
      BY <1>l, <2>1
    <3>3. QED
      BY <2>2, <3>1, <3>2
  <2>4. QED
    BY <2>3 DEF x
<1>6. \A i \in 1 .. Len(rxFifo') : rxFifo'[i] = Len(received) + Dist(rx_in, rx_out) + i
  <2> DEFINE x == Len(received) + Dist(rx_in, rx_out)
  <2>1. x \in Nat
    BY <1>l
  <2>2. x + Len(rxFifo) = hostSent /\ \A i \in 1 .. Len(rxFifo) : rxFifo[i] = x + i
    BY <1>4
  <2> HIDE DEF x
  <2>3. \A i \in 1 .. Len(rxFifo') : rxFifo'[i] = x + i
    <3> SUFFICES ASSUME NEW i \in 1 .. Len(rxFifo') PROVE rxFifo'[i] = x + i
        OBVIOUS
    <3>1. i \in 1 .. Len(rxFifo) \/ i = Len(rxFifo) + 1
      BY <1>l, <1>3
    <3>2. CASE i \in 1 .. Len(rxFifo)
      BY <1>3, <2>2, <3>2
    <3>3. CASE i = Len(rxFifo) + 1
      BY <1>l, <1>3, <2>1, <2>2, <3>3
    <3>4. QED
      BY <3>1, <3>2, <3>3
  <2>4. QED
    BY <2>3 DEF x
<1>7. QED
  BY <1>1, <1>5, <1>6 DEF Received

(* Every step keeps the characters received in their places.               *)
LEMMA ReceiveStep ==
  ASSUME TypeOK, Locals, ReceiveRun, Received, [Next]_vars
  PROVE  ReceiveRun' /\ Received'
<1>f. UNCHANGED <<rx_buf, rx_in, rx_out, received, rxFifo, hostSent>> => Received'
  BY DEF Received
<1>g. /\ UNCHANGED <<rx_in, rx_out, received>>
      /\ UNCHANGED <<pc, out, n, chunk>> \/ pc' \notin {"r_copy", "r_advance"}
      => ReceiveRun'
  BY DEF ReceiveRun
<1>1. CASE ReadCopy
  BY <1>1, CopyTakesNext
<1>2. CASE ReadAdvance
  BY <1>2, AdvanceKeepsReceived
<1>3. CASE IrqReceive
  BY <1>3, ReceiveKeepsReceived
<1>4. CASE HostSend
  BY <1>4, <1>g, SendKeepsReceived DEF HostSend, rxRing, call, history
<1>5. CASE ReadLook
  <2>1. /\ out' = rx_out /\ n' = Lesser(ReadRun, left) /\ pc' # "r_advance"
        /\ rx_in' = rx_in /\ rx_out' = rx_out
    BY <1>5 DEF ReadLook, rxRing
  <2>2. rx_in \in Slots /\ rx_out \in Slots /\ left \in Nat
    BY DEF TypeOK
  <2>3. ReadRun \in Nat /\ rx_out + ReadRun <= BufLen /\ ReadRun <= Dist(rx_in, rx_out)
    BY <2>2 DEF ReadRun, Dist, Slots
  <2>4. Lesser(ReadRun, left) \in Nat /\ Lesser(ReadRun, left) <= ReadRun
    BY <2>2, <2>3 DEF Lesser
  <2>5. rx_out + Lesser(ReadRun, left) <= BufLen
    <3>1. rx_out \in Nat /\ BufLen \in Int
      BY <2>2 DEF Slots
    <3>2. QED
      BY <2>3, <2>4, <3>1, LessFits, Zenon
  <2>6. Lesser(ReadRun, left) <= Dist(rx_in, rx_out)
    <3>1. Dist(rx_in, rx_out) \in Nat
      BY <2>2, CountIs
    <3>2. QED
      BY <2>3, <2>4, <3>1
  <2>7. ReceiveRun'
    BY <2>1, <2>5, <2>6 DEF ReceiveRun
  <2>8. QED
    BY <1>5, <1>f, <2>7 DEF ReadLook, rxRing, device, host, history
<1>6. CASE Call
  BY <1>6, <1>f, <1>g DEF Call, CallWrite, CallRead, CallClose, rxRing, device, host, history
<1>7. CASE WriteLook \/ WriteCopy \/ WriteAdvance
  BY <1>7, <1>f, <1>g DEF WriteLook, WriteCopy, WriteAdvance, rxRing, device, host, history
<1>8. CASE WriteKick \/ WriteWait \/ WriteReturn
  BY <1>8, <1>f, <1>g
  DEF WriteKick, WriteWait, WriteReturn, Returns, rxRing, device, host, history
<1>9. CASE ReadWait \/ ReadEnable \/ ReadReturn \/ CloseReturn
  BY <1>9, <1>f, <1>g
  DEF ReadWait, ReadEnable, ReadReturn, CloseReturn, Returns, rxRing, device, host, history
<1>10. CASE IrqEnter \/ IrqLook \/ IrqTransmit \/ Alarm
  BY <1>10, <1>f, <1>g
  DEF IrqEnter, IrqLook, IrqTransmit, Alarm, rxRing, device, call, host, history
<1>11. CASE HostTake \/ HostPoll \/ Plug
  BY <1>11, <1>f, <1>g DEF HostTake, HostPoll, Plug, rxRing, device, call, host, history
<1>12. CASE UNCHANGED vars
  BY <1>12, <1>f, <1>g DEF vars, rxRing, device, call, host, history
<1>13. QED
  BY <1>1, <1>2, <1>3, <1>4, <1>5, <1>6, <1>7, <1>8, <1>9, <1>10, <1>11, <1>12
  DEF Next, Serve, Irq, Host

-----------------------------------------------------------------------------
(* The theorem.                                                            *)

Places == SendRoom /\ Sent /\ ReceiveRun /\ Received

(* Nothing is anywhere when the driver starts.                             *)
LEMMA InitPlaces == Init => Places
<1> SUFFICES ASSUME Init PROVE Places
    OBVIOUS
<1>1. /\ pc = "idle" /\ rx_in = 0 /\ rx_out = 0 /\ tx_in = 0 /\ tx_out = 0
      /\ rxFifo = << >> /\ txFifo = << >> /\ hostGot = << >> /\ received = << >>
      /\ hostSent = 0 /\ written = 0
  BY DEF Init
<1>2. Dist(0, 0) = 0 /\ \A k \in Slots : ~(k < 0)
  BY DEF Dist, Slots
<1>3. Len(<< >>) = 0
  BY EmptySeq
<1>4. \A i \in 1 .. 0 : FALSE
  OBVIOUS
<1>5. SendRoom /\ ReceiveRun
  BY <1>1 DEF SendRoom, ReceiveRun
<1>6. Sent
  BY <1>1, <1>2, <1>3, <1>4 DEF Sent
<1>7. Received
  BY <1>1, <1>2, <1>3, <1>4 DEF Received
<1>8. QED
  BY <1>5, <1>6, <1>7 DEF Places

\* Three sequences hold, one behind the other, the numbers 1 .. m.
Line(a, b, c, m) ==
  /\ Len(a) + Len(b) + Len(c) = m
  /\ \A i \in 1 .. Len(a) : a[i] = i
  /\ \A i \in 1 .. Len(b) : b[i] = Len(a) + i
  /\ \A i \in 1 .. Len(c) : c[i] = Len(a) + Len(b) + i

(* With every character in its place, the three parts of a stream put one  *)
(* behind the other are the numbers from one on.                           *)
LEMMA Lined ==
  ASSUME NEW a \in Seq(Int), NEW b \in Seq(Int), NEW c \in Seq(Int), NEW m \in Nat,
         Line(a, b, c, m)
  PROVE  a \o b \o c = Upto(m)
<1>p. /\ Len(a) + Len(b) + Len(c) = m
      /\ \A i \in 1 .. Len(a) : a[i] = i
      /\ \A i \in 1 .. Len(b) : b[i] = Len(a) + i
      /\ \A i \in 1 .. Len(c) : c[i] = Len(a) + Len(b) + i
  BY DEF Line
<1>l. Len(a) \in Nat /\ Len(b) \in Nat /\ Len(c) \in Nat
  BY LenProperties
<1>1. /\ a \o b \in Seq(Int) /\ Len(a \o b) = Len(a) + Len(b)
      /\ \A i \in 1 .. Len(a) + Len(b) :
           (a \o b)[i] = IF i <= Len(a) THEN a[i] ELSE b[i - Len(a)]
  BY ConcatProperties
<1>2. ASSUME NEW i \in 1 .. Len(a) + Len(b)
      PROVE  (a \o b)[i] = i
  <2>1. CASE i <= Len(a)
    BY <1>p, <1>l, <1>1, <2>1
  <2>2. CASE i > Len(a)
    <3>1. i - Len(a) \in 1 .. Len(b) /\ Len(a) + (i - Len(a)) = i
      BY <1>l, <2>2
    <3>2. QED
      BY <1>p, <1>l, <1>1, <2>2, <3>1
  <2>3. QED
    BY <1>l, <2>1, <2>2
<1> DEFINE ab == a \o b
<1>3. /\ ab \o c \in Seq(Int) /\ Len(ab \o c) = Len(ab) + Len(c)
      /\ \A i \in 1 .. Len(ab) + Len(c) :
           (ab \o c)[i] = IF i <= Len(ab) THEN ab[i] ELSE c[i - Len(ab)]
  BY <1>1, ConcatProperties
<1>4. Len(ab) = Len(a) + Len(b) /\ \A i \in 1 .. Len(ab) : ab[i] = i
  BY <1>1, <1>2
<1> HIDE DEF ab
<1>5. ASSUME NEW i \in 1 .. m
      PROVE  (ab \o c)[i] = i
  <2>1. i \in 1 .. Len(ab) + Len(c) /\ Len(ab) \in Nat
    BY <1>p, <1>l, <1>4
  <2>2. CASE i <= Len(ab)
    BY <1>3, <1>4, <2>1, <2>2
  <2>3. CASE i > Len(ab)
    <3>1. i - Len(ab) \in 1 .. Len(c) /\ Len(ab) + (i - Len(ab)) = i
      BY <1>p, <1>l, <2>1, <2>3
    <3>2. c[i - Len(ab)] = Len(ab) + (i - Len(ab))
      BY <1>p, <1>4, <3>1
    <3>3. QED
      BY <1>3, <2>1, <2>3, <3>1, <3>2
  <2>4. QED
    BY <2>1, <2>2, <2>3
<1>6. Upto(m) \in Seq(Int) /\ Len(Upto(m)) = m /\ \A i \in 1 .. m : Upto(m)[i] = i
  <2>1. Upto(m) \in [1 .. m -> Int]
    BY DEF Upto
  <2>2. Upto(m) \in Seq(Int)
    BY <2>1, SeqDef
  <2>3. Len(Upto(m)) = m
    BY <2>1, <2>2, LenProperties
  <2>4. QED
    BY <2>2, <2>3 DEF Upto
<1>7. Len(ab \o c) = m
  BY <1>p, <1>3, <1>4
<1>8. ab \o c = Upto(m)
  BY <1>3, <1>5, <1>6, <1>7, SeqEqual
<1>9. QED
  BY <1>8 DEF ab

(* Characters in their places are in order.                                *)
LEMMA PlacesInOrder ==
  ASSUME TypeOK, Places
  PROVE  InOrder
<1>t. /\ rx_in \in Slots /\ rx_out \in Slots /\ tx_in \in Slots /\ tx_out \in Slots
      /\ rx_buf \in [Slots -> Int] /\ tx_buf \in [Slots -> Int]
      /\ rxFifo \in Seq(Int) /\ txFifo \in Seq(Int)
      /\ hostGot \in Seq(Int) /\ received \in Seq(Int)
      /\ hostSent \in Nat /\ written \in Nat
  <2>1. 0 .. MaxIn \subseteq Int /\ 1 .. MaxIn \subseteq Int /\ 0 .. MaxOut \subseteq Int
    OBVIOUS
  <2>2. rxFifo \in Seq(Int) /\ received \in Seq(Int)
    BY <2>1, SeqMonotonic DEF TypeOK
  <2>3. txFifo \in Seq(Int) /\ hostGot \in Seq(Int)
    BY <2>1, SeqMonotonic DEF TypeOK
  <2>4. rx_buf \in [Slots -> Int] /\ tx_buf \in [Slots -> Int]
    <3>1. rx_buf \in [Slots -> 0 .. MaxIn] /\ tx_buf \in [Slots -> 0 .. MaxOut]
      BY DEF TypeOK
    <3>2. QED
      BY <2>1, <3>1
  <2>5. hostSent \in 0 .. MaxIn /\ written \in 0 .. MaxOut
    BY DEF TypeOK
  <2>6. hostSent \in Nat /\ written \in Nat
    BY <2>5
  <2>7. QED
    BY <2>2, <2>3, <2>4, <2>6 DEF TypeOK
<1>l. /\ Len(rxFifo) \in Nat /\ Len(txFifo) \in Nat
      /\ Len(hostGot) \in Nat /\ Len(received) \in Nat
  BY <1>t, LenProperties
<1>1. SentInOrder
  <2> DEFINE d == Dist(tx_in, tx_out)
             c == Content(tx_buf, tx_out, d)
             x == Len(hostGot) + Len(txFifo)
  <2>1. TxCount = d /\ d \in 0 .. BufLen - 1
    BY <1>t, CountIs DEF TxCount
  <2> HIDE DEF d
  <2>2. d \in 0 .. BufLen /\ d \in Nat
    BY <2>1
  <2>3. c \in Seq(Int) /\ Len(c) = d
    BY <1>t, <2>2, ContentIs
  <2>4. x \in Nat
    BY <1>l
  <2>5. \A k \in Slots : k < d => tx_buf[Wrap(tx_out + k)] = x + k + 1
    BY DEF Places, Sent, d
  <2> HIDE DEF c, x
  <2>6. ASSUME NEW i \in 1 .. d
        PROVE  c[i] = x + i
    <3>1. i - 1 \in Slots /\ i - 1 < d /\ x + (i - 1) + 1 = x + i
      BY <2>1, <2>2, <2>4 DEF Slots
    <3>2. c[i] = tx_buf[Wrap(tx_out + (i - 1))]
      BY <1>t, <2>2, ContentAt DEF c
    <3>3. QED
      BY <2>5, <3>1, <3>2
  <2>7. /\ Len(hostGot) + Len(txFifo) + Len(c) = written
        /\ \A i \in 1 .. Len(hostGot) : hostGot[i] = i
        /\ \A i \in 1 .. Len(txFifo) : txFifo[i] = Len(hostGot) + i
        /\ \A i \in 1 .. Len(c) : c[i] = Len(hostGot) + Len(txFifo) + i
    BY <2>3, <2>6 DEF Places, Sent, d, x
  <2>8. hostGot \o txFifo \o c = Upto(written)
    <3>1. hostGot \in Seq(Int) /\ txFifo \in Seq(Int) /\ written \in Nat
      BY <1>t
    <3>2. Line(hostGot, txFifo, c, written)
      BY <2>7 DEF Line
    <3>3. QED
      BY <2>3, <3>1, <3>2, Lined
  <2>9. QED
    BY <2>1, <2>8 DEF SentInOrder, c
<1>2. ReceivedInOrder
  <2> DEFINE d == Dist(rx_in, rx_out)
             c == Content(rx_buf, rx_out, d)
  <2>1. RxCount = d /\ d \in 0 .. BufLen - 1
    BY <1>t, CountIs DEF RxCount
  <2> HIDE DEF d
  <2>2. d \in 0 .. BufLen /\ d \in Nat
    BY <2>1
  <2>3. c \in Seq(Int) /\ Len(c) = d
    BY <1>t, <2>2, ContentIs
  <2>4. \A k \in Slots : k < d => rx_buf[Wrap(rx_out + k)] = Len(received) + k + 1
    BY DEF Places, Received, d
  <2> HIDE DEF c
  <2>5. ASSUME NEW i \in 1 .. d
        PROVE  c[i] = Len(received) + i
    <3>1. i - 1 \in Slots /\ i - 1 < d /\ Len(received) + (i - 1) + 1 = Len(received) + i
      BY <1>l, <2>1, <2>2 DEF Slots
    <3>2. c[i] = rx_buf[Wrap(rx_out + (i - 1))]
      BY <1>t, <2>2, ContentAt DEF c
    <3>3. QED
      BY <2>4, <3>1, <3>2
  <2>6. /\ Len(received) + Len(c) + Len(rxFifo) = hostSent
        /\ \A i \in 1 .. Len(received) : received[i] = i
        /\ \A i \in 1 .. Len(c) : c[i] = Len(received) + i
        /\ \A i \in 1 .. Len(rxFifo) : rxFifo[i] = Len(received) + Len(c) + i
    BY <2>3, <2>5 DEF Places, Received, d
  <2>7. received \o c \o rxFifo = Upto(hostSent)
    <3>1. received \in Seq(Int) /\ rxFifo \in Seq(Int) /\ hostSent \in Nat
      BY <1>t
    <3>2. Line(received, c, rxFifo, hostSent)
      BY <2>6 DEF Line
    <3>3. QED
      BY <2>3, <3>1, <3>2, Lined
  <2>8. QED
    BY <2>1, <2>7 DEF ReceivedInOrder, c
<1>3. QED
  BY <1>1, <1>2 DEF InOrder

(* Both streams cross the driver unharmed: what the host sent is what was  *)
(* read, what the ring holds and what the FIFO holds, in this order, and   *)
(* the same the other way, though the interrupt routine works on the rings *)
(* between the look, the copy and the move of an index of a call.          *)
THEOREM StreamsInOrder == Spec => []InOrder
<1>1. Init => Invariant /\ Places
  BY InitInvariant, InitPlaces
<1>2. Invariant /\ Places /\ [Next]_vars => Invariant' /\ Places'
  BY LocalsStep, AccountsStep, TypeStep, AwakeStep, SendStep, ReceiveStep
  DEF Invariant, Places
<1>3. Invariant /\ Places => InOrder
  BY PlacesInOrder DEF Invariant
<1>4. QED
  BY <1>1, <1>2, <1>3, PTL DEF Spec
=============================================================================
