------------------------------- MODULE FifoClient -------------------------------
(***************************************************************************)
(* The FIFO under a client that keeps its own count of the words it has    *)
(* put in and not yet taken, and so never depends on the status flags: it  *)
(* leaves one register free and takes a word only when it knows of one.    *)
(* Under that discipline the circuit is a bounded queue of Depth - 1       *)
(* words.                                                                  *)
(***************************************************************************)
EXTENDS Fifo, Sequences

CONSTANT NoWord     \* what a port carries when the client does not use it

VARIABLES
    count,          \* words put and not yet taken, as the client counts them
    io              \* w_data as written and r_data as read in the last cycle

clientVars == <<fifoVars, count, io>>

Capacity == Depth - 1

CInit ==
    /\ FifoInit
    /\ count = 0
    /\ io = [put |-> NoWord, got |-> NoWord]

CWrite(d) ==
    /\ count < Capacity
    /\ Write(d)
    /\ count' = count + 1
    /\ io' = [put |-> d, got |-> NoWord]

CRead ==
    /\ count > 0
    /\ Read
    /\ count' = count - 1
    /\ io' = [put |-> NoWord, got |-> r_data]

CWriteRead(d) ==
    /\ count > 0
    /\ WriteRead(d)
    /\ io' = [put |-> d, got |-> r_data]
    /\ UNCHANGED count

CReset ==
    /\ FifoReset
    /\ count' = 0
    /\ io' = [put |-> NoWord, got |-> NoWord]

\* A cycle in which a port is used.
CUse ==
    \/ \E d \in Data : CWrite(d) \/ CWriteRead(d)
    \/ CRead

CNext == CUse \/ CReset

-----------------------------------------------------------------------------
(* The queue the registers stand for. *)

\* The register that is k places after the read pointer, for k below Depth.
Ahead(k) == IF r_ptr_reg + k < Depth THEN r_ptr_reg + k
                                     ELSE r_ptr_reg + k - Depth

contents == [i \in 1 .. count |-> array_reg[Ahead(i - 1)]]

Queue == INSTANCE BoundedQueue WITH queue <- contents

-----------------------------------------------------------------------------
\* Every register holds a value of its width, and the client's count is one
\* the buffer can hold.
CountTypes ==
    /\ array_reg \in [Slots -> Data]
    /\ w_ptr_reg \in Slots
    /\ r_ptr_reg \in Slots
    /\ full_reg \in BOOLEAN
    /\ empty_reg \in BOOLEAN
    /\ count \in 0 .. Capacity
    /\ io \in [put : Data \cup {NoWord}, got : Data \cup {NoWord}]

\* The pointers are count registers apart, the buffer never reports full, and
\* it reports empty only when it holds nothing (it may hold nothing and not
\* say so: the last read leaves empty_reg low).
CountedApart ==
    /\ w_ptr_reg = Ahead(count)
    /\ ~full_reg
    /\ empty_reg => count = 0

(* The circuit under this client is a bounded queue of Depth - 1 words:    *)
(* every word read on r_data is the oldest one written and not yet read,   *)
(* whatever the order of writes, reads and simultaneous write/reads        *)
(* around the register file.                                               *)
ImplementsQueue == Queue!Spec
================================================================================
