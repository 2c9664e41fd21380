---------------------------------- MODULE Fifo ----------------------------------
(***************************************************************************)
(* The FIFO buffer of fifo.vhd: a register file used as a circular queue,  *)
(* a write and a read pointer, and two status flip-flops that tell a full  *)
(* buffer from an empty one when the pointers meet.                        *)
(*                                                                         *)
(* A step is one rising edge of clk (or an assertion of rst).  Each action *)
(* is one alternative of "case wr_op": the inputs wr and rd choose the     *)
(* action and w_data is its parameter.  The alternative "00" changes       *)
(* nothing and is a stuttering step.                                       *)
(***************************************************************************)
EXTENDS Integers

CONSTANTS
    Depth,      \* words in the register file (2**w in the code)
    Data,       \* the words w_data can carry
    Zero        \* the word reset leaves in every register

\* The generic w is at least 1, so there are at least two registers.  Nothing
\* below needs the depth to be a power of two.
ASSUME DepthAssumption == Depth \in Nat /\ Depth > 1
ASSUME ZeroAssumption == Zero \in Data

VARIABLES
    array_reg,  \* the register file
    w_ptr_reg,  \* where the next word is written
    r_ptr_reg,  \* where the head is read
    full_reg,
    empty_reg

fifoVars == <<array_reg, w_ptr_reg, r_ptr_reg, full_reg, empty_reg>>

Slots == 0 .. Depth - 1

\* Fault: a successor that does not wrap.
SuccUnwrapped(p) == p + 1

\* w_ptr_succ and r_ptr_succ: a pointer plus one in w bits.
Succ(p) == IF p = Depth - 1 THEN 0 ELSE p + 1

\* The read port: the word at the read pointer is always visible.
r_data == array_reg[r_ptr_reg]

FifoInit ==
    /\ array_reg = [s \in Slots |-> Zero]
    /\ w_ptr_reg = 0
    /\ r_ptr_reg = 0
    /\ full_reg = FALSE
    /\ empty_reg = TRUE

\* The register file: a word is stored on every write except when full.
Store(d) ==
    array_reg' = IF full_reg THEN array_reg
                             ELSE [array_reg EXCEPT ![w_ptr_reg] = d]

\* wr_op = "01".
Read ==
    /\ ~empty_reg
    /\ r_ptr_reg' = Succ(r_ptr_reg)
    /\ full_reg' = FALSE
    /\ empty_reg' = (Succ(r_ptr_reg) = Succ(w_ptr_reg))
    /\ UNCHANGED <<array_reg, w_ptr_reg>>

\* Fault: the write pointer catching the read pointer goes unnoticed.
WriteNeverFull(d) ==
    /\ ~full_reg
    /\ Store(d)
    /\ w_ptr_reg' = Succ(w_ptr_reg)
    /\ empty_reg' = FALSE
    /\ UNCHANGED <<r_ptr_reg, full_reg>>

\* Fault: full is raised one word early.
WriteFullEarly(d) ==
    /\ ~full_reg
    /\ Store(d)
    /\ w_ptr_reg' = Succ(w_ptr_reg)
    /\ full_reg' = (Succ(Succ(w_ptr_reg)) = r_ptr_reg)
    /\ empty_reg' = FALSE
    /\ UNCHANGED r_ptr_reg

\* wr_op = "10".
Write(d) ==
    /\ ~full_reg
    /\ Store(d)
    /\ w_ptr_reg' = Succ(w_ptr_reg)
    /\ full_reg' = (Succ(w_ptr_reg) = r_ptr_reg)
    /\ empty_reg' = FALSE
    /\ UNCHANGED r_ptr_reg

\* Fault: the register file is not written while a read is under way.
WriteReadDropsWord(d) ==
    /\ w_ptr_reg' = Succ(w_ptr_reg)
    /\ r_ptr_reg' = Succ(r_ptr_reg)
    /\ UNCHANGED <<array_reg, full_reg, empty_reg>>

\* wr_op = "11": both pointers move, whatever the flags say.
WriteRead(d) ==
    /\ Store(d)
    /\ w_ptr_reg' = Succ(w_ptr_reg)
    /\ r_ptr_reg' = Succ(r_ptr_reg)
    /\ UNCHANGED <<full_reg, empty_reg>>

FifoReset ==
    /\ array_reg' = [s \in Slots |-> Zero]
    /\ w_ptr_reg' = 0
    /\ r_ptr_reg' = 0
    /\ full_reg' = FALSE
    /\ empty_reg' = TRUE

FifoNext ==
    \/ Read
    \/ \E d \in Data : Write(d) \/ WriteRead(d)
    \/ FifoReset

FifoSpec == FifoInit /\ [][FifoNext]_fifoVars
================================================================================
