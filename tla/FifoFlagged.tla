------------------------------ MODULE FifoFlagged -------------------------------
(***************************************************************************)
(* The FIFO under a client that keeps no count of its own: it writes when  *)
(* full is low and reads when empty is low.  It asks for both in one cycle *)
(* only while a word is there to be read: with nothing to read the circuit *)
(* moves both pointers all the same, and passes over the word just         *)
(* written.  At the full limit it may ask for both: the write is refused.  *)
(* A history variable records the registers that hold a word written and   *)
(* not yet read.                                                           *)
(***************************************************************************)
EXTENDS Fifo, FiniteSets

VARIABLE unread     \* registers written since they were last read

flaggedVars == <<fifoVars, unread>>

FInit == FifoInit /\ unread = {}

FWrite(d) == Write(d) /\ unread' = unread \cup {w_ptr_reg}

FRead == Read /\ unread' = unread \ {r_ptr_reg}

FWriteRead(d) ==
    /\ unread # {}
    /\ WriteRead(d)
    /\ unread' = (unread \ {r_ptr_reg}) \cup (IF full_reg THEN {} ELSE {w_ptr_reg})

FReset == FifoReset /\ unread' = {}

\* A cycle in which a port is used.
FUse ==
    \/ \E d \in Data : FWrite(d) \/ FWriteRead(d)
    \/ FRead

FNext == FUse \/ FReset

-----------------------------------------------------------------------------
\* The registers from the read pointer up to the write pointer.
Window ==
    IF r_ptr_reg <= w_ptr_reg
    THEN r_ptr_reg .. w_ptr_reg - 1
    ELSE Slots \ (w_ptr_reg .. r_ptr_reg - 1)

\* Every register holds a value of its width.
FlagTypes ==
    /\ array_reg \in [Slots -> Data]
    /\ w_ptr_reg \in Slots
    /\ r_ptr_reg \in Slots
    /\ full_reg \in BOOLEAN
    /\ empty_reg \in BOOLEAN
    /\ unread \in SUBSET Slots

\* A word not yet read lies between the pointers, or anywhere when the buffer
\* is full; then the pointers are equal.
UnreadInWindow ==
    IF full_reg THEN w_ptr_reg = r_ptr_reg ELSE unread \subseteq Window

(* The full flag protects the words.  A word that has been written and not *)
(* read stays in its register until it is read or the circuit is reset,    *)
(* over any sequence of writes, reads and cycles with both: also at the    *)
(* full limit, where fifo.vhd:116 moves both pointers, and after the late  *)
(* empty flag of fifo.vhd:103 has let the client read past the last word.  *)
NothingOverwritten ==
    [][\A s \in unread \cap unread' : array_reg'[s] = array_reg[s]]_flaggedVars

(* What the header of fifo.vhd:11-12 says of the empty flag, that an empty *)
(* buffer cannot be read: with empty raised no word waits to be read.  The *)
(* circuit refuses a read then, so a word that waited would be stuck.  It  *)
(* fails: after the first read of a full buffer the successors compared in *)
(* fifo.vhd:103 are equal and empty is raised with Depth - 1 words stored. *)
EmptyMeansNothingUnread == empty_reg => unread = {}
================================================================================
