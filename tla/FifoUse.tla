-------------------------------- MODULE FifoUse ---------------------------------
(***************************************************************************)
(* The FIFO and its user.  A user counts its words or goes by the flags,   *)
(* and keeps to that until the next reset: the variable client is chosen   *)
(* at the start and at every reset, and never changes in between.  The     *)
(* bookkeeping of the other client stays as reset left it.                 *)
(***************************************************************************)
EXTENDS FifoClient, FifoFlagged

VARIABLE client     \* how the user knows what the buffer holds

useVars == <<fifoVars, count, io, unread, client>>

Clients == {"counts", "flags"}

UseInit == CInit /\ FInit /\ client \in Clients

\* A cycle of the client that counts.
CountsWords ==
    /\ client = "counts"
    /\ CUse
    /\ UNCHANGED <<unread, client>>

\* A cycle of the client that goes by the flags.
GoesByFlags ==
    /\ client = "flags"
    /\ FUse
    /\ UNCHANGED <<count, io, client>>

\* A reset, after which the user may be the other one.
UseReset ==
    /\ CReset
    /\ unread' = {}
    /\ client' \in Clients

UseNext == CountsWords \/ GoesByFlags \/ UseReset

UseSpec == UseInit /\ [][UseNext]_useVars

-----------------------------------------------------------------------------
(* Every register of the FIFO holds a value of its width and the count is  *)
(* one the buffer can hold; each client's bookkeeping is at rest while the *)
(* other is the user.                                                      *)
UseTypeOK ==
    /\ CountTypes
    /\ unread \in SUBSET Slots
    /\ client \in Clients
    /\ client = "counts" => unread = {}
    /\ client = "flags" => count = 0

(* The count of the client that counts is the distance between the         *)
(* pointers, the buffer never reports full to it, and it reports empty     *)
(* only when it holds nothing.                                             *)
CountIsDistance == client = "counts" => CountedApart
================================================================================
