----------------------------- MODULE SerialChannel ------------------------------
(***************************************************************************)
(* What a serial link promises: the words handed to the sender come out of *)
(* the receiver in the same order, each exactly once, with never more than *)
(* Capacity of them on the way.                                            *)
(***************************************************************************)
EXTENDS Naturals, Sequences

CONSTANTS
    Words,      \* the words that can be sent
    Capacity    \* the most words sent and not yet received

VARIABLES
    sent,       \* the words handed to the sender, oldest first
    rcvd        \* the words the receiver has announced, oldest first

vars == <<sent, rcvd>>

Init == sent = << >> /\ rcvd = << >>

Send(w) ==
    /\ Len(sent) - Len(rcvd) < Capacity
    /\ sent' = Append(sent, w)
    /\ UNCHANGED rcvd

Receive ==
    /\ Len(rcvd) < Len(sent)
    /\ rcvd' = Append(rcvd, sent[Len(rcvd) + 1])
    /\ UNCHANGED sent

\* The last word arrives in the cycle in which the next one is sent.
Turn(w) ==
    /\ Len(rcvd) < Len(sent)
    /\ sent' = Append(sent, w)
    /\ rcvd' = Append(rcvd, sent[Len(rcvd) + 1])

\* A reset of both ends abandons whatever was on the way.
Clear == sent' = << >> /\ rcvd' = << >>

Next == (\E w \in Words : Send(w) \/ Turn(w)) \/ Receive \/ Clear

Spec == Init /\ [][Next]_vars
================================================================================
