------------------------------ MODULE BoundedQueue ------------------------------
(***************************************************************************)
(* What a first-in first-out buffer promises: the words put into it come   *)
(* out in the order they went in, none lost, none repeated, and it never   *)
(* holds more than Capacity of them.  One step is one clock cycle, in      *)
(* which a word may go in, a word may come out, or both.                   *)
(***************************************************************************)
EXTENDS Naturals, Sequences

CONSTANTS
    Data,       \* the words
    Capacity,   \* the most words held at once
    NoWord      \* what a port carries when no word goes through it

VARIABLES
    queue,
    io          \* the words that went in and came out in the last cycle

vars == <<queue, io>>

Idle == [put |-> NoWord, got |-> NoWord]

Init == queue = << >> /\ io = Idle

Put(d) ==
    /\ Len(queue) < Capacity
    /\ queue' = Append(queue, d)
    /\ io' = [put |-> d, got |-> NoWord]

Get ==
    /\ queue # << >>
    /\ queue' = Tail(queue)
    /\ io' = [put |-> NoWord, got |-> Head(queue)]

\* A word leaves and another enters in the same cycle.
PutGet(d) ==
    /\ queue # << >>
    /\ queue' = Append(Tail(queue), d)
    /\ io' = [put |-> d, got |-> Head(queue)]

Clear == queue' = << >> /\ io' = Idle

Next ==
    \/ \E d \in Data : Put(d) \/ PutGet(d)
    \/ Get
    \/ Clear

Spec == Init /\ [][Next]_vars
================================================================================
