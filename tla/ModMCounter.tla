------------------------------ MODULE ModMCounter -------------------------------
(***************************************************************************)
(* The free-running counter of mod_m_counter.vhd, used as baud-rate        *)
(* generator: it counts 0 .. M-1 and raises max_tick for the one cycle in  *)
(* which it holds M-1.                                                     *)
(***************************************************************************)
EXTENDS Naturals

CONSTANT M      \* the modulus (dvsr in uart.vhd)

VARIABLE r_reg

max_tick == r_reg = M - 1

Init == r_reg = 0

\* Fault: a counter that is not cleared.
EdgeUnwrapped == r_reg' = r_reg + 1

Edge == r_reg' = IF r_reg = M - 1 THEN 0 ELSE r_reg + 1

Reset == r_reg' = 0
================================================================================
