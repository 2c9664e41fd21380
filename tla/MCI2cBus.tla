-------------------------------- MODULE MCI2cBus --------------------------------
(***************************************************************************)
(* Model values for I2cBus: bytes of two bits, so a command is one address *)
(* bit and rw.                                                             *)
(***************************************************************************)
EXTENDS I2cBus

AllCommands == {[i \in {0, 1} |-> IF i = 0 THEN rw ELSE a] : rw \in Bit, a \in Bit}
SomeWords == {w \in [{0, 1} -> Bit] : w[1] = 0}
OneWord == {[i \in {0, 1} |-> 1 - i]}
================================================================================
