----------------------------- MODULE MCRegisters -----------------------------
(* An instance of Registers for TLC.                                       *)
EXTENDS Registers
=============================================================================
