--------------------------- MODULE MCInstructions ---------------------------
(***************************************************************************)
(* Instances of Instructions for TLC.  Words of four bits overflow, carry  *)
(* and divide in every way words of 32 do.                                 *)
(***************************************************************************)
EXTENDS Instructions

SomeAccumulators == {<<0, 0>>, <<0, 15>>, <<7, 9>>, <<15, 15>>}
BothOrders == BOOLEAN
\* Left out are the types inst_decode does not read back: the conditional
\* branches and moves of coprocessors and most floating-point types.
ReadBack == AllTypes \ {"MOVC", "BC", "FP_R2ds", "FP_R3", "FP_CMP", "FP_MOVC"}

SomeBreaks == {-1, 3, 8}
\* No step depends on the fault of the one before it.
BesidesFault == <<aluVars, unalignedVars, flagVars, codeVars, text, data, stack, written, stores, unit>>
=============================================================================
