--------------------------- MODULE MCControlFlow ---------------------------
(***************************************************************************)
(* An instance of ControlFlow for TLC.                                     *)
(***************************************************************************)
EXTENDS ControlFlow

CONSTANTS x, y, s0, s1, t0

OneBit == 0 .. 1
TwoCallee == <<s0, s1>>
OneCaller == <<t0>>

WholeSpec == CondInit /\ [][WholeNext]_condVars
=============================================================================
