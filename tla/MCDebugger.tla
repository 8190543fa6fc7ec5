----------------------------- MODULE MCDebugger -----------------------------
(***************************************************************************)
(* Instances of Debugger for TLC: a program of two instructions with one   *)
(* breakpoint, and a handler of two.                                       *)
(***************************************************************************)
EXTENDS Debugger

Setting(d, m) == [delayed |-> d, mapped |-> m]
AllModes == {Setting(d, m) : d, m \in BOOLEAN}
Delayed  == {Setting(TRUE, FALSE)}
AllMasks == {Levels, {"timer"}}
=============================================================================
