---------------------------- MODULE MCTargetCode ----------------------------
(***************************************************************************)
(* An instance of TargetCode for TLC: main, and a function with two        *)
(* parameters and a local, called from its own body and from its own       *)
(* arguments; statements over three variables and two callee-saved         *)
(* registers; two files that share two names.                              *)
(***************************************************************************)
EXTENDS TargetCode

CONSTANTS x, y, z, s0, s1, t0, lab1, lab2

MCParamCount == ("main" :> 0) @@ ("g" :> 2)
MCLocalSizes == ("main" :> <<>>) @@ ("g" :> <<1>>)
MCSavedRegs == <<"s0">>

OneBit == 0 .. 1
TwoCallee == <<s0, s1>>
OneCaller == <<t0>>

SomeOperands == {[off |-> 0, base |-> "zero"], [off |-> 4, base |-> "base"]}

(***************************************************************************)
(* States that differ in dead words only are taken as one.  Words at $sp   *)
(* and below are written before they are read again, and so is a register  *)
(* without a variable, of which nothing asks which node it belongs to.     *)
(***************************************************************************)
LiveStack == SubSeq([w \in 1 .. StackTop |-> mem[w]], sp + 1, StackTop)
LiveRegs == [r \in Reg |-> IF m.reg[r].var = NoVar
                           THEN [m.reg[r] EXCEPT !.content = 0, !.node = 0] ELSE m.reg[r]]
LiveState ==
    CASE unit = "frames" -> <<unit, LiveStack, sp, fp, saved, pc>>
      [] unit = "joins" -> <<unit, LiveRegs, m.mem, env, live, open>>
      [] OTHER -> <<unit, asmVars>>

SameNames == Permutations(Names)
=============================================================================
