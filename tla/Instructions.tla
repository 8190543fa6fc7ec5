---------------------------- MODULE Instructions ----------------------------
(***************************************************************************)
(* The parts of spim that work on single instructions, and the memory      *)
(* these load from and store to, side by side: a behaviour exercises one   *)
(* of them, the others keep one first state.                               *)
(***************************************************************************)
EXTENDS Alu, Unaligned, FpuFlags, InstCode, SpimMemory

VARIABLE unit           \* the part exercised

vars == <<aluVars, unalignedVars, flagVars, codeVars, memVars, unit>>

NoAlu ==
    /\ rs = 0 /\ rt = 0 /\ hi = 0 /\ lo = 0 /\ rd = 0
    /\ trap = FALSE /\ op = "none" /\ old = <<0, 0>>
NoBytes == big = TRUE /\ mem = Contents /\ reg = Register /\ at = 0 /\ halves = {}
NoCode == made = Invalid /\ code = Zero /\ read = Invalid /\ coding = "made"

Init ==
    /\ FlagInit /\ MemInit
    /\ \/ unit = "alu" /\ AluInit /\ NoBytes /\ NoCode
       \/ unit = "unaligned" /\ NoAlu /\ UnalignedInit /\ NoCode
       \/ unit = "flags" /\ NoAlu /\ NoBytes /\ NoCode
       \/ unit = "code" /\ NoAlu /\ NoBytes /\ CodeInit
       \/ unit = "memory" /\ NoAlu /\ NoBytes /\ NoCode

OneInstruction ==
    \/ unit = "alu" /\ AluNext /\ UNCHANGED <<unalignedVars, flagVars, codeVars>>
    \/ unit = "unaligned" /\ UnalignedNext /\ UNCHANGED <<aluVars, flagVars, codeVars>>
    \/ unit = "flags" /\ FlagNext /\ UNCHANGED <<aluVars, unalignedVars, codeVars>>
    \/ unit = "code" /\ CodeNext /\ UNCHANGED <<aluVars, unalignedVars, flagVars>>
Access == unit = "memory" /\ MemNext /\ UNCHANGED <<aluVars, unalignedVars, flagVars, codeVars>>
Next ==
    /\ UNCHANGED unit
    /\ Access \/ (OneInstruction /\ UNCHANGED memVars)

Spec == Init /\ [][Next]_vars
=============================================================================
