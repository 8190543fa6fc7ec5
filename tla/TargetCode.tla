----------------------------- MODULE TargetCode -----------------------------
(***************************************************************************)
(* What the emitted text does, looked at from three sides: the frames of   *)
(* running functions, the ways through branches, and what the assembler    *)
(* makes of labels.  A behaviour follows one of them, the others keep a    *)
(* first state.                                                            *)
(***************************************************************************)
EXTENDS Frames, Conditionals, Assembler

VARIABLE unit           \* the side looked at

allVars == <<vars, condVars, asmVars, unit>>

Start == /\ InitSpec /\ CondInit /\ AsmInit /\ unit \in {"frames", "joins", "labels"}
Run ==
    /\ UNCHANGED unit
    /\ \/ unit = "frames" /\ Next /\ UNCHANGED <<condVars, asmVars>>
       \/ unit = "joins" /\ CondNext /\ UNCHANGED <<vars, asmVars>>
       \/ unit = "labels" /\ AsmNext /\ UNCHANGED <<vars, condVars>>

TargetSpec == Start /\ [][Run]_allVars
=============================================================================
