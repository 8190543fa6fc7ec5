-------------------------------- MODULE Mips --------------------------------
(***************************************************************************)
(* The flow of control a MIPS processor promises: the next instruction is  *)
(* the following one or the target of a jump, behind one more instruction  *)
(* when branches are delayed and the branch does not nullify it; an        *)
(* exception or interrupt enters the handler and keeps the place to return *)
(* to.  A user may stop it between instructions and start it again, or     *)
(* start it somewhere else.                                                *)
(***************************************************************************)
EXTENDS Integers

CONSTANTS Text,         \* the addresses of instructions
          Vector,       \* where the exception handler is
          Nowhere       \* epc while no exception is being handled

VARIABLES
    delayed,    \* branches are delayed
    pc, npc,    \* the next instruction, and the one to follow it
    slot,       \* the next instruction is in the delay slot of a jump
    exl, epc,   \* an exception is being handled, and where it came from
    stopped     \* no instruction is executed

mipsVars == <<delayed, pc, npc, slot, exl, epc, stopped>>

Go(a) == pc' = a /\ npc' = a + 1 /\ ~slot'
Goto(a) == IF delayed THEN pc' = npc /\ npc' = a /\ slot' ELSE Go(a)
Running == ~stopped /\ UNCHANGED delayed

MipsInit == slot = FALSE /\ exl = FALSE /\ stopped = TRUE /\ epc = Nowhere /\ npc = pc + 1

Sequential == Running /\ Go(npc) /\ UNCHANGED <<exl, epc>>
Nullify == Running /\ delayed /\ ~slot /\ Go(npc + 1) /\ UNCHANGED <<exl, epc>>
Jump == Running /\ (\E t \in Text : Goto(t)) /\ UNCHANGED <<exl, epc>>

\* A fault of the next instruction, or an interrupt before it.
Exception ==
    /\ Running /\ Go(Vector) /\ exl'
    /\ epc' = IF exl THEN epc ELSE IF slot THEN pc - 1 ELSE pc

Return == Running /\ exl /\ Goto(epc) /\ ~exl' /\ epc' = Nowhere

Stop  == Running /\ stopped' /\ UNCHANGED <<pc, npc, slot, exl, epc>>
Start == /\ stopped /\ ~stopped' /\ ~slot /\ UNCHANGED <<delayed, exl, epc>>
         /\ UNCHANGED <<pc, npc, slot>> \/ Go(pc')
Reset == stopped /\ stopped' /\ Go(pc') /\ ~exl' /\ epc' = Nowhere /\ UNCHANGED delayed

MipsNext == Sequential \/ Nullify \/ Jump \/ Exception \/ Return \/ Stop \/ Start \/ Reset
MipsSpec == MipsInit /\ [][MipsNext]_mipsVars
=============================================================================
