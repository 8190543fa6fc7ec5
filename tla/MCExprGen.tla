------------------------------ MODULE MCExprGen ------------------------------
(***************************************************************************)
(* Instances of ExprGen for TLC: one-bit words, an operator that is not    *)
(* commutative (the instruction sgt) and the logical negation.             *)
(***************************************************************************)
EXTENDS ExprGen, TLC

CONSTANTS g, x, y, z, s0, s1, s2, t0, t1, t2, t3

MCVal == 0 .. 1
MCBinOp(a, b) == IF a > b THEN 1 ELSE 0
MCNegOp(a) == 1 - a

Pool2Callee == <<s0, s1>>
Pool3Callee == <<s0, s1, s2>>
Pool2Caller == <<t0, t1>>
Pool3Caller == <<t0, t1, t2>>
Pool4Caller == <<t0, t1, t2, t3>>

\* A register that neither caches a variable nor belongs to a pending operand has
\* a content that no code reads before it writes it.
Unused == {r \in Reg : /\ m.reg[r].var = NoVar
                       /\ \A i \in 1 .. depth : stack[i].var = NoVar => stack[i].reg # r}
LiveView == <<meaning, [r \in Unused |-> [m.reg[r] EXCEPT !.content = 0]] @@ m.reg,
              m.mem, stack, fresh, shown>>
=============================================================================
