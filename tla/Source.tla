------------------------------- MODULE Source -------------------------------
(***************************************************************************)
(* What a straight-line C-- program means.  The program is seen as the     *)
(* order in which its expressions are evaluated: a stack of the operands   *)
(* whose parent has not been evaluated yet, the value of every variable,   *)
(* and the value the last step let out (the argument of write, the value   *)
(* of return, the condition of a branch).  ExprGen is what the       *)
(* compiler makes of the same program; this module is what it promises.    *)
(***************************************************************************)
EXTENDS Naturals, Sequences

CONSTANTS
    Vars,           \* scalar variables of the program
    Globals,        \* those declared at nesting level 0
    Val,            \* values of a 32-bit word
    BinOp(_, _),    \* one binary operator of the language
    NegOp(_)        \* one unary operator of the language

VARIABLES
    env,            \* the value of every variable
    operands,       \* values of the evaluated, not yet consumed operands
    printed         \* <<the value the last step let out>>, or <<>>

vars == <<env, operands, printed>>

\* Replace the top k entries of the stack s by the single entry x.
Reduce(s, k, x) ==
    [i \in 1 .. Len(s) - k + 1 |-> IF i = Len(s) - k + 1 THEN x ELSE s[i]]

Top(s) == s[Len(s)]

Init ==
    /\ env \in [Vars -> Val]
    /\ operands = <<>>
    /\ printed = <<>>

-----------------------------------------------------------------------------
\* A constant, or a value read() returns.
PushValue(c) ==
    /\ operands' = Reduce(operands, 0, c)
    /\ printed' = <<>>
    /\ UNCHANGED env

PushVar(v) ==
    /\ operands' = Reduce(operands, 0, env[v])
    /\ printed' = <<>>
    /\ UNCHANGED env

\* f() returns c and leaves the globals as g says.
PushCall(c, g) ==
    /\ operands' = Reduce(operands, 0, c)
    /\ env' = [v \in Vars |-> IF v \in Globals THEN g[v] ELSE env[v]]
    /\ printed' = <<>>

Binary ==
    /\ Len(operands) >= 2
    /\ operands' = Reduce(operands, 2,
                          BinOp(operands[Len(operands) - 1], Top(operands)))
    /\ printed' = <<>>
    /\ UNCHANGED env

Unary ==
    /\ Len(operands) >= 1
    /\ operands' = Reduce(operands, 1, NegOp(Top(operands)))
    /\ printed' = <<>>
    /\ UNCHANGED env

\* v = expression;  or the declaration  int v = expression;
Assign(v) ==
    /\ Len(operands) = 1
    /\ env' = [env EXCEPT ![v] = operands[1]]
    /\ operands' = <<>>
    /\ printed' = <<>>

\* write(expression), return expression, or a condition that is tested.
Emit ==
    /\ Len(operands) = 1
    /\ printed' = operands
    /\ operands' = <<>>
    /\ UNCHANGED env

\* A call used as a statement: its value is dropped.
Discard ==
    /\ Len(operands) = 1
    /\ operands' = <<>>
    /\ printed' = <<>>
    /\ UNCHANGED env

Next ==
    \/ \E c \in Val : PushValue(c)
    \/ \E v \in Vars : PushVar(v)
    \/ \E c \in Val, g \in [Globals -> Val] : PushCall(c, g)
    \/ Binary
    \/ Unary
    \/ \E v \in Vars : Assign(v)
    \/ Emit
    \/ Discard

Spec == Init /\ [][Next]_vars
=============================================================================
