---------------------------- MODULE ControlFlow -----------------------------
(***************************************************************************)
(* The rest of the control flow, for which the compiler is wrong: while    *)
(* and the logical operators, beside the statements of Conditionals.       *)
(***************************************************************************)
EXTENDS Conditionals, Bitwise

Result == MaxDepth + 1

\* Register::operand: the instructions are and and or, of all bits.
Value(op, a, b) == IF op = "and" THEN a & b ELSE a | b

\* genExprNode of v && w or v || w, as the condition of an if.  Both operands are
\* locked, so looking them up again finds their registers.
Logical(op, v, w) ==
    /\ Inner
    /\ \E left \in VarReg(m, v, TRUE) :
       LET one == Lock(Executed(live, m, left.m), left.r, TRUE)
           short == NonZero(one, left.r) <=> op = "or"
           on == live /\ ~short
       IN \E right \in VarReg(one, w, TRUE) :
          LET two == Lock(Executed(on, one, right.m), right.r, TRUE) IN
          \E res \in NewTemp(two, CallerPool, Result) :
             LET both == Operand(res.m, res.r, Value(op, two.reg[left.r].content,
                                                         two.reg[right.r].content))
                 full == Executed(on, two, both)
                 cut == Executed(live /\ short, full, LoadReg(full, res.r, left.r))
             IN /\ m' = Lock(Lock(cut, left.r, FALSE), right.r, FALSE)
                /\ live' = (live /\ NonZero(cut, res.r))
    /\ open' = Entered("if", v, <<>>) /\ UNCHANGED env

\* genWhileStmt: again is the code of the condition, which is run again.
While(v) ==
    /\ Inner
    /\ \E a \in VarReg(m, v, TRUE) :
          LET loads == Fitting(m, v) = {} IN
          /\ m' = Executed(live, m, a.m) /\ live' = (live /\ NonZero(m', a.r))
          /\ open' = Entered("while", v,
                [reg |-> a.r, loads |-> loads,
                 stores |-> IF loads /\ MustStore(m, a.r) THEN m.reg[a.r].var ELSE NoVar])
    /\ UNCHANGED env

Again(mm) ==
    LET c == Innermost.again
        s == IF c.stores = NoVar THEN mm
             ELSE [mm EXCEPT !.mem[c.stores] = mm.reg[c.reg].content]
    IN IF c.loads THEN [s EXCEPT !.reg[c.reg].content = s.mem[Innermost.var]] ELSE s

EndWhile ==
    /\ open # <<>> /\ Innermost.kind = "while"
    /\ \E p \in Parts(m) :
          LET back == Executed(live, m, p) IN
          /\ live => ~NonZero(Again(back), Innermost.again.reg)
          /\ m' = IF live THEN Again(back) ELSE back
    /\ live' = Innermost.before /\ open' = Front(open) /\ UNCHANGED env

WholeNext ==
    \/ CondNext
    \/ \E op \in {"and", "or"}, v, w \in Vars : Logical(op, v, w)
    \/ \E v \in Vars : While(v)
    \/ EndWhile
=============================================================================
