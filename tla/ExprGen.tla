------------------------------- MODULE ExprGen -------------------------------
(***************************************************************************)
(* The code generator for straight-line code (codeGen.c over Register.cpp) *)
(* and, in the same step, the code it emits running on the machine.  The   *)
(* program is arbitrary: a step evaluates the next leaf or operator of an  *)
(* expression or ends a statement, and Source says what the program means. *)
(* The generator walks an expression depth first, so the AST nodes whose   *)
(* parent is not finished form a stack.                                    *)
(***************************************************************************)
EXTENDS Registers

CONSTANTS
    Globals,        \* variables another function may change
    BinOp(_, _),    \* what one binary instruction computes
    NegOp(_),       \* what one unary instruction computes
    Forms           \* which forms of expression the program uses

ASSUME FormsAssumption ==
    Forms \subseteq {"const", "read", "call", "nestedCall", "init", "initVar",
                     "unary", "unaryTemp", "flush", "block"}

ASSUME GlobalsAssumption == Globals \subseteq Vars

ASSUME OperatorAssumption ==
    /\ \A a, b \in Val : BinOp(a, b) \in Val
    /\ \A a \in Val : NegOp(a) \in Val

VARIABLES
    env, operands, printed,     \* the meaning of the program: see Source
    m,              \* the registers and the memory
    stack,          \* the AST nodes of operands, each [var, reg]
    fresh,          \* the top node has a register its parent has not locked
    shown           \* what the emitted code let out, to compare with printed

Src == INSTANCE Source

meaning == <<env, operands, printed>>
vars    == <<env, operands, printed, m, stack, fresh, shown>>

\* var is the variable of an IDENTIFIER_NODE and NoVar for every other node;
\* reg is AST_NODE::reg.  Node i of the stack is named i in m.
Node == [var : Vars \cup {NoVar}, reg : Reg]

depth == Len(stack)

\* Fault: the node's own pointer is taken without asking whether it still fits.
UseRecorded(mm, i) == {[m |-> mm, r |-> stack[i].reg]}

\* AST_NODE::getTempReg on pending node i: its register if it still fits.
Use(mm, i) ==
    IF stack[i].var # NoVar THEN VarReg(mm, stack[i].var, TRUE)
    ELSE IF mm.reg[stack[i].reg].var = NoVar /\ mm.reg[stack[i].reg].node = i
    THEN {[m |-> mm, r |-> stack[i].reg]}
    ELSE NewTemp(mm, CalleePool, i)

\* A node has just been generated into register r.
Push(v, r) == stack' = Src!Reduce(stack, 0, [var |-> v, reg |-> r]) /\ fresh' = TRUE

\* The statement is complete: its AST nodes are not looked at again.
Pop == stack' = <<>> /\ fresh' = FALSE

\* The next leaf may be evaluated: every pending node is a left operand.
AtLeaf == ~fresh /\ depth < MaxDepth

\* Only this node is left and its parent takes the value without a lock.
AtEnd == fresh /\ depth = 1

\* The operator node over the top operands, and the register that holds its
\* value when it becomes pending node i itself.
Operator == MaxDepth + 1

Becomes(mm, r, i) == [mm EXCEPT !.reg[r].node = i]

-----------------------------------------------------------------------------
Init ==
    /\ Src!Init
    /\ m \in [reg : [Reg -> {s \in RegState : /\ ~s.dirty /\ ~s.modified
                                              /\ ~s.locked /\ s.var = NoVar
                                              /\ s.node = 0}],
              mem : {env}]
    /\ stack = <<>>
    /\ fresh = FALSE
    /\ shown = <<>>

\* genConStmt
PushConst(c) ==
    /\ "const" \in Forms
    /\ AtLeaf
    /\ Src!PushValue(c)
    /\ \E a \in NewTemp(m, CallerPool, depth + 1) :
        /\ m' = LoadValue(a.m, a.r, c)
        /\ Push(NoVar, a.r)
    /\ shown' = <<>>

\* genExprRelatedNode on an identifier
PushVar(v) ==
    /\ AtLeaf
    /\ Src!PushVar(v)
    /\ \E a \in VarReg(m, v, TRUE) :
        /\ m' = a.m
        /\ Push(v, a.r)
    /\ shown' = <<>>

\* genReadFunction: the user types c
PushRead(c) ==
    /\ "read" \in Forms
    /\ AtLeaf
    /\ Src!PushValue(c)
    /\ \E a \in NewTemp(m, CalleePool, depth + 1) :
        /\ m' = Operand(a.m, a.r, c)
        /\ Push(NoVar, a.r)
    /\ shown' = <<>>

\* genFunctionCall, a function without parameters: it returns c, leaves the
\* globals as g says and junk in the caller-saved registers.
PushCall(c, g, junk) ==
    /\ "call" \in Forms
    /\ AtLeaf
    /\ depth > 0 => "nestedCall" \in Forms
    /\ Src!PushCall(c, g)
    /\ LET returned == [ClearRegRecord(m, junk) EXCEPT
              !.mem = [v \in Vars |-> IF v \in Globals THEN g[v] ELSE m.mem[v]]]
       IN  \E a \in NewTemp(returned, CalleePool, depth + 1) :
            /\ m' = Operand(a.m, a.r, c)
            /\ Push(NoVar, a.r)
    /\ shown' = <<>>

\* genExprNode and genAssignStmt lock the operand they have just generated.
Hold ==
    /\ fresh
    /\ \E a \in Use(m, depth) :
        /\ m' = Lock(a.m, a.r, TRUE)
        /\ stack' = [stack EXCEPT ![depth].reg = a.r]
    /\ fresh' = FALSE
    /\ UNCHANGED <<meaning, shown>>

\* genExprNode, BINARY_OPERATION, once both operands are locked
Binary ==
    /\ ~fresh
    /\ depth >= 2
    /\ Src!Binary
    /\ \E left \in Use(m, depth - 1) :
       \E right \in Use(left.m, depth) :
       \E res \in NewTemp(right.m, CallerPool, Operator) :
        /\ LET done == Operand(res.m, res.r, BinOp(res.m.reg[left.r].content,
                                                   res.m.reg[right.r].content))
           IN  m' = Becomes(Lock(Lock(done, left.r, FALSE), right.r, FALSE),
                            res.r, depth - 1)
        /\ stack' = Src!Reduce(stack, 2, [var |-> NoVar, reg |-> res.r])
    /\ fresh' = TRUE
    /\ shown' = <<>>

\* The pending operand has no lock, and the next register comes from its pool.
Exposed(pool) == Src!Top(stack).reg \in Range(pool)

\* genExprNode, UNARY_OPERATION: the result register is taken before the
\* operand is looked up again, and the operand is not locked.
Unary ==
    /\ "unary" \in Forms
    /\ fresh
    /\ Exposed(CallerPool) => "unaryTemp" \in Forms
    /\ Src!Unary
    /\ \E res \in NewTemp(m, CallerPool, Operator) :
       \E from \in Use(res.m, depth) :
        /\ m' = Becomes(Operand(from.m, res.r, NegOp(from.m.reg[from.r].content)),
                        res.r, depth)
        /\ stack' = Src!Reduce(stack, 1, [var |-> NoVar, reg |-> res.r])
    /\ fresh' = TRUE
    /\ shown' = <<>>

\* genAssignStmt
Assign(v) ==
    /\ ~fresh
    /\ depth = 1
    /\ Src!Assign(v)
    /\ \E right \in Use(m, 1) :
       \E left \in VarReg(right.m, v, FALSE) :
        m' = Lock(Save(LoadReg(left.m, left.r, right.r), left.r), right.r, FALSE)
    /\ Pop
    /\ shown' = <<>>

\* genVariable, a local with an initialiser.  Its stack slot is new: no
\* register can cache it yet.
DeclareInit(v) ==
    /\ "init" \in Forms
    /\ AtEnd
    /\ v \notin Globals
    /\ Fitting(m, v) = {}
    /\ Exposed(CalleePool) => "initVar" \in Forms
    /\ Src!Assign(v)
    /\ \E slot \in VarReg(m, v, FALSE) :
       \E from \in Use(slot.m, 1) :
        m' = LoadReg(from.m, slot.r, from.r)
    /\ Pop
    /\ shown' = <<>>

\* genWriteFunction, genReturnStmt and the branch of a condition: the value
\* is read out of its register at once.
Emit ==
    /\ AtEnd
    /\ Src!Emit
    /\ \E a \in Use(m, 1) :
        /\ m' = a.m
        /\ shown' = <<a.m.reg[a.r].content>>
    /\ Pop

\* genStmtNode, FUNCTION_CALL_STMT: nobody asks for the returned value.
Discard ==
    /\ AtEnd
    /\ Src!Discard
    /\ Pop
    /\ shown' = <<>>
    /\ UNCHANGED m

\* genForStmt, between its parts: no expression is pending.
Flush ==
    /\ "flush" \in Forms
    /\ depth = 0
    /\ m' = SaveAndClear(m)
    /\ UNCHANGED <<meaning, stack, fresh, shown>>

\* genGeneralNode, the end of a list of statements or declarations: the first of
\* them, and with it the list, takes a register, which nobody will ask for.
EndList ==
    /\ "block" \in Forms
    /\ depth = 0
    /\ \E a \in NewTemp(m, CalleePool, 0) : m' = a.m
    /\ UNCHANGED <<meaning, stack, fresh, shown>>

Next ==
    \/ \E c \in Val : PushConst(c)
    \/ \E v \in Vars : PushVar(v)
    \/ \E c \in Val : PushRead(c)
    \/ \E c, junk \in Val, g \in [Globals -> Val] : PushCall(c, g, junk)
    \/ Hold
    \/ Binary
    \/ Unary
    \/ \E v \in Vars : Assign(v)
    \/ \E v \in Vars : DeclareInit(v)
    \/ Emit
    \/ Discard
    \/ Flush
    \/ EndList

Spec == Init /\ [][Next]_vars
-----------------------------------------------------------------------------
(* Properties *)

\* The value the emitted code finds when it next needs variable v.
View(v) ==
    IF Fitting(m, v) # {} THEN m.reg[CHOOSE r \in Fitting(m, v) : TRUE].content
    ELSE m.mem[v]

Fits(i, r) ==
    IF stack[i].var # NoVar THEN m.reg[r].var = stack[i].var
    ELSE r = stack[i].reg /\ m.reg[r].var = NoVar /\ m.reg[r].node = i

\* The value the emitted code finds in pending operand i.
Found(i) ==
    IF stack[i].var # NoVar THEN View(stack[i].var)
    ELSE m.reg[stack[i].reg].content

\* Every variable keeps its domain, and the two flags of a register agree: one
\* whose value memory lacks never looks unused, for findVacant takes a register
\* that is not dirty before it asks anything else.
TypeOK ==
    /\ m \in Machine
    /\ \A r \in Reg : m.reg[r].modified => m.reg[r].dirty
    /\ stack \in Seq(Node)
    /\ depth \in 0 .. MaxDepth
    /\ fresh \in BOOLEAN
    /\ env \in [Vars -> Val]
    /\ operands \in Seq(Val) /\ Len(operands) = depth

\* Caching variables in registers is invisible: whatever mix of loads, evictions
\* and stores the generator chose, a use of a variable finds its C-- value.
Coherent == \A v \in Vars : View(v) = env[v]

\* A value generated for a parent is still in its register, intact, when the
\* parent comes to use it, however much code was generated in between.
OperandsIntact ==
    \A i \in 1 .. depth :
        /\ stack[i].var = NoVar => Fits(i, stack[i].reg)
        /\ Found(i) = operands[i]

\* The program lets out what C-- says: write, return and conditions.
OutputRight == shown = printed

\* getFit stops at the first register: a variable must not be cached twice.
UniqueCache ==
    \A r, s \in Reg : m.reg[r].var # NoVar /\ m.reg[r].var = m.reg[s].var => r = s

\* A lock belongs to an operand that waits for its parent: none is left behind
\* on a register that nobody will ever unlock.
LocksAreHeld ==
    \A r \in Reg : m.reg[r].locked =>
        \E i \in 1 .. depth : Fits(i, r) /\ ~(fresh /\ i = depth)

\* "register full, save existing register and return random index": findVacant
\* finds a register to return, it never spins on a pool that is all locked.
RegisterAvailable ==
    /\ depth < MaxDepth \/ depth = 1 => \E r \in Callee : ~m.reg[r].locked
    /\ \E r \in Caller : ~m.reg[r].locked

\* The emitted code, seen through its registers and memory, is a run of the
\* C-- program: the generator implements Source.
Compiled == INSTANCE Source WITH
    env      <- [v \in Vars |-> View(v)],
    operands <- [i \in 1 .. depth |-> Found(i)],
    printed  <- shown

ImplementsSource == Compiled!Spec
=============================================================================
