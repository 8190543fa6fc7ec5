------------------------------ MODULE TypeCheck ------------------------------
(***************************************************************************)
(* Type checking and constant folding (semanticAnalysis.c).  The checker   *)
(* walks an expression depth first, so the AST nodes whose parent is not   *)
(* checked yet form a stack; a step checks one more node, or the statement *)
(* the pending nodes belong to.  The program is arbitrary.  Beside what    *)
(* the checker writes, each node carries what the language says of it.     *)
(***************************************************************************)
EXTENDS Integers, Sequences, FiniteSets

CONSTANTS
    Symbols,        \* name -> [kind, elem, dim, params], the symbol table
    VarNames,       \* the names the program uses as variables
    CallNames,      \* the names the program calls; "write" is built in
    Constants,      \* the literals, each [type, value]
    BinOps, UnOps,  \* the operators the program uses
    Returns,        \* the return types of the functions being checked
    MaxStack,       \* bound: pending nodes
    MaxValue        \* bound: folded values, which stand for 32-bit integers

Comparisons == {"EQ", "GE", "LE", "NE", "GT", "LT", "AND", "OR"}

\* A name has the entry the declarations gave it.
ASSUME SymbolsAssumption ==
    \A s \in VarNames \cup CallNames : LET e == Symbols[s] IN
       e.elem \in {"INT", "FLOAT", "VOID"} /\ e.dim \in Nat /\ e.params \in Seq({"SCALAR", "ARRAY"})

ASSUME ProgramAssumption ==
    /\ MaxStack \in Nat \ {0} /\ MaxValue \in Nat
    /\ Constants \subseteq [type : {"INT", "FLOAT", "STRING"}, value : -MaxValue .. MaxValue]
    /\ BinOps \subseteq Comparisons \cup {"ADD", "SUB", "MUL", "DIV"}
    /\ UnOps \subseteq {"NEG", "NOT"}
    /\ Returns \subseteq {"INT", "FLOAT", "VOID"}

Types == {"INT", "FLOAT", "VOID", "INT_PTR", "FLOAT_PTR", "STRING", "ERROR"}

VARIABLES
    stack,      \* the checked nodes whose parent is not checked
    reported,   \* g_anyErrorOccur: some message has been printed
    crashed,    \* the compiler has died of a signal
    wrong,      \* ghost: the program breaks a rule of the language
    flaws       \* ghost: uses the language forbids and no code looks at

checkVars == <<stack, reported, crashed, wrong, flaws>>

\* type, kind and folded are dataType, nodeType and isConstEval; value is
\* constEvalValue.iValue (nobody reads fValue: sizes are integers).  rule is
\* the type the language gives, "WRONG" for none; exact the value it gives to
\* a constant integer expression.
Node == [type : Types, kind : {"const", "expr", "id", "call"},
         folded : BOOLEAN, value : -MaxValue .. MaxValue,
         rule : Types \cup {"WRONG"}, constant : BOOLEAN, exact : -MaxValue .. MaxValue]

Pointer(t) == t \in {"INT_PTR", "FLOAT_PTR"}
Number(t)  == t \in {"INT", "FLOAT"}
Truth(p)   == IF p THEN 1 ELSE 0
PointerTo(t) == IF t = "INT" THEN "INT_PTR" ELSE "FLOAT_PTR"
Top(k)  == SubSeq(stack, Len(stack) - k + 1, Len(stack))
Rest(k) == SubSeq(stack, 1, Len(stack) - k)

getBiggerType(a, b) == IF "FLOAT" \in {a, b} THEN "FLOAT" ELSE "INT"

CheckInit == stack = <<>> /\ reported = FALSE /\ crashed = FALSE /\ wrong = FALSE /\ flaws = {}

\* A node without children below it, or with the top k nodes as children.
Push(k, node) == stack' = Append(Rest(k), node)
Room == ~crashed /\ Len(stack) < MaxStack

Complain(p) == reported' = (reported \/ p)
Break(p)    == wrong' = (wrong \/ p)
Miss(what)  == flaws' = flaws \cup what
Leaf(t, kind, rule) ==
    [type |-> t, kind |-> kind, folded |-> FALSE, value |-> 0,
     rule |-> rule, constant |-> FALSE, exact |-> 0]

---------------------------------------------------------------------------
(* What the language says, independently of the checker.                   *)

RuleBinary(op, a, b) ==
    IF ~Number(a) \/ ~Number(b) THEN "WRONG"
    ELSE IF op \in Comparisons \/ "FLOAT" \notin {a, b} THEN "INT" ELSE "FLOAT"
RuleUnary(op, a) ==
    IF ~Number(a) THEN "WRONG" ELSE IF op = "NOT" THEN "INT" ELSE a

\* A use of name s with subscripts of the rules given.
RuleUse(s, subs) ==
    LET e == Symbols[s] IN
    IF e.kind # "VARIABLE" \/ (\E i \in DOMAIN subs : subs[i] # "INT")
       \/ Len(subs) > e.dim
    THEN "WRONG"
    ELSE IF Len(subs) = e.dim THEN e.elem ELSE PointerTo(e.elem)

RulePass(formal, a) == IF formal = "ARRAY" THEN Pointer(a) ELSE Number(a)
RuleCall(s, args) ==
    LET e == Symbols[s] IN
    IF /\ e.kind = "FUNCTION" /\ Len(args) = Len(e.params)
       /\ \A i \in DOMAIN args : RulePass(e.params[i], args[i])
    THEN e.elem ELSE "WRONG"

\* The quotient the language asks for, by its defining property.
Quotient(a, b) ==
    CHOOSE q \in -MaxValue .. MaxValue :
       \E rem \in -MaxValue .. MaxValue :
          /\ a = q * b + rem
          /\ rem * rem < b * b
          /\ rem * a >= 0
Exact(op, a, b) ==
    CASE op = "ADD" -> a + b [] op = "SUB" -> a - b [] op = "MUL" -> a * b
      [] op = "DIV" -> IF b = 0 THEN 0 ELSE Quotient(a, b)
      [] op = "LT" -> Truth(a < b) [] op = "GT" -> Truth(b < a)
      [] op = "LE" -> Truth(~(b < a)) [] op = "GE" -> Truth(~(a < b))
      [] op = "EQ" -> Truth(a = b) [] op = "NE" -> Truth(a # b)
      [] op = "AND" -> Truth(a # 0 /\ b # 0) [] op = "OR" -> Truth(~(a = 0 /\ b = 0))
      [] op = "NEG" -> 0 - b [] op = "NOT" -> Truth(b = 0)

---------------------------------------------------------------------------
(* Expressions.                                                            *)

\* processConstValueNode
Const ==
    /\ Room
    /\ \E c \in Constants :
         Push(0, [Leaf(c.type, "const", c.type) EXCEPT
                  !.value = c.value, !.constant = c.type # "STRING", !.exact = c.value])
    /\ UNCHANGED <<reported, crashed, wrong, flaws>>

\* Fault: a name passes for a constant.
ConstantName(n) == n.kind \in {"const", "id"} \/ (n.kind = "expr" /\ n.folded)
\* The operands evaluateExprValue may fold.
Constant(n) == n.kind = "const" \/ (n.kind = "expr" /\ n.folded)

TypeNames(s) == Symbols[s].kind = "TYPE"
Undeclared(s) == Symbols[s].kind = "NONE"
Function(s) == Symbols[s].kind = "FUNCTION"

\* Subscripts: the messages the loop over the dimensions prints, and the
\* types it lets pass although no element has such an index.
FloatSubscript(subs) == \E i \in DOMAIN subs : subs[i].type = "FLOAT"
BadSubscript(subs) == \E i \in DOMAIN subs : subs[i].type \in {"FLOAT", "ERROR"}
OddSubscripts(subs) ==
    IF \E i \in DOMAIN subs : subs[i].type \notin {"INT", "FLOAT", "ERROR"}
    THEN {"subscript"} ELSE {}
Rules(nodes) == [i \in DOMAIN nodes |-> nodes[i].rule]

\* Fault: an element of a partly subscripted array passes for the element.
RValueAnyDimension(e, k) ==
    IF k > e.dim THEN "ERROR" ELSE e.elem
\* Fault: part of an array keeps the type Allocate gave its node.
RValueUnset(e, k) ==
    IF k = e.dim THEN e.elem ELSE IF k > e.dim THEN "ERROR" ELSE "NONE"
RValueType(e, k) ==
    IF k = e.dim THEN e.elem ELSE IF k > e.dim THEN "ERROR" ELSE PointerTo(e.elem)

\* processVariableRValue with k subscripts on the stack.  The subscripts of a
\* name that is no array are not looked at, so they are not on the stack.  A
\* function is not refused: its signature is read as a type descriptor.
VariableRValue(s, k) ==
    LET e == Symbols[s]
        subs == Top(k)
        rule == RuleUse(s, Rules(subs)) IN
    /\ ~crashed /\ k <= Len(stack) /\ Len(stack) - k < MaxStack
    /\ UNCHANGED crashed
    /\ \/ /\ e.kind \in {"NONE", "TYPE"} /\ k = 0
          /\ Push(k, Leaf("ERROR", "id", "WRONG"))
          /\ Complain(TRUE) /\ Break(TRUE) /\ Miss({})
       \/ /\ Function(s) /\ k = 0
          /\ \E t \in Types : Push(k, Leaf(t, "id", "WRONG"))
          /\ Complain(FALSE) /\ Break(TRUE) /\ Miss({"function name"})
       \/ /\ e.kind = "VARIABLE" /\ (e.dim > 0 \/ k = 0)
          /\ LET t == IF BadSubscript(subs) THEN "ERROR" ELSE RValueType(e, k) IN
             /\ Push(k, Leaf(t, "id", rule))
             /\ Complain(FloatSubscript(subs) \/ (~BadSubscript(subs) /\ k > e.dim))
             /\ Break(rule = "WRONG")
             /\ Miss(OddSubscripts(subs))

\* A scalar with subscripts: NOT_ARRAY, the subscripts are not processed.
SubscriptedScalar(s) ==
    /\ Room /\ Symbols[s].kind = "VARIABLE" /\ Symbols[s].dim = 0
    /\ Push(0, Leaf("ERROR", "id", "WRONG"))
    /\ Complain(TRUE) /\ Break(TRUE) /\ UNCHANGED <<crashed, flaws>>

Divided(a, b) ==
    LET q == (IF a < 0 THEN -a ELSE a) \div (IF b < 0 THEN -b ELSE b) IN
    IF (a < 0) = (b < 0) THEN q ELSE -q

\* evaluateExprValue on integers; a is not used by the unary operators.
IntValue(op, a, b) ==
    CASE op = "ADD" -> a + b [] op = "SUB" -> a - b [] op = "MUL" -> a * b
      [] op = "DIV" -> IF b = 0 THEN 0 ELSE Divided(a, b)
      [] op = "LT" -> Truth(a < b) [] op = "GT" -> Truth(a > b)
      [] op = "LE" -> Truth(a <= b) [] op = "GE" -> Truth(a >= b)
      [] op = "EQ" -> Truth(a = b) [] op = "NE" -> Truth(a # b)
      [] op = "AND" -> Truth(a # 0 /\ b # 0) [] op = "OR" -> Truth(a # 0 \/ b # 0)
      [] op = "NEG" -> -b [] op = "NOT" -> Truth(b = 0)

\* evaluateExprValue: the folded node's type is that of the operands, also for
\* a comparison.
Evaluate(op, l, r) ==
    IF l.type = "INT" /\ r.type = "INT"
    THEN [type |-> "INT", value |-> IntValue(op, l.value, r.value)]
    ELSE [type |-> "FLOAT", value |-> 0]

\* The node an operator makes of type t, folded when its operands are.
Folded(op, l, r, t, rule) ==
    LET fold == t # "ERROR" /\ Constant(l) /\ Constant(r)
        e == Evaluate(op, l, r) IN
    [type |-> IF fold THEN e.type ELSE t, kind |-> "expr", folded |-> fold,
     value |-> IF fold THEN e.value ELSE 0,
     rule |-> rule, constant |-> l.constant /\ r.constant,
     exact |-> IF l.constant /\ r.constant /\ l.rule = "INT" /\ r.rule = "INT"
               THEN Exact(op, l.exact, r.exact) ELSE 0]

\* Folding divides in the compiler itself.
DiesOn(op, l, r) ==
    op = "DIV" /\ Constant(l) /\ Constant(r) /\ l.type = "INT" /\ r.type = "INT" /\ r.value = 0

Finish(n, node, rule, complaint, missed) ==
    /\ node.value \in -MaxValue .. MaxValue /\ node.exact \in -MaxValue .. MaxValue
    /\ Push(n, node)
    /\ Complain(complaint) /\ Break(rule = "WRONG")
    /\ Miss(missed \cup IF ~wrong /\ rule # node.type /\ node.folded THEN {"folded type"} ELSE {})

\* Fault: only the left operand is looked at.
NotNumbersLeft(l, r) == Pointer(l.type) \/ "STRING" \in {l.type, r.type}
\* The operands processExprNode prints a message about.
NotNumbers(l, r) == Pointer(l.type) \/ Pointer(r.type) \/ "STRING" \in {l.type, r.type}

\* processExprNode, BINARY_OPERATION.
Binary(op) ==
    LET l == Top(2)[1]  r == Top(2)[2]
        rule == RuleBinary(op, l.rule, r.rule)
        err == NotNumbers(l, r) \/ {l.type, r.type} \cap {"ERROR", "VOID"} # {}
        t == IF err THEN "ERROR"
             ELSE IF op \in Comparisons THEN "INT" ELSE getBiggerType(l.type, r.type) IN
    /\ ~crashed /\ Len(stack) >= 2
    /\ crashed' = DiesOn(op, l, r)
    /\ Finish(2, Folded(op, l, r, t, rule), rule, NotNumbers(l, r),
              IF "VOID" \in {l.type, r.type} THEN {"void"} ELSE {})

\* processExprNode, UNARY_OPERATION: void passes through a minus.
Unary(op) ==
    LET r == Top(1)[1]
        rule == RuleUnary(op, r.rule)
        err == NotNumbers(r, r) \/ r.type = "ERROR"
        t == IF err THEN "ERROR" ELSE IF op = "NOT" THEN "INT" ELSE r.type IN
    /\ ~crashed /\ Len(stack) >= 1
    /\ crashed' = FALSE
    /\ Finish(1, Folded(op, r, r, t, rule), rule, NotNumbers(r, r),
              IF r.type = "VOID" THEN {"void"} ELSE {})

---------------------------------------------------------------------------
(* Calls.                                                                  *)

\* Fault: an array goes where a number is expected.
PassingAnyArray(formal, a) == IF formal = "ARRAY" THEN Pointer(a.type) ELSE a.type # "STRING"
\* checkParameterPassing accepts a (which has no error yet).
Passing(formal, a) ==
    IF formal = "ARRAY" THEN Pointer(a.type)
    ELSE ~Pointer(a.type) /\ a.type # "STRING"

\* PASS_SCALAR_TO_ARRAY prints the identifierName of a node that need not be an
\* identifier: of an operator it is the two words kind and isConstEval, of a
\* call one word and whatever malloc left.
MayCrash(formal, a) ==
    /\ formal = "ARRAY" /\ ~Pointer(a.type) /\ a.type # "ERROR"
    /\ a.kind \in {"expr", "call"}

\* checkFunctionCall with k arguments on the stack.
Call(s, k) ==
    LET e == Symbols[s]
        args == Top(k)
        rule == RuleCall(s, Rules(args))
        seen == {i \in DOMAIN args : i <= Len(e.params)}
        refused == {i \in seen : args[i].type # "ERROR" /\ ~Passing(e.params[i], args[i])}
        bad == refused # {} \/ \E i \in seen : args[i].type = "ERROR" IN
    /\ ~crashed /\ Function(s) /\ k <= Len(stack) /\ Len(stack) - k < MaxStack
    /\ \/ crashed' = FALSE
       \/ (\E i \in seen : MayCrash(e.params[i], args[i])) /\ crashed' = TRUE
    \* The error of an argument does not survive when the number is right.
    /\ Push(k, Leaf(IF k # Len(e.params) THEN "ERROR" ELSE e.elem, "call", rule))
    /\ Complain(refused # {} \/ k # Len(e.params))
    /\ Break(rule = "WRONG")
    /\ Miss(IF \E i \in seen : args[i].type = "VOID" THEN {"void"} ELSE {})

\* A call of what is no function: its arguments are not processed.
CallOther(s) ==
    /\ Room /\ ~Function(s)
    /\ Push(0, Leaf("ERROR", "call", "WRONG"))
    /\ Complain(TRUE) /\ Break(TRUE) /\ UNCHANGED <<crashed, flaws>>

\* checkWriteFunction: one number or string; its type is void, an argument's
\* error is forgotten when there is exactly one.
Write(k) ==
    LET args == Top(k)
        odd == {i \in DOMAIN args : args[i].type \notin {"INT", "FLOAT", "STRING", "ERROR"}}
        right == k = 1 /\ \A i \in DOMAIN args : Number(args[i].rule) \/ args[i].rule = "STRING" IN
    /\ ~crashed /\ k <= Len(stack) /\ Len(stack) - k < MaxStack
    /\ Push(k, Leaf(IF k = 1 THEN "VOID" ELSE "ERROR", "call", IF right THEN "VOID" ELSE "WRONG"))
    /\ Complain(odd # {} \/ k # 1) /\ Break(~right)
    /\ UNCHANGED <<crashed, flaws>>

---------------------------------------------------------------------------
(* Statements: they end the expression, and take the whole stack.          *)

\* Fault: a left side may have fewer subscripts than dimensions.
LValueAnyDimension(e, k) == k <= e.dim
LValueDimension(e, k) == k = e.dim

\* processVariableLValue prints a message about name s with these subscripts.
LValueRefused(s, subs) ==
    \/ Symbols[s].kind # "VARIABLE"
    \/ ~LValueDimension(Symbols[s], Len(subs))
    \/ FloatSubscript(subs)

\* checkAssignmentStmt: k subscripts of the left side below the right side.
\* The subscripts of a name that is no variable are not processed.
Assign(s, k) ==
    LET e == Symbols[s]
        subs == SubSeq(stack, 1, k)
        r == Top(1)[1]
        left == /\ e.kind = "VARIABLE" /\ k = e.dim
                /\ \A i \in DOMAIN subs : subs[i].rule = "INT" IN
    /\ ~crashed /\ Len(stack) = k + 1 /\ (e.kind = "VARIABLE" \/ k = 0)
    /\ stack' = <<>>
    /\ Complain(LValueRefused(s, subs) \/ Pointer(r.type) \/ r.type = "STRING")
    /\ Break(~left \/ ~Number(r.rule))
    /\ Miss(OddSubscripts(subs) \cup IF r.type = "VOID" THEN {"void"} ELSE {})
    /\ UNCHANGED crashed

\* checkInit, on a scalar declared with the value on the stack.
Initialise ==
    LET r == Top(1)[1] IN
    /\ ~crashed /\ Len(stack) = 1 /\ stack' = <<>>
    /\ Complain(Pointer(r.type) \/ r.type = "STRING")
    /\ Break(~Number(r.rule))
    /\ Miss(IF r.type = "VOID" THEN {"void"} ELSE {})
    /\ UNCHANGED crashed

\* The condition of if, while and for: checkAssignOrExpr looks at nothing else.
Condition ==
    LET r == Top(1)[1] IN
    /\ ~crashed /\ Len(stack) = 1 /\ stack' = <<>>
    /\ Complain(FALSE) /\ Break(~Number(r.rule))
    /\ Miss(IF ~Number(r.type) /\ r.type # "ERROR" THEN {"condition"} ELSE {})
    /\ UNCHANGED crashed

\* The types checkReturnStmt lets through: int and float convert.
ReturnTypes(returnType, t) ==
    returnType = t \/ (Number(returnType) /\ Number(t))

\* checkReturnStmt in a function that returns rt, with a value or without.
Return(rt) ==
    /\ ~crashed /\ Len(stack) <= 1 /\ stack' = <<>>
    /\ IF stack = <<>> THEN Complain(rt # "VOID") /\ Break(rt # "VOID")
       ELSE LET r == Top(1)[1] IN
            /\ Complain(~ReturnTypes(rt, r.type))
            /\ Break(~(rt = r.rule \/ (Number(rt) /\ Number(r.rule))))
    /\ UNCHANGED <<crashed, flaws>>

\* A call as a statement: its value is dropped.
DropCall ==
    /\ ~crashed /\ Len(stack) = 1 /\ stack[1].kind = "call" /\ stack' = <<>>
    /\ UNCHANGED <<reported, crashed, wrong, flaws>>

CheckNext ==
    \/ Const
    \/ \E s \in VarNames : \/ \E k \in 0 .. 2 : VariableRValue(s, k) \/ Assign(s, k)
                           \/ SubscriptedScalar(s)
    \/ \E op \in BinOps : Binary(op)
    \/ \E op \in UnOps : Unary(op)
    \/ \E s \in CallNames : (\E k \in 0 .. 2 : Call(s, k)) \/ CallOther(s)
    \/ \E k \in 0 .. 2 : Write(k)
    \/ Initialise \/ Condition \/ DropCall
    \/ \E rt \in Returns : Return(rt)

---------------------------------------------------------------------------

NodesOK ==
    /\ stack \in Seq(Node) /\ Len(stack) <= MaxStack
    /\ reported \in BOOLEAN /\ crashed \in BOOLEAN /\ wrong \in BOOLEAN
    /\ flaws \subseteq {"void", "function name", "subscript", "condition", "folded type"}

\* A program gets a message exactly when it breaks a rule, however its
\* expressions are nested, as long as it stays off the uses nobody checks.
MessagesExact == flaws = {} => (reported <=> wrong)

\* In a program without messages every node has the type the language gives
\* it: the register class the code generator then asks for is right.
TypesFollowRules ==
    ~reported /\ flaws = {} => \A i \in DOMAIN stack : stack[i].type = stack[i].rule

\* An operator is folded exactly when all leaves below it are literals, and an
\* integer folds to its value: the sizes of arrays are what the source says.
FoldedExactly ==
    ~reported /\ ~crashed /\ flaws = {} =>
       \A i \in DOMAIN stack : LET n == stack[i] IN
          /\ n.kind = "expr" => (n.folded <=> n.constant)
          /\ n.constant /\ n.type = "INT" => n.value = n.exact
=============================================================================
