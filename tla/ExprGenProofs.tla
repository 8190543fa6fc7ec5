---------------------------- MODULE ExprGenProofs ----------------------------
(***************************************************************************)
(* Proofs about ExprGen: for any number of registers and variables, any    *)
(* depth of nesting and any word and operators, the code generator keeps   *)
(* variables and pending operands right as long as the program avoids the  *)
(* forms that the violation runs are about.                                *)
(***************************************************************************)
EXTENDS ExprGen, RegistersProofs, FiniteSetTheorems

\* No call as an operand, no declaration initialised from a callee register, no
\* unary operator on a temporary; calls do not change variables.
Safe ==
    /\ Forms \cap {"nestedCall", "initVar", "unaryTemp"} = {}
    /\ "call" \in Forms => Globals = {}

-----------------------------------------------------------------------------
(* The inductive invariant *)

\* Register r is the register of pending node i in machine mm.
FitsIn(mm, i, r) ==
    IF stack[i].var # NoVar THEN mm.reg[r].var = stack[i].var
    ELSE r = stack[i].reg /\ mm.reg[r].var = NoVar /\ mm.reg[r].node = i

\* A temporary has its register, and its value is there.
Intact(mm, i) ==
    stack[i].var = NoVar =>
        /\ FitsIn(mm, i, stack[i].reg)
        /\ mm.reg[stack[i].reg].content = operands[i]

\* The first k temporaries are intact and locked.
Guarded(mm, k) ==
    \A i \in 1 .. k :
        /\ Intact(mm, i)
        /\ stack[i].var = NoVar => mm.reg[stack[i].reg].locked

\* Every lock is on the register of one of the first k nodes.
Held(mm, k) ==
    \A r \in Reg : mm.reg[r].locked => \E i \in 1 .. k : FitsIn(mm, i, r)

\* The nodes whose parent has locked them.
waiting == IF fresh THEN depth - 1 ELSE depth

\* A pending variable has not been assigned since it was evaluated.
VarsPending ==
    \A i \in 1 .. depth : stack[i].var # NoVar =>
        stack[i].reg \in Callee /\ operands[i] = env[stack[i].var]

TopHeld ==
    ~fresh /\ depth > 0 => \E r \in Reg : FitsIn(m, depth, r) /\ m.reg[r].locked

IInv ==
    /\ TypeOK
    /\ Good(m, env, {})
    /\ Guarded(m, waiting)
    /\ Held(m, waiting)
    /\ fresh => depth > 0 /\ Intact(m, depth)
    /\ VarsPending
    /\ TopHeld
    /\ OutputRight

-----------------------------------------------------------------------------
(* Sequences *)

\* z is s with the top k entries replaced by x.
Reduced(s, k, x, z) ==
    /\ Len(z) = Len(s) - k + 1
    /\ \A i \in 1 .. Len(s) - k + 1 : z[i] = IF i = Len(s) - k + 1 THEN x ELSE s[i]

LEMMA ReduceSeq ==
    ASSUME NEW S, NEW s \in Seq(S), NEW k \in Nat, k <= Len(s), NEW x \in S
    PROVE  Src!Reduce(s, k, x) \in Seq(S) /\ Reduced(s, k, x, Src!Reduce(s, k, x))
<1>. DEFINE z == Src!Reduce(s, k, x)  n == Len(s) - k + 1
<1>1. n \in Nat /\ \A i \in 1 .. n : s[i] \in S \/ i = n
  BY LenProperties, ElementOfSeq
<1>2. z = [i \in 1 .. n |-> IF i = n THEN x ELSE s[i]]
  BY DEF Src!Reduce
<1>. HIDE DEF z, n
<1>3. z \in Seq(S) /\ Len(z) = n /\ \A i \in 1 .. n : z[i] = IF i = n THEN x ELSE s[i]
  BY <1>1, <1>2
<1>. QED BY <1>3 DEF Reduced, z, n

LEMMA NodeOnStack ==
    ASSUME TypeOK, NEW i \in 1 .. depth
    PROVE  /\ stack[i] \in Node /\ stack[i].var \in Vars \cup {NoVar} /\ stack[i].reg \in Reg
           /\ operands[i] \in Val
<1>1. stack[i] \in Node /\ operands[i] \in Val
  BY ElementOfSeq DEF TypeOK, depth
<1>. QED BY <1>1 DEF Node
-----------------------------------------------------------------------------
(* What the pieces of a step keep *)

LEMMA FitsOnce ==
    ASSUME NEW mm, CachedOnce(mm), NEW i, NEW r \in Reg, NEW s \in Reg,
           FitsIn(mm, i, r), FitsIn(mm, i, s)
    PROVE  r = s
BY DEF CachedOnce, FitsIn

\* Taking a register that is not locked disturbs no locked operand.
LEMMA QuietStep ==
    ASSUME TypeOK, NEW k \in Nat, k <= depth, NEW mm, NEW nn, NEW r \in Reg,
           Quietly(mm, nn, r), Guarded(mm, k), Held(mm, k)
    PROVE  Guarded(nn, k) /\ Held(nn, k)
<1>0. k \in 0 .. depth /\ depth \in Nat /\ \A i \in 1 .. k : i \in 1 .. depth
  BY DEF TypeOK
<1>1. ASSUME NEW i \in 1 .. k
      PROVE  Intact(nn, i) /\ (stack[i].var = NoVar => nn.reg[stack[i].reg].locked)
  <2>1. stack[i].reg \in Reg
    BY <1>0, NodeOnStack
  <2>2. CASE stack[i].var = NoVar
    <3>1. mm.reg[stack[i].reg].locked /\ Intact(mm, i)
      BY <2>2 DEF Guarded
    <3>2. nn.reg[stack[i].reg] = mm.reg[stack[i].reg]
      BY <2>1, <3>1 DEF Elsewhere, Quietly
    <3>. QED BY <2>2, <3>1, <3>2 DEF Intact, FitsIn
  <2>. QED BY <2>2 DEF Intact
<1>2. ASSUME NEW s \in Reg, nn.reg[s].locked PROVE \E i \in 1 .. k : FitsIn(nn, i, s)
  <2>1. nn.reg[s] = mm.reg[s]
    BY <1>2 DEF Elsewhere, Quietly
  <2>2. PICK i \in 1 .. k : FitsIn(mm, i, s)
    BY <1>2, <2>1 DEF Held
  <2>3. FitsIn(nn, i, s)
    BY <2>1, <2>2 DEF FitsIn
  <2>. QED BY <2>3
<1>. QED BY <1>1, <1>2 DEF Guarded, Held

\* getTempReg finds the value of an intact operand, loading it if need be.
LEMMA UseShape ==
    ASSUME TypeOK, VarsPending, NEW i \in 1 .. depth, NEW mm, Good(mm, env, {}),
           Intact(mm, i), NEW a \in Use(mm, i)
    PROVE  /\ Good(a.m, env, {}) /\ a.r \in Reg
           /\ FitsIn(a.m, i, a.r) /\ a.m.reg[a.r].content = operands[i]
           /\ stack[i].var # NoVar => a.r \in Callee
           /\ stack[i].var = NoVar => a.r = stack[i].reg
           /\ \/ a.m = mm
              \/ Quietly(mm, a.m, a.r) /\ \A s \in Reg : ~FitsIn(mm, i, s)
<1>0. stack[i].var \in Vars \cup {NoVar} /\ stack[i].reg \in Reg
  BY NodeOnStack
<1>1. CASE stack[i].var # NoVar
  <2>. DEFINE v == stack[i].var
  <2>1. v \in Vars /\ a \in VarReg(mm, v, TRUE) /\ operands[i] = env[v]
    BY <1>0, <1>1 DEF Use, VarsPending
  <2>. HIDE DEF v
  <2>2. Good(a.m, env, {}) /\ Delivers(mm, v, a)
    <3>1. v \notin {}
      OBVIOUS
    <3>. QED BY <2>1, <3>1, VarRegShape
  <2>3. a.r \in Reg /\ a.m.reg[a.r].var = v /\ a.m.reg[a.r].content = env[v]
    BY <2>1, <2>2 DEF Delivers, Good, Holds
  <2>. QED BY <1>1, <2>1, <2>2, <2>3 DEF Delivers, FitsIn, Uncached, v
<1>2. CASE stack[i].var = NoVar
  <2>1. FitsIn(mm, i, stack[i].reg) /\ mm.reg[stack[i].reg].content = operands[i]
    BY <1>2 DEF Intact
  <2>2. a.m = mm /\ a.r = stack[i].reg
    BY <1>2, <2>1 DEF Use, FitsIn
  <2>. QED BY <1>0, <1>2, <2>1, <2>2
<1>. QED BY <1>1, <1>2

\* The register of an operand that is held stays its register.
LEMMA UseHeld ==
    ASSUME TypeOK, VarsPending, NEW i \in 1 .. depth, NEW mm, Good(mm, env, {}),
           Intact(mm, i), NEW r \in Reg, FitsIn(mm, i, r), NEW a \in Use(mm, i)
    PROVE  a.m = mm /\ a.r = r /\ mm.reg[r].content = operands[i]
<1>1. /\ a.r \in Reg /\ FitsIn(a.m, i, a.r) /\ a.m.reg[a.r].content = operands[i]
      /\ a.m = mm
  BY UseShape
<1>2. CachedOnce(mm)
  BY DEF Good
<1>. QED BY <1>1, <1>2, FitsOnce

\* A statement ends with no lock and no operand.
LEMMA EmptyStep ==
    ASSUME Good(m', env', {}), \A r \in Reg : ~m'.reg[r].locked,
           stack' = <<>>, operands' = <<>>, fresh' = FALSE,
           env' \in [Vars -> Val], shown' = printed'
    PROVE  IInv'
<1>1. depth' = 0 /\ waiting' = 0 /\ Len(operands') = 0
  BY EmptySeq DEF depth, waiting
<1>2. TypeOK'
  <2>1. stack' \in Seq(Node) /\ operands' \in Seq(Val)
    BY EmptySeq
  <2>2. /\ m' \in Machine /\ depth' \in 0 .. MaxDepth
        /\ \A r \in Reg : m'.reg[r].modified => m'.reg[r].dirty
    BY <1>1, MachineAssumption DEF Good
  <2>. QED BY <1>1, <2>1, <2>2 DEF TypeOK
<1>. QED BY <1>1, <1>2 DEF IInv, Guarded, Held, VarsPending, TopHeld, OutputRight

\* A step that ends with a new value on top of all but k of the operands.
LEMMA PushStep ==
    ASSUME IInv, NEW k \in Nat, NEW d \in Nat, d + k = depth, d < MaxDepth,
           NEW node \in Node, NEW x \in Val,
           Guarded(m', d), Held(m', d), Good(m', env, {}),
           stack' = Src!Reduce(stack, k, node), operands' = Src!Reduce(operands, k, x),
           fresh' = TRUE, env' = env, shown' = printed',
           node.var # NoVar => node.reg \in Callee /\ x = env[node.var],
           node.var = NoVar => /\ m'.reg[node.reg].var = NoVar
                               /\ m'.reg[node.reg].node = d + 1
                               /\ m'.reg[node.reg].content = x
    PROVE  IInv'
<1>0. /\ stack \in Seq(Node) /\ operands \in Seq(Val) /\ depth \in Nat
      /\ Len(operands) = depth /\ depth = Len(stack)
  BY LenProperties DEF IInv, TypeOK, depth
<1>1. /\ stack' \in Seq(Node) /\ operands' \in Seq(Val)
      /\ Len(stack') = d + 1 /\ Len(operands') = d + 1
      /\ \A i \in 1 .. d + 1 : stack'[i] = IF i = d + 1 THEN node ELSE stack[i]
      /\ \A i \in 1 .. d + 1 : operands'[i] = IF i = d + 1 THEN x ELSE operands[i]
  <2>1. /\ k <= Len(stack) /\ k <= Len(operands)
        /\ Len(stack) - k + 1 = d + 1 /\ Len(operands) - k + 1 = d + 1
    BY <1>0
  <2>. DEFINE s == Src!Reduce(stack, k, node)  o == Src!Reduce(operands, k, x)
  <2>2. s \in Seq(Node) /\ Reduced(stack, k, node, s)
    BY <1>0, <2>1, ReduceSeq
  <2>3. o \in Seq(Val) /\ Reduced(operands, k, x, o)
    BY <1>0, <2>1, ReduceSeq
  <2>4. stack' = s /\ operands' = o
    OBVIOUS
  <2>. HIDE DEF s, o
  <2>. QED BY <2>1, <2>2, <2>3, <2>4 DEF Reduced
<1>2. depth' = d + 1 /\ waiting' = d
  BY <1>0, <1>1 DEF depth, waiting
<1>3. \A i \in 1 .. d : /\ i \in 1 .. d + 1 /\ i \in 1 .. depth
                        /\ stack'[i] = stack[i] /\ operands'[i] = operands[i]
  BY <1>0, <1>1
<1>4. d + 1 \in 1 .. d + 1 /\ stack'[d + 1] = node /\ operands'[d + 1] = x
  BY <1>0, <1>1
<1>5. TypeOK'
  <2>1. /\ m' \in Machine /\ env' \in [Vars -> Val] /\ depth' \in 0 .. MaxDepth
        /\ \A r \in Reg : m'.reg[r].modified => m'.reg[r].dirty
    BY <1>0, <1>2, MachineAssumption DEF IInv, TypeOK, Good
  <2>. QED BY <1>0, <1>1, <1>2, <2>1 DEF TypeOK
<1>6. Guarded(m, waiting)'
  BY <1>2, <1>3 DEF Guarded, Intact, FitsIn
<1>7. Held(m, waiting)'
  BY <1>2, <1>3 DEF Held, FitsIn
<1>8. Intact(m, depth)'
  BY <1>2, <1>4 DEF Intact, FitsIn
<1>9. VarsPending'
  <2>1. ASSUME NEW i \in 1 .. d + 1, stack'[i].var # NoVar
        PROVE  stack'[i].reg \in Callee /\ operands'[i] = env[stack'[i].var]
    <3>1. CASE i = d + 1
      BY <1>4, <2>1, <3>1
    <3>2. CASE i # d + 1
      <4>1. i \in 1 .. d
        BY <1>0, <3>2
      <4>. QED BY <1>3, <2>1, <4>1 DEF IInv, VarsPending
    <3>. QED BY <3>1, <3>2
  <2>. QED BY <1>2, <2>1 DEF VarsPending
<1>. QED BY <1>0, <1>2, <1>5, <1>6, <1>7, <1>8, <1>9 DEF IInv, TopHeld, OutputRight

-----------------------------------------------------------------------------
(* The steps *)

\* In a register for temporaries of pool, the value x of a new operand.
LEMMA PushTemp ==
    ASSUME IInv, ~fresh, depth < MaxDepth, NEW mm, Good(mm, env, {}),
           Guarded(mm, depth), Held(mm, depth),
           NEW pool \in {CalleePool, CallerPool}, NEW a \in NewTemp(mm, pool, depth + 1),
           NEW x \in Val, m' \in {Operand(a.m, a.r, x), LoadValue(a.m, a.r, x)},
           Push(NoVar, a.r), operands' = Src!Reduce(operands, 0, x),
           env' = env, shown' = printed'
    PROVE  IInv'
<1>. DEFINE r == a.r  node == [var |-> NoVar, reg |-> r]
<1>0. TypeOK /\ depth \in Nat /\ depth + 1 \in 0 .. MaxDepth + 1
  BY MachineAssumption DEF IInv, TypeOK
<1>1. /\ Good(a.m, env, {}) /\ r \in Reg /\ Quietly(mm, a.m, r)
      /\ a.m.reg[r].var = NoVar /\ a.m.reg[r].node = depth + 1
  BY <1>0, NewTempShape
<1>2. Good(m', env, {}) /\ Fills(a.m, m', r, x)
  BY <1>1, FillTemp DEF Quietly
<1>3. Guarded(a.m, depth) /\ Held(a.m, depth)
  BY <1>0, <1>1, QuietStep
<1>4. Guarded(m', depth) /\ Held(m', depth)
  BY <1>0, <1>1, <1>2, <1>3, QuietStep DEF Fills
<1>5. /\ node \in Node /\ node.var = NoVar /\ node.reg = r
      /\ stack' = Src!Reduce(stack, 0, node) /\ fresh' = TRUE
  BY <1>1 DEF Node, Push
<1>6. /\ m'.reg[r].var = NoVar /\ m'.reg[r].node = depth + 1 /\ m'.reg[r].content = x
  BY <1>1, <1>2 DEF Fills
<1>. HIDE DEF r, node
<1>. QED BY <1>0, <1>2, <1>4, <1>5, <1>6, PushStep

LEMMA PushConstStep == ASSUME IInv, NEW c \in Val, PushConst(c) PROVE IInv'
<1>1. PICK a \in NewTemp(m, CallerPool, depth + 1) :
        m' = LoadValue(a.m, a.r, c) /\ Push(NoVar, a.r)
  BY DEF PushConst
<1>2. /\ ~fresh /\ depth < MaxDepth /\ waiting = depth
      /\ operands' = Src!Reduce(operands, 0, c) /\ env' = env /\ shown' = printed'
  BY DEF PushConst, AtLeaf, waiting, Src!PushValue
<1>. QED BY <1>1, <1>2, PushTemp DEF IInv

LEMMA PushReadStep == ASSUME IInv, NEW c \in Val, PushRead(c) PROVE IInv'
<1>1. PICK a \in NewTemp(m, CalleePool, depth + 1) :
        m' = Operand(a.m, a.r, c) /\ Push(NoVar, a.r)
  BY DEF PushRead
<1>2. /\ ~fresh /\ depth < MaxDepth /\ waiting = depth
      /\ operands' = Src!Reduce(operands, 0, c) /\ env' = env /\ shown' = printed'
  BY DEF PushRead, AtLeaf, waiting, Src!PushValue
<1>. QED BY <1>1, <1>2, PushTemp DEF IInv

LEMMA PushVarStep == ASSUME IInv, NEW v \in Vars, PushVar(v) PROVE IInv'
<1>. DEFINE node(r) == [var |-> v, reg |-> r]
<1>0. /\ ~fresh /\ depth < MaxDepth /\ waiting = depth /\ depth \in Nat /\ TypeOK
      /\ operands' = Src!Reduce(operands, 0, env[v]) /\ env' = env /\ shown' = printed'
      /\ v # NoVar /\ env[v] \in Val /\ Good(m, env, {})
  BY MachineAssumption DEF PushVar, AtLeaf, waiting, Src!PushVar, IInv, TypeOK
<1>1. PICK a \in VarReg(m, v, TRUE) : m' = a.m /\ Push(v, a.r)
  BY DEF PushVar
<1>2. Good(a.m, env, {}) /\ Delivers(m, v, a)
  <2>1. v \notin {}
    OBVIOUS
  <2>. QED BY <1>0, <2>1, VarRegShape
<1>3. Guarded(a.m, depth) /\ Held(a.m, depth)
  <2>1. Guarded(m, depth) /\ Held(m, depth)
    BY <1>0 DEF IInv
  <2>2. CASE Quietly(m, a.m, a.r)
    BY <1>0, <1>2, <2>1, <2>2, QuietStep DEF Delivers
  <2>. QED BY <1>2, <2>1, <2>2 DEF Delivers
<1>4. /\ node(a.r) \in Node /\ node(a.r).var = v /\ node(a.r).reg \in Callee
      /\ stack' = Src!Reduce(stack, 0, node(a.r)) /\ fresh' = TRUE
  BY <1>1, <1>2 DEF Node, Push, Delivers
<1>. HIDE DEF node
<1>. QED BY <1>0, <1>1, <1>2, <1>3, <1>4, PushStep

LEMMA PushCallStep ==
    ASSUME Safe, IInv, NEW c \in Val, NEW junk \in Val, NEW g \in [Globals -> Val],
           PushCall(c, g, junk)
    PROVE  IInv'
<1>. DEFINE n == ClearRegRecord(m, junk)
            returned == [n EXCEPT !.mem = [v \in Vars |-> IF v \in Globals THEN g[v] ELSE m.mem[v]]]
<1>0. /\ TypeOK /\ Good(m, env, {}) /\ depth \in Nat /\ m \in Machine
      /\ env \in [Vars -> Val]
  BY DEF IInv, TypeOK
<1>1. Globals = {} /\ depth = 0 /\ ~fresh /\ depth < MaxDepth /\ waiting = 0
  BY <1>0 DEF PushCall, Safe, AtLeaf, waiting
<1>2. /\ Good(n, env, {}) /\ n.mem = m.mem
      /\ \A r \in Reg : n.reg[r].locked = m.reg[r].locked
  BY <1>0, ClearRegRecordShape
<1>3. PICK a \in NewTemp(returned, CalleePool, depth + 1) :
        m' = Operand(a.m, a.r, c) /\ Push(NoVar, a.r)
  BY DEF PushCall
<1>. HIDE DEF n
<1>4. returned = n
  <2>1. [v \in Vars |-> IF v \in Globals THEN g[v] ELSE m.mem[v]] = m.mem
    BY <1>0, <1>1 DEF Machine
  <2>. QED BY <1>2, <2>1 DEF Good, Machine
<1>. HIDE DEF returned
<1>5. Guarded(n, depth) /\ Held(n, depth)
  BY <1>1, <1>2 DEF IInv, Guarded, Held
<1>6. env' = env /\ operands' = Src!Reduce(operands, 0, c) /\ shown' = printed'
  BY <1>0, <1>1 DEF PushCall, Src!PushCall
<1>. QED BY <1>1, <1>2, <1>3, <1>4, <1>5, <1>6, PushTemp

LEMMA HoldStep == ASSUME IInv, Hold PROVE IInv'
<1>0. /\ fresh /\ TypeOK /\ VarsPending /\ Good(m, env, {}) /\ Intact(m, depth)
      /\ depth \in Nat /\ depth > 0 /\ depth \in 1 .. depth /\ waiting = depth - 1
      /\ depth - 1 \in Nat /\ stack \in Seq(Node) /\ depth = Len(stack)
      /\ Guarded(m, depth - 1) /\ Held(m, depth - 1)
  BY DEF Hold, IInv, TypeOK, waiting, depth
<1>1. PICK a \in Use(m, depth) : /\ m' = Lock(a.m, a.r, TRUE)
                                 /\ stack' = [stack EXCEPT ![depth].reg = a.r]
  BY DEF Hold
<1>. DEFINE r == a.r  node == [var |-> stack[depth].var, reg |-> r]
<1>2. /\ Good(a.m, env, {}) /\ r \in Reg
      /\ FitsIn(a.m, depth, r) /\ a.m.reg[r].content = operands[depth]
      /\ stack[depth].var # NoVar => r \in Callee
      /\ stack[depth].var = NoVar => r = stack[depth].reg
      /\ a.m = m \/ Quietly(m, a.m, r)
  BY <1>0, UseShape
<1>3. Guarded(a.m, depth - 1) /\ Held(a.m, depth - 1)
  <2>1. CASE Quietly(m, a.m, r)
    BY <1>0, <1>2, <2>1, QuietStep
  <2>. QED BY <1>0, <1>2, <2>1
<1>4. Good(m', env, {}) /\ LockAside(a.m, m', r) /\ m'.reg[r].locked
  BY <1>1, <1>2, LockKeepsGood
<1>5. \A s \in Reg : /\ m'.reg[s].var = a.m.reg[s].var
                     /\ m'.reg[s].node = a.m.reg[s].node
                     /\ m'.reg[s].content = a.m.reg[s].content
                     /\ a.m.reg[s].locked => m'.reg[s].locked
                     /\ s # r => m'.reg[s] = a.m.reg[s]
  BY <1>4 DEF LockAside, Elsewhere
<1>6. /\ stack' \in Seq(Node) /\ Len(stack') = depth
      /\ \A i \in 1 .. depth : stack'[i] = IF i = depth THEN node ELSE stack[i]
      /\ node.var = stack[depth].var /\ node.reg = r
  <2>1. stack[depth] \in Node
    BY <1>0, NodeOnStack
  <2>2. [stack[depth] EXCEPT !.reg = r] = node /\ node \in Node
    BY <1>2, <2>1 DEF Node
  <2>3. stack' = [stack EXCEPT ![depth] = node]
    BY <1>1, <2>2
  <2>. HIDE DEF node
  <2>4. /\ stack' \in Seq(Node) /\ Len(stack') = Len(stack)
        /\ \A i \in 1 .. Len(stack) : stack'[i] = IF i = depth THEN node ELSE stack[i]
    BY <1>0, <2>2, <2>3, ExceptSeq
  <2>. QED BY <1>0, <2>4 DEF node
<1>. HIDE DEF r, node
<1>7. /\ env' = env /\ operands' = operands /\ shown' = shown /\ printed' = printed
      /\ fresh' = FALSE /\ depth' = depth /\ waiting' = depth
  BY <1>6 DEF Hold, meaning, waiting, depth
<1>8. \A i \in 1 .. depth : i # depth => i \in 1 .. depth - 1 /\ stack'[i] = stack[i]
  BY <1>0, <1>6
<1>9. FitsIn(m, depth, r)'
  BY <1>0, <1>2, <1>5, <1>6, <1>7 DEF FitsIn
<1>10. TypeOK'
  BY <1>0, <1>4, <1>6, <1>7 DEF TypeOK, Good
<1>11. Guarded(m, depth)'
  <2>1. ASSUME NEW i \in 1 .. depth, stack'[i].var = NoVar
        PROVE  /\ FitsIn(m, i, stack[i].reg)' /\ m'.reg[stack'[i].reg].content = operands[i]
               /\ m'.reg[stack'[i].reg].locked
    <3>1. CASE i = depth
      BY <1>0, <1>2, <1>4, <1>5, <1>6, <1>7, <1>9, <3>1
    <3>2. CASE i # depth
      <4>1. i \in 1 .. depth - 1 /\ stack'[i] = stack[i] /\ stack[i].reg \in Reg
        BY <1>0, <1>8, <3>2, NodeOnStack
      <4>2. /\ FitsIn(a.m, i, stack[i].reg) /\ a.m.reg[stack[i].reg].content = operands[i]
            /\ a.m.reg[stack[i].reg].locked
        BY <1>3, <2>1, <4>1 DEF Guarded, Intact
      <4>. QED BY <1>5, <4>1, <4>2 DEF FitsIn
    <3>. QED BY <3>1, <3>2
  <2>. QED BY <1>7, <2>1 DEF Guarded, Intact, FitsIn
<1>12. Held(m, depth)'
  <2>1. ASSUME NEW s \in Reg, m'.reg[s].locked
        PROVE  \E i \in 1 .. depth : FitsIn(m, i, s)'
    <3>1. CASE s = r
      BY <1>0, <1>7, <1>9, <3>1 DEF FitsIn
    <3>2. CASE s # r
      <4>1. PICK i \in 1 .. depth - 1 : FitsIn(a.m, i, s)
        BY <1>3, <1>5, <2>1, <3>2 DEF Held
      <4>2. i \in 1 .. depth /\ stack'[i] = stack[i]
        BY <1>0, <1>8, <4>1
      <4>. QED BY <1>5, <4>1, <4>2 DEF FitsIn
    <3>. QED BY <3>1, <3>2
  <2>. QED BY <1>7, <2>1 DEF Held, FitsIn
<1>13. VarsPending'
  <2>1. ASSUME NEW i \in 1 .. depth, stack'[i].var # NoVar
        PROVE  stack'[i].reg \in Callee /\ operands[i] = env[stack'[i].var]
    <3>1. CASE i = depth
      BY <1>0, <1>2, <1>6, <2>1, <3>1 DEF VarsPending
    <3>2. CASE i # depth
      BY <1>0, <1>8, <2>1, <3>2 DEF VarsPending
    <3>. QED BY <3>1, <3>2
  <2>. QED BY <1>7, <2>1 DEF VarsPending
<1>14. TopHeld'
  BY <1>2, <1>4, <1>7, <1>9 DEF TopHeld, FitsIn
<1>. QED BY <1>4, <1>7, <1>10, <1>11, <1>12, <1>13, <1>14 DEF IInv, OutputRight

\* The result register takes the name of the pending node it stands for.
LEMMA BecomesKeepsGood ==
    ASSUME NEW mm, NEW e, Good(mm, e, {}), NEW r \in Reg, mm.reg[r].var = NoVar,
           NEW i \in 0 .. MaxDepth + 1
    PROVE  /\ Good(Becomes(mm, r, i), e, {}) /\ Elsewhere(mm, Becomes(mm, r, i), r)
           /\ Becomes(mm, r, i).reg[r].var = NoVar /\ Becomes(mm, r, i).reg[r].node = i
           /\ Becomes(mm, r, i).reg[r].content = mm.reg[r].content
           /\ Becomes(mm, r, i).reg[r].locked = mm.reg[r].locked
<1>. DEFINE n == Becomes(mm, r, i)
<1>0. mm \in Machine /\ mm.reg[r] \in RegState /\ (mm.reg[r].modified => mm.reg[r].dirty)
  BY DEF Good, Machine
<1>1. /\ n \in Machine /\ n.mem = mm.mem /\ Elsewhere(mm, n, r)
      /\ n.reg[r].var = NoVar /\ n.reg[r].node = i
      /\ n.reg[r].content = mm.reg[r].content /\ n.reg[r].locked = mm.reg[r].locked
      /\ n.reg[r].modified => n.reg[r].dirty
  BY <1>0 DEF Becomes, Machine, RegState, Elsewhere
<1>. HIDE DEF n
<1>2. Good(n, e, {})
  BY <1>1, ForgetKeepsGood
<1>. QED BY <1>1, <1>2 DEF n

\* With only one operand, which nobody holds, no register is locked.
LEMMA NothingLocked ==
    ASSUME IInv, fresh, depth = 1
    PROVE  \A r \in Reg : ~m.reg[r].locked
<1>1. waiting = 0
  BY DEF waiting
<1>. QED BY <1>1 DEF IInv, Held

LEMMA EmitStep == ASSUME IInv, Emit PROVE IInv'
<1>0. /\ fresh /\ depth = 1 /\ 1 \in 1 .. depth /\ TypeOK /\ VarsPending
      /\ Good(m, env, {}) /\ Intact(m, 1) /\ env \in [Vars -> Val]
      /\ operands \in Seq(Val) /\ Len(operands) = 1
  BY DEF Emit, AtEnd, IInv, TypeOK
<1>1. PICK a \in Use(m, 1) : m' = a.m /\ shown' = <<a.m.reg[a.r].content>>
  BY DEF Emit
<1>2. /\ Good(a.m, env, {}) /\ a.m.reg[a.r].content = operands[1]
      /\ a.m = m \/ Quietly(m, a.m, a.r)
  BY <1>0, UseShape
<1>3. \A r \in Reg : ~m'.reg[r].locked
  BY <1>0, <1>1, <1>2, NothingLocked DEF Quietly, Elsewhere
<1>4. /\ stack' = <<>> /\ operands' = <<>> /\ fresh' = FALSE /\ env' = env
      /\ printed' = operands
  BY DEF Emit, Pop, Src!Emit
<1>5. operands = <<operands[1]>>
  BY <1>0
<1>. QED BY <1>0, <1>1, <1>2, <1>3, <1>4, <1>5, EmptyStep

LEMMA DiscardStep == ASSUME IInv, Discard PROVE IInv'
<1>1. /\ fresh /\ depth = 1 /\ m' = m /\ env' = env /\ Good(m, env, {})
      /\ env \in [Vars -> Val] /\ stack' = <<>> /\ operands' = <<>> /\ fresh' = FALSE
      /\ shown' = printed'
  BY DEF Discard, AtEnd, Pop, Src!Discard, IInv, TypeOK
<1>. QED BY <1>1, NothingLocked, EmptyStep

LEMMA FlushStep == ASSUME IInv, Flush PROVE IInv'
<1>1. /\ depth = 0 /\ ~fresh /\ fresh = FALSE /\ waiting = 0 /\ Good(m, env, {})
      /\ m' = SaveAndClear(m) /\ env' = env /\ env \in [Vars -> Val]
      /\ stack \in Seq(Node) /\ operands \in Seq(Val) /\ Len(operands) = 0 /\ Len(stack) = 0
      /\ stack' = stack /\ operands' = operands /\ fresh' = fresh
      /\ shown' = shown /\ printed' = printed /\ shown = printed
  BY DEF Flush, IInv, TypeOK, meaning, waiting, depth, OutputRight
<1>2. stack = <<>> /\ operands = <<>>
  BY <1>1, EmptySeq
<1>3. \A r \in Reg : ~m.reg[r].locked
  BY <1>1 DEF IInv, Held
<1>4. Good(m', env', {}) /\ \A r \in Reg : ~m'.reg[r].locked
  BY <1>1, <1>3, SaveAndClearShape
<1>. QED BY <1>1, <1>2, <1>4, EmptyStep

LEMMA EndListStep == ASSUME IInv, EndList PROVE IInv'
<1>1. /\ depth = 0 /\ ~fresh /\ fresh = FALSE /\ waiting = 0 /\ Good(m, env, {})
      /\ env' = env /\ env \in [Vars -> Val]
      /\ stack \in Seq(Node) /\ operands \in Seq(Val) /\ Len(operands) = 0 /\ Len(stack) = 0
      /\ stack' = stack /\ operands' = operands /\ fresh' = fresh
      /\ shown' = shown /\ printed' = printed /\ shown = printed
  BY DEF EndList, IInv, TypeOK, meaning, waiting, depth, OutputRight
<1>2. stack = <<>> /\ operands = <<>>
  BY <1>1, EmptySeq
<1>3. \A r \in Reg : ~m.reg[r].locked
  BY <1>1 DEF IInv, Held
<1>4. PICK a \in NewTemp(m, CalleePool, 0) : m' = a.m
  BY DEF EndList
<1>5. Good(a.m, env, {}) /\ a.r \in Reg /\ Quietly(m, a.m, a.r)
  <2>1. 0 \in 0 .. MaxDepth + 1
    BY MachineAssumption
  <2>. QED BY <1>1, <2>1, NewTempShape
<1>6. \A r \in Reg : ~m'.reg[r].locked
  BY <1>3, <1>4, <1>5 DEF Quietly, Elsewhere
<1>. QED BY <1>1, <1>2, <1>4, <1>5, <1>6, EmptyStep

LEMMA AssignStep == ASSUME IInv, NEW v \in Vars, Assign(v) PROVE IInv'
<1>0. /\ ~fresh /\ depth = 1 /\ 1 \in 1 .. depth /\ TypeOK /\ VarsPending /\ waiting = 1
      /\ Good(m, env, {}) /\ Guarded(m, 1) /\ Held(m, 1) /\ Intact(m, 1)
      /\ env \in [Vars -> Val] /\ operands[1] \in Val
      /\ env' = [env EXCEPT ![v] = operands[1]]
      /\ stack' = <<>> /\ operands' = <<>> /\ fresh' = FALSE /\ shown' = printed'
  <2>1. ~fresh /\ depth = 1 /\ 1 \in 1 .. depth
    BY DEF Assign
  <2>2. operands[1] \in Val
    BY <2>1, NodeOnStack DEF IInv
  <2>. QED BY <2>1, <2>2 DEF Assign, IInv, TypeOK, waiting, Guarded, Pop, Src!Assign
<1>. PICK right \in Use(m, 1) : \E left \in VarReg(right.m, v, FALSE) :
        m' = Lock(Save(LoadReg(left.m, left.r, right.r), left.r), right.r, FALSE)
  BY DEF Assign
<1>1. PICK left \in VarReg(right.m, v, FALSE) :
        m' = Lock(Save(LoadReg(left.m, left.r, right.r), left.r), right.r, FALSE)
  OBVIOUS
<1>. DEFINE p == right.r  k == left.m  q == left.r  l == LoadReg(k, q, p)  n == Save(l, q)
<1>2. /\ right.m = m /\ p \in Reg /\ m.reg[p].content = operands[1]
      /\ FitsIn(m, 1, p) /\ m.reg[p].locked
  <2>1. PICK r \in Reg : FitsIn(m, 1, r) /\ m.reg[r].locked
    BY <1>0 DEF IInv, TopHeld
  <2>2. right.m = m /\ p = r /\ m.reg[r].content = operands[1]
    BY <1>0, <2>1, UseHeld
  <2>. QED BY <2>1, <2>2
<1>3. Good(k, env, {v}) /\ Delivers(m, v, left)
  <2>1. v \in {v} /\ Good(m, env, {v})
    BY <1>0, WeakenGood
  <2>. QED BY <1>2, <2>1, VarRegShape
<1>4. /\ q \in Reg /\ k.reg[q].var = v
      /\ k = m \/ (Quietly(m, k, q) /\ Uncached(m, v))
  BY <1>3 DEF Delivers
<1>5. \A r \in Reg : k.reg[r].locked => r = p
  <2>1. \A r \in Reg : m.reg[r].locked => r = p
    <3>1. \A r \in Reg : m.reg[r].locked => FitsIn(m, 1, r)
      BY <1>0 DEF Held
    <3>2. CachedOnce(m)
      BY <1>0 DEF Good
    <3>. QED BY <1>2, <3>1, <3>2, FitsOnce
  <2>. QED BY <1>4, <2>1 DEF Quietly, Elsewhere
<1>6. k.reg[p] = m.reg[p]
  BY <1>2, <1>4 DEF Quietly, Elsewhere
<1>7. q = p => k.reg[q].modified \/ k.mem[v] = operands[1]
  <2>1. ASSUME q = p PROVE k = m /\ m.reg[q].var = v
    BY <1>2, <1>4, <2>1 DEF Quietly
  <2>. QED BY <1>0, <1>2, <1>4, <2>1 DEF Good, Holds
<1>8. env'[v] = operands[1] /\ OnlyAt(v, env, env') /\ env' \in [Vars -> Val]
  BY <1>0 DEF OnlyAt
<1>9. m' = Lock(n, p, FALSE)
  BY <1>1
<1>. HIDE DEF p, k, q
<1>10. /\ Good(l, env', {}) /\ Elsewhere(k, l, q)
       /\ l.reg[q].locked = k.reg[q].locked /\ l.reg[q].var = v
  BY <1>2, <1>3, <1>4, <1>6, <1>7, <1>8, LoadRegKeepsGood DEF k
<1>. HIDE DEF l
<1>11. /\ Good(n, env', {}) /\ Elsewhere(l, n, q)
       /\ n.reg[q].locked = l.reg[q].locked
  BY <1>4, <1>10, SaveKeepsGood, MachineAssumption
<1>. HIDE DEF n
<1>12. Good(m', env', {}) /\ LockAside(n, m', p) /\ ~m'.reg[p].locked
  BY <1>2, <1>9, <1>11, LockKeepsGood
<1>13. \A r \in Reg : ~m'.reg[r].locked
  BY ZenonT(60), <1>5, <1>10, <1>11, <1>12 DEF LockAside, Elsewhere
<1>. QED BY <1>0, <1>8, <1>12, <1>13, EmptyStep

LEMMA DeclareInitStep == ASSUME Safe, IInv, NEW v \in Vars, DeclareInit(v) PROVE IInv'
<1>0. /\ fresh /\ depth = 1 /\ 1 \in 1 .. depth /\ TypeOK /\ VarsPending
      /\ Good(m, env, {}) /\ Intact(m, 1) /\ CachedOnce(m)
      /\ env \in [Vars -> Val] /\ operands[1] \in Val /\ stack[1].reg \in Reg
      /\ env' = [env EXCEPT ![v] = operands[1]] /\ Fitting(m, v) = {}
      /\ stack' = <<>> /\ operands' = <<>> /\ fresh' = FALSE /\ shown' = printed'
  <2>1. fresh /\ depth = 1 /\ 1 \in 1 .. depth
    BY DEF DeclareInit, AtEnd
  <2>2. operands[1] \in Val /\ stack[1].reg \in Reg
    BY <2>1, NodeOnStack DEF IInv
  <2>. QED BY <2>1, <2>2 DEF DeclareInit, IInv, TypeOK, Pop, Src!Assign, Good
<1>. PICK slot \in VarReg(m, v, FALSE) : \E from \in Use(slot.m, 1) :
        m' = LoadReg(from.m, slot.r, from.r)
  BY DEF DeclareInit
<1>1. PICK from \in Use(slot.m, 1) : m' = LoadReg(from.m, slot.r, from.r)
  OBVIOUS
<1>. DEFINE k == slot.m  q == slot.r  p == stack[1].reg
<1>2. p \notin Callee
  BY <1>0 DEF DeclareInit, Safe, Exposed, Src!Top, depth, Callee
<1>3. stack[1].var = NoVar
  BY <1>0, <1>2 DEF VarsPending
<1>4. FitsIn(m, 1, p) /\ m.reg[p].content = operands[1] /\ p \in Reg
  BY <1>0, <1>3 DEF Intact
<1>5. Good(k, env, {v}) /\ Delivers(m, v, slot)
  <2>1. v \in {v} /\ Good(m, env, {v})
    BY <1>0, WeakenGood
  <2>. QED BY <1>1, <2>1, VarRegShape
<1>6. /\ q \in Reg /\ q # p /\ k.reg[q].var = v
      /\ k = m \/ Quietly(m, k, q)
  BY <1>2, <1>5 DEF Delivers
<1>7. k.reg[p] = m.reg[p]
  BY <1>0, <1>6 DEF Quietly, Elsewhere
<1>8. from.m = k /\ from.r = p
  BY <1>3, <1>4, <1>7 DEF Use, FitsIn
<1>9. env'[v] = operands[1] /\ OnlyAt(v, env, env') /\ env' \in [Vars -> Val]
  BY <1>0 DEF OnlyAt
<1>. DEFINE l == LoadReg(k, q, p)
<1>10. m' = l
  BY <1>1, <1>8
<1>. HIDE DEF k, q, p
<1>11. Good(l, env', {}) /\ Elsewhere(k, l, q) /\ l.reg[q].locked = k.reg[q].locked
  BY <1>4, <1>5, <1>6, <1>7, <1>9, LoadRegKeepsGood
<1>. HIDE DEF l
<1>12. \A r \in Reg : ~m'.reg[r].locked
  BY <1>0, <1>6, <1>10, <1>11, NothingLocked DEF Quietly, Elsewhere
<1>. QED BY <1>0, <1>9, <1>10, <1>11, <1>12, EmptyStep

LEMMA BinaryStep == ASSUME IInv, Binary PROVE IInv'
<1>. DEFINE d == depth - 2  e == depth - 1
<1>0. /\ ~fresh /\ depth \in Nat /\ d \in Nat /\ d + 2 = depth /\ d + 1 = e /\ d < MaxDepth
      /\ e \in 1 .. depth /\ depth \in 1 .. depth /\ depth # e /\ waiting = depth
      /\ e \in 0 .. MaxDepth + 1 /\ Operator \in 0 .. MaxDepth + 1
      /\ \A i \in 1 .. depth : i \in 1 .. d \/ i = e \/ i = depth
      /\ \A i \in 1 .. d : i \in 1 .. depth /\ i # e /\ i # depth
  BY MachineAssumption DEF Binary, IInv, TypeOK, waiting, Operator
<1>1. /\ TypeOK /\ VarsPending /\ TopHeld /\ Good(m, env, {})
      /\ Guarded(m, depth) /\ Held(m, depth) /\ Intact(m, e) /\ Len(operands) = depth
  BY <1>0 DEF IInv, Guarded, TypeOK
<1>left. PICK left \in Use(m, e) : \E right \in Use(left.m, depth) :
       \E res \in NewTemp(right.m, CallerPool, Operator) :
        /\ m' = Becomes(Lock(Lock(Operand(res.m, res.r,
                    BinOp(res.m.reg[left.r].content, res.m.reg[right.r].content)),
                    left.r, FALSE), right.r, FALSE), res.r, e)
        /\ stack' = Src!Reduce(stack, 2, [var |-> NoVar, reg |-> res.r])
  BY DEF Binary
<1>right. PICK right \in Use(left.m, depth) :
       \E res \in NewTemp(right.m, CallerPool, Operator) :
        /\ m' = Becomes(Lock(Lock(Operand(res.m, res.r,
                    BinOp(res.m.reg[left.r].content, res.m.reg[right.r].content)),
                    left.r, FALSE), right.r, FALSE), res.r, e)
        /\ stack' = Src!Reduce(stack, 2, [var |-> NoVar, reg |-> res.r])
  BY <1>left
<1>2. PICK res \in NewTemp(right.m, CallerPool, Operator) :
        /\ m' = Becomes(Lock(Lock(Operand(res.m, res.r,
                    BinOp(res.m.reg[left.r].content, res.m.reg[right.r].content)),
                    left.r, FALSE), right.r, FALSE), res.r, e)
        /\ stack' = Src!Reduce(stack, 2, [var |-> NoVar, reg |-> res.r])
  BY <1>right
<1>. DEFINE k == left.m  p == left.r  q == right.r  r == res.r
            a == operands[e]  b == operands[depth]  x == BinOp(a, b)
            node == [var |-> NoVar, reg |-> r]
\* The operands: both registers are found, the right one still locked.
<1>3. /\ Good(k, env, {}) /\ p \in Reg /\ FitsIn(k, e, p) /\ k.reg[p].content = a
      /\ stack[e].var # NoVar => p \in Callee
      /\ stack[e].var = NoVar => p = stack[e].reg
      /\ k = m \/ Quietly(m, k, p)
  BY <1>0, <1>1, UseShape
<1>4. Guarded(k, depth) /\ Held(k, depth)
  BY <1>0, <1>1, <1>3, QuietStep
<1>5. /\ right.m = k /\ q \in Reg /\ FitsIn(k, depth, q)
      /\ k.reg[q].content = b /\ k.reg[q].locked
  <2>1. PICK s \in Reg : FitsIn(m, depth, s) /\ m.reg[s].locked
    BY <1>0, <1>1 DEF TopHeld
  <2>2. FitsIn(k, depth, s) /\ k.reg[s].locked
    BY <1>3, <2>1 DEF Quietly, Elsewhere, FitsIn
  <2>3. Intact(k, depth)
    BY <1>0, <1>4 DEF Guarded
  <2>4. right.m = k /\ q = s /\ k.reg[s].content = b
    BY <1>0, <1>1, <1>3, <2>2, <2>3, UseHeld
  <2>. QED BY <2>2, <2>4
<1>6. p \in Callee \/ k.reg[p].locked
  BY <1>0, <1>3, <1>4 DEF Guarded
\* The result: a register of its own.
<1>7. /\ Good(res.m, env, {}) /\ r \in Caller /\ r \in Reg /\ Quietly(k, res.m, r)
      /\ res.m.reg[r].var = NoVar
  <2>1. res \in NewTemp(k, CallerPool, Operator) /\ Operator \in 0 .. MaxDepth + 1
    BY <1>0, <1>5
  <2>. HIDE DEF k
  <2>2. /\ Good(res.m, env, {}) /\ r \in Range(CallerPool) /\ r \in Reg
        /\ Quietly(k, res.m, r) /\ res.m.reg[r].var = NoVar
    BY <1>3, <2>1, NewTempShape
  <2>. QED BY <2>2 DEF Caller
<1>8. p # r /\ q # r
  BY <1>5, <1>6, <1>7, PoolShape DEF Quietly
<1>9. a \in Val /\ b \in Val /\ x \in Val
  BY <1>0, <1>1, NodeOnStack, OperatorAssumption
<1>10. res.m.reg[p].content = a /\ res.m.reg[q].content = b
  BY <1>3, <1>5, <1>7, <1>8 DEF Quietly, Elsewhere
<1>. DEFINE done == Operand(res.m, r, x)  l1 == Lock(done, p, FALSE)  l2 == Lock(l1, q, FALSE)
<1>11. m' = Becomes(l2, r, e)
  BY <1>2, <1>10
<1>. HIDE DEF k, p, q, r, a, b, x, d, e
<1>12. Good(done, env, {}) /\ Fills(res.m, done, r, x)
  BY <1>7, <1>9, FillTemp DEF Quietly
<1>. HIDE DEF done
<1>13. Good(l1, env, {}) /\ LockAside(done, l1, p) /\ ~l1.reg[p].locked
  BY <1>3, <1>12, LockKeepsGood
<1>. HIDE DEF l1
<1>14. Good(l2, env, {}) /\ LockAside(l1, l2, q) /\ ~l2.reg[q].locked
  BY <1>5, <1>13, LockKeepsGood
<1>. HIDE DEF l2
<1>15. /\ l2.reg[r].var = NoVar /\ l2.reg[r].content = x /\ ~l2.reg[r].locked
  <2>1. done.reg[r].var = NoVar /\ done.reg[r].content = x /\ ~done.reg[r].locked
    BY <1>12 DEF Fills, Quietly
  <2>2. l1.reg[r] = done.reg[r]
    BY <1>7, <1>8, <1>13 DEF LockAside, Elsewhere
  <2>3. l2.reg[r] = l1.reg[r]
    BY <1>7, <1>8, <1>14 DEF LockAside, Elsewhere
  <2>. QED BY <2>1, <2>2, <2>3
<1>16. /\ Good(m', env, {}) /\ Elsewhere(l2, m', r)
       /\ m'.reg[r].var = NoVar /\ m'.reg[r].node = e /\ m'.reg[r].content = x
       /\ ~m'.reg[r].locked
  <2>. DEFINE n == Becomes(l2, r, e)
  <2>1. /\ Good(n, env, {}) /\ Elsewhere(l2, n, r)
        /\ n.reg[r].var = NoVar /\ n.reg[r].node = e
        /\ n.reg[r].content = l2.reg[r].content /\ n.reg[r].locked = l2.reg[r].locked
    BY <1>0, <1>7, <1>14, <1>15, BecomesKeepsGood
  <2>. HIDE DEF n
  <2>2. m' = n
    BY <1>11 DEF n
  <2>. QED BY <1>15, <2>1, <2>2
<1>17. \A s \in Reg \ {r} : /\ m'.reg[s].var = k.reg[s].var
                            /\ m'.reg[s].node = k.reg[s].node
                            /\ m'.reg[s].content = k.reg[s].content
                            /\ m'.reg[s].locked => k.reg[s].locked /\ s # p /\ s # q
                            /\ s # p /\ s # q => m'.reg[s].locked = k.reg[s].locked
  <2>1. ASSUME NEW s \in Reg \ {r}
        PROVE  m'.reg[s] = l2.reg[s] /\ done.reg[s] = k.reg[s]
    BY <1>7, <1>12, <1>16, <2>1 DEF Elsewhere, Fills, Quietly
  <2>2. \A s \in Reg : /\ l2.reg[s].var = done.reg[s].var
                       /\ l2.reg[s].node = done.reg[s].node
                       /\ l2.reg[s].content = done.reg[s].content
    BY <1>13, <1>14 DEF LockAside
  <2>3. /\ \A s \in Reg : s # p /\ s # q => l2.reg[s] = done.reg[s]
        /\ ~l2.reg[p].locked /\ ~l2.reg[q].locked
    <3>1. /\ \A s \in Reg : s # p => l1.reg[s] = done.reg[s]
          /\ \A s \in Reg : s # q => l2.reg[s] = l1.reg[s]
      BY <1>13, <1>14 DEF LockAside, Elsewhere
    <3>. QED BY <1>3, <1>5, <1>13, <1>14, <3>1
  <2>. QED BY <2>1, <2>2, <2>3
\* The other operands keep their registers and locks.
<1>18. CachedOnce(k)
  BY <1>3 DEF Good
<1>19. Guarded(m', d)
  <2>1. ASSUME NEW i \in 1 .. d, stack[i].var = NoVar
        PROVE  LET s == stack[i].reg IN
               /\ FitsIn(m', i, s) /\ m'.reg[s].content = operands[i] /\ m'.reg[s].locked
    <3>. DEFINE s == stack[i].reg
    <3>1. /\ s \in Reg /\ FitsIn(k, i, s) /\ k.reg[s].content = operands[i] /\ k.reg[s].locked
      BY <1>0, <1>1, <1>4, <2>1, NodeOnStack DEF Guarded, Intact
    <3>2. s # p /\ s # q
      BY <1>0, <1>3, <1>5, <2>1, <3>1 DEF FitsIn
    <3>3. s # r
      BY <1>7, <3>1 DEF Quietly
    <3>. HIDE DEF s
    <3>4. m'.reg[s].locked /\ m'.reg[s].content = operands[i]
      BY <1>17, <3>1, <3>2, <3>3
    <3>5. FitsIn(m', i, s)
      BY <1>17, <3>1, <3>3 DEF FitsIn
    <3>. QED BY <3>4, <3>5 DEF s
  <2>. QED BY <2>1 DEF Guarded, Intact
<1>20. Held(m', d)
  <2>1. ASSUME NEW s \in Reg, m'.reg[s].locked PROVE \E i \in 1 .. d : FitsIn(m', i, s)
    <3>1. s # r /\ k.reg[s].locked /\ s # p /\ s # q
      BY <1>16, <1>17, <2>1
    <3>2. PICK i \in 1 .. depth : FitsIn(k, i, s)
      BY <1>4, <3>1 DEF Held
    <3>3. i # e /\ i # depth
      BY <1>3, <1>5, <1>18, <3>1, <3>2, FitsOnce
    <3>4. FitsIn(m', i, s)
      BY <1>17, <3>1, <3>2 DEF FitsIn
    <3>. QED BY <1>0, <3>2, <3>3, <3>4
  <2>. QED BY <2>1 DEF Held
<1>21. operands' = Src!Reduce(operands, 2, x)
  BY <1>1 DEF Binary, Src!Binary, Src!Top, x, a, b, e
<1>22. /\ stack' = Src!Reduce(stack, 2, node) /\ node \in Node
       /\ node.var = NoVar /\ node.reg = r
  BY <1>2, <1>7 DEF Node, r
<1>23. env' = env /\ fresh' = TRUE /\ shown' = printed'
  BY DEF Binary, Src!Binary
<1>. HIDE DEF node
<1>24. m'.reg[node.reg].node = d + 1
  BY <1>0, <1>16, <1>22
<1>. QED BY <1>0, <1>9, <1>16, <1>19, <1>20, <1>21, <1>22, <1>23, <1>24, PushStep

LEMMA UnaryStep == ASSUME Safe, IInv, Unary PROVE IInv'
<1>. DEFINE d == depth - 1
<1>0. /\ fresh /\ depth \in Nat /\ d \in Nat /\ d + 1 = depth /\ d < MaxDepth /\ d <= depth
      /\ depth \in 1 .. depth /\ waiting = d
      /\ depth \in 0 .. MaxDepth + 1 /\ Operator \in 0 .. MaxDepth + 1
  BY MachineAssumption DEF Unary, IInv, TypeOK, waiting, Operator
<1>1. /\ TypeOK /\ VarsPending /\ Good(m, env, {})
      /\ Guarded(m, d) /\ Held(m, d) /\ Intact(m, depth) /\ Len(operands) = depth
  BY <1>0 DEF IInv, TypeOK
<1>. PICK res \in NewTemp(m, CallerPool, Operator) : \E from \in Use(res.m, depth) :
        /\ m' = Becomes(Operand(from.m, res.r, NegOp(from.m.reg[from.r].content)),
                        res.r, depth)
        /\ stack' = Src!Reduce(stack, 1, [var |-> NoVar, reg |-> res.r])
  BY DEF Unary
<1>2. PICK from \in Use(res.m, depth) :
        /\ m' = Becomes(Operand(from.m, res.r, NegOp(from.m.reg[from.r].content)),
                        res.r, depth)
        /\ stack' = Src!Reduce(stack, 1, [var |-> NoVar, reg |-> res.r])
  OBVIOUS
<1>. DEFINE r == res.r  k == from.m  p == from.r  a == operands[depth]  x == NegOp(a)
            node == [var |-> NoVar, reg |-> r]  done == Operand(k, r, x)
<1>3. /\ Good(res.m, env, {}) /\ r \in Caller /\ r \in Reg /\ Quietly(m, res.m, r)
      /\ res.m.reg[r].var = NoVar
  BY <1>0, <1>1, NewTempShape DEF Caller
\* The operand has no lock: it is safe only outside the pool of the result.
<1>4. stack[depth].reg \notin Caller /\ stack[depth].reg \in Reg
  BY <1>0, <1>1, NodeOnStack DEF Unary, Safe, Exposed, Src!Top, depth, Caller
<1>5. Intact(res.m, depth)
  BY <1>1, <1>3, <1>4 DEF Intact, FitsIn, Quietly, Elsewhere
<1>6. Guarded(res.m, d) /\ Held(res.m, d)
  BY <1>0, <1>1, <1>3, QuietStep
<1>7. /\ Good(k, env, {}) /\ p \in Reg /\ k.reg[p].content = a
      /\ stack[depth].var # NoVar => p \in Callee
      /\ k = res.m \/ Quietly(res.m, k, p)
      /\ stack[depth].var = NoVar => p = stack[depth].reg
  BY <1>0, <1>1, <1>3, <1>5, UseShape
<1>8. Guarded(k, d) /\ Held(k, d)
  BY <1>0, <1>1, <1>6, <1>7, QuietStep
<1>9. p # r
  BY <1>3, <1>4, <1>7, PoolShape
<1>10. k.reg[r].var = NoVar /\ ~k.reg[r].locked
  BY <1>3, <1>7, <1>9 DEF Quietly, Elsewhere
<1>11. a \in Val /\ x \in Val
  BY <1>0, <1>1, NodeOnStack, OperatorAssumption
<1>12. m' = Becomes(done, r, depth)
  BY <1>2, <1>7
<1>. HIDE DEF k, p, r, a, x, d
<1>13. Good(done, env, {}) /\ Fills(k, done, r, x)
  BY <1>3, <1>7, <1>10, <1>11, FillTemp
<1>. HIDE DEF done
<1>14. /\ Good(m', env, {}) /\ Elsewhere(done, m', r)
       /\ m'.reg[r].var = NoVar /\ m'.reg[r].node = depth /\ m'.reg[r].content = x
       /\ m'.reg[r].locked = done.reg[r].locked
  BY <1>0, <1>3, <1>12, <1>13, BecomesKeepsGood DEF Fills
<1>15. Quietly(k, m', r)
  BY <1>10, <1>13, <1>14 DEF Fills, Quietly, Elsewhere
<1>16. Guarded(m', d) /\ Held(m', d)
  BY <1>0, <1>1, <1>3, <1>8, <1>15, QuietStep
<1>17. operands' = Src!Reduce(operands, 1, x)
  BY <1>1 DEF Unary, Src!Unary, Src!Top, x, a
<1>18. /\ stack' = Src!Reduce(stack, 1, node) /\ node \in Node
       /\ node.var = NoVar /\ node.reg = r
  BY <1>2, <1>3 DEF Node, r
<1>19. env' = env /\ fresh' = TRUE /\ shown' = printed'
  BY DEF Unary, Src!Unary
<1>. HIDE DEF node
<1>20. m'.reg[node.reg].node = d + 1
  BY <1>0, <1>14, <1>18
<1>. QED BY <1>0, <1>11, <1>14, <1>16, <1>17, <1>18, <1>19, <1>20, PushStep

LEMMA InitStep == Init => IInv
<1>. SUFFICES ASSUME Init PROVE IInv
  OBVIOUS
<1>1. /\ m \in Machine /\ m.mem = env /\ env \in [Vars -> Val]
      /\ \A r \in Reg : m.reg[r].var = NoVar /\ ~m.reg[r].modified /\ ~m.reg[r].locked
  <2>. DEFINE Empty == {s \in RegState : ~s.dirty /\ ~s.modified /\ ~s.locked
                                         /\ s.var = NoVar /\ s.node = 0}
  <2>1. m \in [reg : [Reg -> Empty], mem : {env}] /\ env \in [Vars -> Val]
    BY DEF Init, Src!Init
  <2>2. \A s \in Empty : s \in RegState /\ s.var = NoVar /\ ~s.modified /\ ~s.locked
    OBVIOUS
  <2>. HIDE DEF Empty
  <2>3. /\ m = [reg |-> m.reg, mem |-> m.mem] /\ m.mem = env
        /\ m.reg \in [Reg -> Empty]
    BY <2>1
  <2>4. m.reg \in [Reg -> RegState]
    BY <2>2, <2>3
  <2>. QED BY <2>1, <2>2, <2>3, <2>4 DEF Machine
<1>2. Good(m, env, {})
  BY <1>1, MachineAssumption DEF Good, CachedOnce
<1>3. /\ stack = <<>> /\ operands = <<>> /\ fresh = FALSE /\ shown = printed
  BY DEF Init, Src!Init
<1>4. depth = 0 /\ waiting = 0 /\ Len(operands) = 0
  BY <1>3, EmptySeq DEF depth, waiting
<1>5. TypeOK
  <2>1. stack \in Seq(Node) /\ operands \in Seq(Val) /\ depth \in 0 .. MaxDepth
    BY <1>3, <1>4, EmptySeq, MachineAssumption
  <2>. QED BY <1>1, <1>3, <1>4, <2>1 DEF TypeOK
<1>. QED BY <1>1, <1>2, <1>3, <1>4, <1>5 DEF IInv, Guarded, Held, VarsPending, TopHeld, OutputRight

LEMMA StutterStep == ASSUME IInv, UNCHANGED vars PROVE IInv'
<1>1. /\ m' = m /\ stack' = stack /\ fresh' = fresh /\ env' = env /\ operands' = operands
      /\ shown' = shown /\ printed' = printed
  BY DEF vars
<1>2. depth' = depth /\ waiting' = waiting
  BY <1>1 DEF depth, waiting
<1>3. TypeOK' /\ VarsPending' /\ OutputRight'
  BY <1>1, <1>2 DEF IInv, TypeOK, VarsPending, OutputRight
<1>4. Guarded(m, waiting)' /\ Held(m, waiting)' /\ (fresh => depth > 0 /\ Intact(m, depth))' /\ TopHeld'
  BY <1>1, <1>2 DEF IInv, Guarded, Held, Intact, FitsIn, TopHeld
<1>. QED BY <1>1, <1>3, <1>4 DEF IInv

LEMMA NextStep == ASSUME Safe, IInv, [Next]_vars PROVE IInv'
<1>1. ASSUME NEW c \in Val, PushConst(c) PROVE IInv'
  BY <1>1, PushConstStep
<1>2. ASSUME NEW v \in Vars, PushVar(v) PROVE IInv'
  BY <1>2, PushVarStep
<1>3. ASSUME NEW c \in Val, PushRead(c) PROVE IInv'
  BY <1>3, PushReadStep
<1>4. ASSUME NEW c \in Val, NEW junk \in Val, NEW g \in [Globals -> Val],
             PushCall(c, g, junk)
      PROVE  IInv'
  BY <1>4, PushCallStep
<1>5. CASE Hold
  BY <1>5, HoldStep
<1>6. CASE Binary
  BY <1>6, BinaryStep
<1>7. CASE Unary
  BY <1>7, UnaryStep
<1>8. ASSUME NEW v \in Vars, Assign(v) PROVE IInv'
  BY <1>8, AssignStep
<1>9. ASSUME NEW v \in Vars, DeclareInit(v) PROVE IInv'
  BY <1>9, DeclareInitStep
<1>10. CASE Emit
  BY <1>10, EmitStep
<1>11. CASE Discard
  BY <1>11, DiscardStep
<1>12. CASE Flush
  BY <1>12, FlushStep
<1>13. CASE EndList
  BY <1>13, EndListStep
<1>14. CASE UNCHANGED vars
  BY <1>14, StutterStep
<1>. QED
  BY <1>1, <1>2, <1>3, <1>4, <1>5, <1>6, <1>7, <1>8, <1>9, <1>10, <1>11, <1>12, <1>13, <1>14 DEF Next

LEMMA Invariance == ASSUME Safe PROVE Spec => []IInv
<1>1. Init => IInv
  BY InitStep
<1>2. IInv /\ [Next]_vars => IInv'
  BY NextStep
<1>. QED BY <1>1, <1>2, PTL DEF Spec

-----------------------------------------------------------------------------
(* What follows from the invariant *)

LEMMA FoundView ==
    ASSUME Good(m, env, {}), NEW v \in Vars
    PROVE  View(v) = env[v]
<1>0. CachedOnce(m)
  BY DEF Good
<1>1. CASE Fitting(m, v) = {}
  <2>1. \A r \in Reg : m.reg[r].var # v
    BY <1>0, <1>1, FittingShape
  <2>. QED BY <1>1, <2>1 DEF View, Good
<1>2. CASE Fitting(m, v) # {}
  <2>. DEFINE r == CHOOSE s \in Fitting(m, v) : TRUE
  <2>1. r \in Fitting(m, v)
    BY <1>2
  <2>. HIDE DEF r
  <2>2. r \in Reg /\ m.reg[r].var = v
    BY <1>0, <2>1, FittingShape
  <2>3. m.reg[r].content = env[v]
    BY <2>2 DEF Good, Holds
  <2>. QED BY <1>2, <2>3 DEF View, r
<1>. QED BY <1>1, <1>2

LEMMA InvTypeOK == IInv => TypeOK
BY DEF IInv

LEMMA InvCoherent == IInv => Coherent
BY FoundView DEF IInv, Coherent

LEMMA InvOperands == IInv => OperandsIntact
<1>. SUFFICES ASSUME IInv, NEW i \in 1 .. depth
              PROVE  /\ stack[i].var = NoVar => Fits(i, stack[i].reg)
                     /\ Found(i) = operands[i]
  BY DEF OperandsIntact
<1>1. Intact(m, i)
  <2>1. depth \in Nat
    BY DEF IInv, TypeOK
  <2>2. CASE fresh /\ i = depth
    BY <2>2 DEF IInv
  <2>3. CASE ~(fresh /\ i = depth)
    <3>1. i \in 1 .. waiting
      BY <2>1, <2>3 DEF waiting
    <3>. QED BY <3>1 DEF IInv, Guarded
  <2>. QED BY <2>2, <2>3
<1>2. CASE stack[i].var = NoVar
  BY <1>1, <1>2 DEF Intact, FitsIn, Fits, Found
<1>3. CASE stack[i].var # NoVar
  <2>1. stack[i].var \in Vars
    BY <1>3, NodeOnStack DEF IInv
  <2>2. View(stack[i].var) = env[stack[i].var]
    BY <2>1, FoundView DEF IInv
  <2>. QED BY <1>3, <2>2 DEF Found, IInv, VarsPending
<1>. QED BY <1>2, <1>3

LEMMA InvUnique == IInv => UniqueCache
BY DEF IInv, Good, CachedOnce, UniqueCache

LEMMA InvLocks == IInv => LocksAreHeld
<1>. SUFFICES ASSUME IInv, NEW r \in Reg, m.reg[r].locked
              PROVE  \E i \in 1 .. depth : Fits(i, r) /\ ~(fresh /\ i = depth)
  BY DEF LocksAreHeld
<1>1. PICK i \in 1 .. waiting : FitsIn(m, i, r)
  BY DEF IInv, Held
<1>2. depth \in Nat
  BY DEF IInv, TypeOK
<1>3. i \in 1 .. depth /\ ~(fresh /\ i = depth)
  BY <1>1, <1>2 DEF waiting
<1>4. Fits(i, r)
  BY <1>1 DEF FitsIn, Fits
<1>. QED BY <1>3, <1>4

LEMMA InvOutput == IInv => OutputRight
BY DEF IInv

-----------------------------------------------------------------------------
(* Locks are few *)

\* The pools are large enough for the nesting of the program.
PoolsSuffice ==
    /\ MaxDepth <= Cardinality(Callee) /\ 1 < Cardinality(Callee)
    /\ MaxDepth < Cardinality(Caller)

LEMMA PoolFinite ==
    ASSUME NEW pool, pool \in Seq(Range(pool))
    PROVE  IsFiniteSet(Range(pool))
<1>1. Len(pool) \in Nat /\ DOMAIN pool = 1 .. Len(pool)
  BY LenProperties
<1>2. pool \in Surjection(1 .. Len(pool), Range(pool))
  BY <1>1 DEF Range, Surjection
<1>3. IsFiniteSet(1 .. Len(pool))
  BY <1>1, FS_Interval
<1>. QED BY <1>2, <1>3, FS_Surjection

\* Two locked registers belong to two operands.
LEMMA LockedFew ==
    ASSUME IInv, NEW S \in SUBSET Reg, IsFiniteSet(S), \A r \in S : m.reg[r].locked
    PROVE  Cardinality(S) <= waiting
<1>. DEFINE owner == [r \in S |-> CHOOSE i \in 1 .. waiting : FitsIn(m, i, r)]
<1>1. ASSUME NEW r \in S PROVE owner[r] \in 1 .. waiting /\ FitsIn(m, owner[r], r)
  <2>1. \E i \in 1 .. waiting : FitsIn(m, i, r)
    BY DEF IInv, Held
  <2>. QED BY <2>1
<1>2. waiting \in Nat /\ CachedOnce(m)
  BY DEF IInv, TypeOK, waiting, Good
<1>3. IsFiniteSet(1 .. waiting) /\ Cardinality(1 .. waiting) = waiting
  <2>1. 1 \in Int /\ waiting \in Int
    BY <1>2
  <2>. HIDE DEF waiting
  <2>2. /\ IsFiniteSet(1 .. waiting)
        /\ Cardinality(1 .. waiting) = IF 1 > waiting THEN 0 ELSE waiting - 1 + 1
    BY <2>1, FS_Interval
  <2>. QED BY <1>2, <2>2
<1>4. Cardinality(S) \in Nat
  BY FS_CardinalityType
<1>5. owner \in [S -> 1 .. waiting]
  BY <1>1
<1>. HIDE DEF owner
<1>6. ASSUME waiting < Cardinality(S) PROVE FALSE
  <2>1. PICK r, s \in S : r # s /\ owner[r] = owner[s]
    BY <1>3, <1>5, <1>6, FS_PigeonHole
  <2>2. FitsIn(m, owner[r], r) /\ FitsIn(m, owner[r], s)
    BY <1>1, <2>1
  <2>. QED BY <1>2, <2>1, <2>2, FitsOnce
<1>. QED BY <1>2, <1>4, <1>6

LEMMA InvAvailable == ASSUME PoolsSuffice PROVE IInv => RegisterAvailable
<1>. SUFFICES ASSUME IInv PROVE RegisterAvailable
  OBVIOUS
<1>1. IsFiniteSet(Callee) /\ IsFiniteSet(Caller) /\ Callee \subseteq Reg /\ Caller \subseteq Reg
  BY PoolFinite, PoolAssumption DEF Callee, Caller, Reg
<1>2. Cardinality(Callee) \in Nat /\ Cardinality(Caller) \in Nat
  BY <1>1, FS_CardinalityType
<1>3. depth \in Nat /\ depth <= MaxDepth /\ MaxDepth \in Nat /\ waiting \in Nat /\ waiting <= depth
  BY MachineAssumption DEF IInv, TypeOK, waiting
<1>4. ASSUME depth < MaxDepth \/ depth = 1, \A r \in Callee : m.reg[r].locked PROVE FALSE
  <2>1. Cardinality(Callee) <= waiting
    BY <1>1, <1>4, LockedFew
  <2>. QED BY <1>2, <1>3, <1>4, <2>1 DEF PoolsSuffice
<1>5. ASSUME \A r \in Caller : m.reg[r].locked PROVE FALSE
  <2>1. Cardinality(Caller) <= waiting
    BY <1>1, <1>5, LockedFew
  <2>. QED BY <1>2, <1>3, <2>1 DEF PoolsSuffice
<1>. QED BY <1>4, <1>5 DEF RegisterAvailable

-----------------------------------------------------------------------------
(* Every step of the compiled program is a step of the program, or none *)

\* What the compiled program means at this point is what the program means.
SameMeaning ==
    /\ [v \in Vars |-> View(v)] = env
    /\ [i \in 1 .. depth |-> Found(i)] = operands
    /\ shown = printed

LEMMA Mapping == IInv => SameMeaning
<1>. SUFFICES ASSUME IInv PROVE SameMeaning
  OBVIOUS
<1>1. [v \in Vars |-> View(v)] = env
  <2>1. env \in [Vars -> Val] /\ \A v \in Vars : View(v) = env[v]
    BY FoundView DEF IInv, TypeOK
  <2>. QED BY <2>1
<1>2. [i \in 1 .. depth |-> Found(i)] = operands
  <2>1. operands \in Seq(Val) /\ Len(operands) = depth /\ depth \in Nat
    BY DEF IInv, TypeOK
  <2>2. \A i \in 1 .. depth : Found(i) = operands[i]
    BY InvOperands DEF OperandsIntact
  <2>3. DOMAIN operands = 1 .. depth /\ operands = [i \in 1 .. depth |-> operands[i]]
    BY <2>1
  <2>. QED BY <2>2, <2>3
<1>. QED BY <1>1, <1>2 DEF IInv, OutputRight, SameMeaning

LEMMA MappingNext == IInv' => SameMeaning'
BY Mapping, PTL

LEMMA MappedInit == Init => Compiled!Init
BY InitStep, Mapping DEF SameMeaning, Init, Src!Init, Compiled!Init

\* With the meanings equal, Source's actions are the same on either side.
LEMMA SameActions ==
    ASSUME SameMeaning, SameMeaning'
    PROVE  /\ Src!Next => Compiled!Next
           /\ UNCHANGED meaning => UNCHANGED Compiled!vars
<1>. DEFINE e == [v \in Vars |-> View(v)]  o == [i \in 1 .. depth |-> Found(i)]
<1>0. /\ e = env /\ o = operands /\ shown = printed
      /\ e' = env' /\ o' = operands' /\ shown' = printed'
  BY DEF SameMeaning
<1>. HIDE DEF e, o
<1>1. ASSUME NEW c \in Val, Src!PushValue(c) PROVE Compiled!PushValue(c)
  BY <1>0, <1>1 DEF Src!PushValue, Compiled!PushValue, Src!Reduce, Compiled!Reduce, e, o
<1>2. ASSUME NEW v \in Vars, Src!PushVar(v) PROVE Compiled!PushVar(v)
  BY <1>0, <1>2 DEF Src!PushVar, Compiled!PushVar, Src!Reduce, Compiled!Reduce, e, o
<1>3. ASSUME NEW c \in Val, NEW g \in [Globals -> Val], Src!PushCall(c, g)
      PROVE  Compiled!PushCall(c, g)
  BY <1>0, <1>3 DEF Src!PushCall, Compiled!PushCall, Src!Reduce, Compiled!Reduce, e, o
<1>4. ASSUME Src!Binary PROVE Compiled!Binary
  BY <1>0, <1>4 DEF Src!Binary, Compiled!Binary, Src!Reduce, Compiled!Reduce,
                    Src!Top, Compiled!Top, e, o
<1>5. ASSUME Src!Unary PROVE Compiled!Unary
  BY <1>0, <1>5 DEF Src!Unary, Compiled!Unary, Src!Reduce, Compiled!Reduce,
                    Src!Top, Compiled!Top, e, o
<1>6. ASSUME NEW v \in Vars, Src!Assign(v) PROVE Compiled!Assign(v)
  BY <1>0, <1>6 DEF Src!Assign, Compiled!Assign, e, o
<1>7. ASSUME Src!Emit PROVE Compiled!Emit
  BY <1>0, <1>7 DEF Src!Emit, Compiled!Emit, e, o
<1>8. ASSUME Src!Discard PROVE Compiled!Discard
  BY <1>0, <1>8 DEF Src!Discard, Compiled!Discard, e, o
<1>9. ASSUME UNCHANGED meaning PROVE UNCHANGED Compiled!vars
  BY <1>0, <1>9 DEF meaning, Compiled!vars, e, o
<1>. QED
  BY <1>1, <1>2, <1>3, <1>4, <1>5, <1>6, <1>7, <1>8, <1>9 DEF Src!Next, Compiled!Next

\* A step of the generator carries its step of the program inside, if any.
LEMMA StepMeans == [Next]_vars => Src!Next \/ UNCHANGED meaning
<1>. SUFFICES ASSUME [Next]_vars PROVE Src!Next \/ UNCHANGED meaning
  OBVIOUS
<1>1. ASSUME NEW c \in Val, PushConst(c) \/ PushRead(c) PROVE Src!Next
  BY <1>1 DEF PushConst, PushRead, Src!Next
<1>2. ASSUME NEW v \in Vars, PushVar(v) PROVE Src!Next
  BY <1>2 DEF PushVar, Src!Next
<1>3. ASSUME NEW c \in Val, NEW junk \in Val, NEW g \in [Globals -> Val],
             PushCall(c, g, junk)
      PROVE  Src!Next
  BY <1>3 DEF PushCall, Src!Next
<1>4. ASSUME Binary \/ Unary \/ Emit \/ Discard PROVE Src!Next
  BY <1>4 DEF Binary, Unary, Emit, Discard, Src!Next
<1>5. ASSUME NEW v \in Vars, Assign(v) \/ DeclareInit(v) PROVE Src!Next
  BY <1>5 DEF Assign, DeclareInit, Src!Next
<1>6. ASSUME Hold \/ Flush \/ EndList \/ UNCHANGED vars PROVE UNCHANGED meaning
  BY <1>6 DEF Hold, Flush, EndList, vars, meaning
<1>. QED BY <1>1, <1>2, <1>3, <1>4, <1>5, <1>6 DEF Next

LEMMA MappedStep == IInv /\ IInv' /\ [Next]_vars => [Compiled!Next]_(Compiled!vars)
BY Mapping, MappingNext, StepMeans, SameActions

-----------------------------------------------------------------------------
(* The theorems *)

\* Registers, memory and pending operands keep their shape: no step of the
\* generator refers to a register or a node that is not there.
THEOREM TypeCorrect == ASSUME Safe PROVE Spec => []TypeOK
BY Invariance, InvTypeOK, PTL

\* The register cache of RegisterSystem is coherent: a use of a variable finds
\* its C-- value, whichever registers findVacant evicted before.
THEOREM CacheCoherent == ASSUME Safe PROVE Spec => []Coherent
BY Invariance, InvCoherent, PTL

\* A value that genExprNode generated for a parent is in its register when the
\* parent uses it.
THEOREM OperandsStayIntact == ASSUME Safe PROVE Spec => []OperandsIntact
BY Invariance, InvOperands, PTL

\* getTempReg never gives a second register to a variable that has one.
THEOREM CachedOnlyOnce == ASSUME Safe PROVE Spec => []UniqueCache
BY Invariance, InvUnique, PTL

\* Every lock that genExprNode and genAssignStmt set is released with its operand.
THEOREM LocksReleased == ASSUME Safe PROVE Spec => []LocksAreHeld
BY Invariance, InvLocks, PTL

\* findVacant never finds its pool all locked, and so never spins, as long as an
\* expression does not keep more operands waiting than the pools have room for.
THEOREM NeverOutOfRegisters ==
    ASSUME Safe, PoolsSuffice PROVE Spec => []RegisterAvailable
BY Invariance, InvAvailable, PTL

\* Compiled straight-line code writes, returns and branches on the values that
\* C-- prescribes.
THEOREM OutputCorrect == ASSUME Safe PROVE Spec => []OutputRight
BY Invariance, InvOutput, PTL

\* The generator implements Source: seen through its registers and its memory,
\* the emitted code takes the program's own steps, in the program's order.
THEOREM GeneratorImplementsSource == ASSUME Safe PROVE Spec => ImplementsSource
<1>1. Spec => []IInv
  BY Invariance
<1>. QED BY <1>1, MappedInit, MappedStep, PTL DEF Spec, ImplementsSource, Compiled!Spec
=============================================================================
