----------------------------- MODULE FrontEndProofs -----------------------------
(***************************************************************************)
(* Proofs about FrontEnd: the messages and the types of semantic analysis, *)
(* for expressions of any depth over any names, the symbol table with the  *)
(* layout of arrays, and links and trees of the AST for any program.       *)
(***************************************************************************)
EXTENDS FrontEnd, FiniteSetTheorems, SequenceTheorems, WellFoundedInduction, TLAPS

-----------------------------------------------------------------------------
(* The stack of checked nodes *)

FlawKinds == {"void", "function name", "subscript", "condition", "folded type"}

LEMMA TopShape ==
    ASSUME stack \in Seq(Node), NEW k \in Nat, k <= Len(stack)
    PROVE  /\ Top(k) \in Seq(Node) /\ Len(Top(k)) = k /\ DOMAIN Top(k) = 1 .. k
           /\ \A i \in 1 .. k : Top(k)[i] = stack[Len(stack) - k + i]
           /\ \A i \in 1 .. k : Len(stack) - k + i \in DOMAIN stack /\ Top(k)[i] \in Node
<1>. DEFINE n == Len(stack)  a == n - k + 1  t == Top(k)
<1>1. n \in Nat /\ a \in Int /\ DOMAIN stack = 1 .. n /\ n - a + 1 = k
  BY LenProperties
<1>2. \A i \in a .. n : stack[i] \in Node
  BY <1>1, ElementOfSeq
<1>3. t = SubSeq(stack, a, n)
  BY DEF Top
<1>. HIDE DEF t
<1>4. /\ t \in Seq(Node) /\ Len(t) = IF a <= n THEN n - a + 1 ELSE 0
      /\ \A i \in 1 .. n - a + 1 : t[i] = stack[a + i - 1]
  BY <1>1, <1>2, <1>3, SubSeqProperties
<1>5. Len(t) = k /\ DOMAIN t = 1 .. k
  BY <1>1, <1>4, LenProperties
<1>6. ASSUME NEW i \in 1 .. k
      PROVE  /\ t[i] = stack[n - k + i] /\ n - k + i \in DOMAIN stack
             /\ n - k + i \in a .. n
  <2>1. a + i - 1 = n - k + i /\ i \in 1 .. n - a + 1 /\ n - k + i \in 1 .. n
    BY <1>1
  <2>. QED BY <1>1, <1>4, <2>1
<1>. QED BY <1>2, <1>4, <1>5, <1>6 DEF t

LEMMA PushShape ==
    ASSUME stack \in Seq(Node), NEW k \in Nat, k <= Len(stack), NEW node \in Node, Push(k, node)
    PROVE  /\ stack' \in Seq(Node) /\ Len(stack') = Len(stack) - k + 1
           /\ DOMAIN stack' = 1 .. Len(stack) - k + 1
           /\ \A i \in 1 .. Len(stack) - k : stack'[i] = stack[i] /\ i \in DOMAIN stack
           /\ stack'[Len(stack) - k + 1] = node
<1>. DEFINE n == Len(stack) - k  t == Rest(k)
<1>1. Len(stack) \in Nat /\ n \in Int /\ 1 \in Int /\ n >= 0 /\ n - 1 + 1 = n /\ DOMAIN stack = 1 .. Len(stack)
  BY LenProperties
<1>2. \A i \in 1 .. n : stack[i] \in Node /\ i \in DOMAIN stack
  BY <1>1, ElementOfSeq
<1>3. t = SubSeq(stack, 1, n)
  BY DEF Rest
<1>. HIDE DEF t, n
<1>4. /\ t \in Seq(Node) /\ Len(t) = IF 1 <= n THEN n - 1 + 1 ELSE 0
      /\ \A i \in 1 .. n - 1 + 1 : t[i] = stack[1 + i - 1]
  BY <1>1, <1>2, <1>3, SubSeqProperties
<1>5. Len(t) = n
  BY <1>1, <1>4
<1>6. ASSUME NEW i \in 1 .. n PROVE t[i] = stack[i]
  <2>1. i \in 1 .. n - 1 + 1 /\ 1 + i - 1 = i
    BY <1>1
  <2>. QED BY <1>4, <2>1
<1>7. stack' = Append(t, node)
  BY DEF Push, t
<1>8. /\ stack' \in Seq(Node) /\ Len(stack') = n + 1
      /\ \A i \in 1 .. n : stack'[i] = t[i]
      /\ stack'[n + 1] = node
  BY <1>4, <1>5, <1>7, AppendProperties
<1>9. DOMAIN stack' = 1 .. n + 1
  BY <1>8, LenProperties
<1>. QED BY <1>2, <1>6, <1>8, <1>9 DEF n

-----------------------------------------------------------------------------
(* The inductive invariant *)

\* A node of a program without messages has the type of the language.
Sound(n) == n.type = n.rule /\ n.type # "ERROR"

\* The fields that say whether it is constant, and of what value, are right.
Faithful(n) ==
    /\ n.kind = "const" => (n.constant <=> n.type # "STRING")
    /\ n.kind \in {"id", "call"} => ~n.constant
    /\ n.kind = "expr" => n.type # "STRING" /\ (n.folded <=> n.constant)
    /\ (n.constant /\ n.type = "INT") => n.value = n.exact

\* No message yet, nothing wrong yet, and no use that nobody checks.
Calm == flaws = {} /\ ~reported /\ ~wrong

CheckInv ==
    /\ NodesOK
    /\ flaws = {} => (reported <=> wrong)
    /\ Calm => \A i \in DOMAIN stack : Sound(stack[i])
    /\ (Calm /\ ~crashed) => \A i \in DOMAIN stack : Faithful(stack[i])

\* A step that puts a node in the place of k others.
LEMMA PushStep ==
    ASSUME CheckInv, NEW k \in Nat, k <= Len(stack), Len(stack) - k < MaxStack,
           NEW node \in Node, Push(k, node), ~crashed, crashed' \in BOOLEAN,
           NEW p, NEW q, NEW w, w \subseteq FlawKinds, Complain(p), Break(q), Miss(w),
           (Calm /\ w = {}) => (p <=> q),
           (Calm /\ w = {} /\ ~p) => Sound(node),
           (Calm /\ w = {} /\ ~p /\ ~crashed') => Faithful(node)
    PROVE  CheckInv'
<1>1. /\ stack' \in Seq(Node) /\ Len(stack') = Len(stack) - k + 1
      /\ DOMAIN stack' = 1 .. Len(stack) - k + 1
      /\ \A i \in 1 .. Len(stack) - k : stack'[i] = stack[i] /\ i \in DOMAIN stack
      /\ stack'[Len(stack) - k + 1] = node
  BY PushShape DEF CheckInv, NodesOK
<1>2. reported' = (reported \/ p) /\ wrong' = (wrong \/ q) /\ flaws' = flaws \cup w
  BY DEF Complain, Break, Miss
<1>3. Len(stack) \in Nat /\ MaxStack \in Nat
  BY LenProperties, ProgramAssumption DEF CheckInv, NodesOK
<1>4. NodesOK'
  <2>1. reported' \in BOOLEAN /\ wrong' \in BOOLEAN /\ flaws' \subseteq FlawKinds
    BY <1>2 DEF CheckInv, NodesOK, FlawKinds
  <2>2. Len(stack') <= MaxStack
    BY <1>1, <1>3
  <2>. QED BY <1>1, <2>1, <2>2 DEF NodesOK, FlawKinds
<1>5. flaws' = {} => (reported' <=> wrong')
  BY <1>2 DEF CheckInv, Calm
<1>6. ASSUME Calm' PROVE Calm /\ w = {} /\ ~p
  BY <1>2, <1>6 DEF Calm
<1>7. ASSUME Calm', NEW i \in DOMAIN stack' PROVE Sound(stack'[i])
  <2>1. CASE i \in 1 .. Len(stack) - k
    BY <1>1, <1>6, <1>7, <2>1 DEF CheckInv
  <2>2. CASE i = Len(stack) - k + 1
    BY <1>1, <1>6, <1>7, <2>2
  <2>. QED BY <1>1, <1>3, <2>1, <2>2
<1>8. ASSUME Calm', ~crashed', NEW i \in DOMAIN stack' PROVE Faithful(stack'[i])
  <2>1. CASE i \in 1 .. Len(stack) - k
    BY <1>1, <1>6, <1>8, <2>1 DEF CheckInv
  <2>2. CASE i = Len(stack) - k + 1
    BY <1>1, <1>6, <1>8, <2>2
  <2>. QED BY <1>1, <1>3, <2>1, <2>2
<1>. QED BY <1>4, <1>5, <1>7, <1>8 DEF CheckInv

\* A step that ends a statement.
LEMMA StatementStep ==
    ASSUME CheckInv, stack' = <<>>, crashed' = crashed,
           NEW p, NEW q, NEW w, w \subseteq FlawKinds, Complain(p), Break(q), Miss(w),
           (Calm /\ w = {}) => (p <=> q)
    PROVE  CheckInv'
<1>1. stack' \in Seq(Node) /\ Len(stack') = 0 /\ DOMAIN stack' = {} /\ 0 <= MaxStack
  BY EmptySeq, ProgramAssumption
<1>2. reported' = (reported \/ p) /\ wrong' = (wrong \/ q) /\ flaws' = flaws \cup w
  BY DEF Complain, Break, Miss
<1>3. NodesOK'
  BY <1>1, <1>2 DEF CheckInv, NodesOK, FlawKinds
<1>4. flaws' = {} => (reported' <=> wrong')
  BY <1>2 DEF CheckInv, Calm
<1>. QED BY <1>1, <1>3, <1>4 DEF CheckInv

LEMMA CheckStart == CheckInit => CheckInv
<1>1. <<>> \in Seq(Node) /\ Len(<<>>) = 0 /\ DOMAIN <<>> = {} /\ 0 <= MaxStack
  BY EmptySeq, ProgramAssumption
<1>2. ASSUME CheckInit PROVE NodesOK
  BY <1>1, <1>2 DEF CheckInit, NodesOK
<1>. QED BY <1>1, <1>2 DEF CheckInit, CheckInv

-----------------------------------------------------------------------------
(* Leaves and uses of names *)

LEMMA LeafShape ==
    ASSUME NEW t \in Types, NEW kind \in {"id", "call"}, NEW rule \in Types \cup {"WRONG"}
    PROVE  /\ Leaf(t, kind, rule) \in Node /\ Faithful(Leaf(t, kind, rule))
           /\ Leaf(t, kind, rule).type = t /\ Leaf(t, kind, rule).rule = rule
BY ProgramAssumption DEF Leaf, Node, Faithful

LEMMA RoomShape ==
    ASSUME CheckInv, Room
    PROVE  /\ ~crashed /\ crashed \in BOOLEAN /\ 0 <= Len(stack) /\ Len(stack) - 0 < MaxStack
<1>1. Len(stack) \in Nat
  BY LenProperties DEF CheckInv, NodesOK
<1>2. crashed \in BOOLEAN
  BY DEF CheckInv, NodesOK
<1>3. ~crashed /\ Len(stack) < MaxStack
  BY DEF Room
<1>4. 0 <= Len(stack) /\ Len(stack) - 0 < MaxStack
  BY <1>1, <1>3, ProgramAssumption
<1>. QED BY <1>2, <1>3, <1>4

LEMMA ConstStep == ASSUME CheckInv, Const PROVE CheckInv'
<1>1. PICK c \in Constants :
          Push(0, [Leaf(c.type, "const", c.type) EXCEPT
                   !.value = c.value, !.constant = c.type # "STRING", !.exact = c.value])
  BY DEF Const
<1>. DEFINE b == c.type # "STRING"
            n == [Leaf(c.type, "const", c.type) EXCEPT
                   !.value = c.value, !.constant = b, !.exact = c.value]
<1>2. c.type \in {"INT", "FLOAT", "STRING"} /\ c.value \in -MaxValue .. MaxValue
  BY ProgramAssumption
<1>3. b \in BOOLEAN /\ Push(0, n)
  BY <1>1
<1>. HIDE DEF b
<1>4. /\ n \in Node /\ n.type = c.type /\ n.rule = c.type /\ n.kind = "const"
      /\ n.constant = b /\ n.value = n.exact
  BY <1>2, <1>3, ProgramAssumption DEF Leaf, Node, Types
<1>. HIDE DEF n
<1>5. Sound(n) /\ Faithful(n)
  BY <1>2, <1>4 DEF Sound, Faithful, b
<1>6. Complain(FALSE) /\ Break(FALSE) /\ Miss({}) /\ crashed' = crashed
  BY DEF Const, Complain, Break, Miss, CheckInv, NodesOK
<1>7. Room
  BY DEF Const
<1>. QED BY <1>3, <1>4, <1>5, <1>6, <1>7, RoomShape, PushStep

\* The nodes on top of the stack, as the rules see them and as the checker does.
LEMMA OperandShape ==
    ASSUME CheckInv, NEW k \in Nat, k <= Len(stack)
    PROVE  /\ Len(Top(k)) = k /\ DOMAIN Top(k) = 1 .. k /\ stack \in Seq(Node) /\ Len(stack) \in Nat
           /\ \A i \in 1 .. k : /\ Top(k)[i] \in Node
                                /\ Calm => Sound(Top(k)[i])
                                /\ (Calm /\ ~crashed) => Faithful(Top(k)[i])
<1>1. stack \in Seq(Node) /\ Len(stack) \in Nat
  BY LenProperties DEF CheckInv, NodesOK
<1>2. /\ Len(Top(k)) = k /\ DOMAIN Top(k) = 1 .. k
      /\ \A i \in 1 .. k : Top(k)[i] = stack[Len(stack) - k + i]
      /\ \A i \in 1 .. k : Len(stack) - k + i \in DOMAIN stack /\ Top(k)[i] \in Node
  BY <1>1, TopShape
<1>. QED BY <1>1, <1>2 DEF CheckInv

\* The subscripts of a variable that no message is about are integers.
LEMMA SubscriptShape ==
    ASSUME NEW subs, NEW k \in Nat, DOMAIN subs = 1 .. k, Len(subs) = k,
           \A i \in 1 .. k : subs[i] \in Node /\ Sound(subs[i]), OddSubscripts(subs) = {}
    PROVE  /\ BadSubscript(subs) <=> FloatSubscript(subs)
           /\ Len(Rules(subs)) = k /\ DOMAIN Rules(subs) = 1 .. k
           /\ (\E i \in DOMAIN Rules(subs) : Rules(subs)[i] # "INT") <=> FloatSubscript(subs)
<1>1. \A i \in 1 .. k : subs[i].type \in {"INT", "FLOAT"} /\ subs[i].rule = subs[i].type
  BY DEF OddSubscripts, Sound
<1>. DEFINE q == Rules(subs)
<1>2. q = [i \in 1 .. k |-> subs[i].rule]
  BY DEF Rules
<1>. HIDE DEF q
<1>3. q \in Seq({"INT", "FLOAT"}) /\ Len(q) = k /\ DOMAIN q = 1 .. k
  BY <1>1, <1>2
<1>. QED BY <1>1, <1>2, <1>3 DEF BadSubscript, FloatSubscript, q

LEMMA VariableStep ==
    ASSUME CheckInv, NEW s \in VarNames, NEW k \in Nat, VariableRValue(s, k)
    PROVE  CheckInv'
<1>. DEFINE e == Symbols[s]  subs == Top(k)  rule == RuleUse(s, Rules(subs))
<1>1. /\ ~crashed /\ k <= Len(stack) /\ Len(stack) - k < MaxStack /\ crashed' \in BOOLEAN
  BY DEF VariableRValue, CheckInv, NodesOK
<1>2. e.elem \in {"INT", "FLOAT", "VOID"} /\ e.dim \in Nat
  BY SymbolsAssumption
<1>3. CASE Push(k, Leaf("ERROR", "id", "WRONG")) /\ Complain(TRUE) /\ Break(TRUE) /\ Miss({})
  <2>1. Leaf("ERROR", "id", "WRONG") \in Node
    BY LeafShape DEF Types
  <2>. QED BY <1>1, <1>3, <2>1, PushStep
<1>4. CASE /\ \E t \in Types : Push(k, Leaf(t, "id", "WRONG"))
           /\ Complain(FALSE) /\ Break(TRUE) /\ Miss({"function name"})
  <2>1. PICK t \in Types : Push(k, Leaf(t, "id", "WRONG"))
    BY <1>4
  <2>2. Leaf(t, "id", "WRONG") \in Node
    BY LeafShape
  <2>. QED BY <1>1, <1>4, <2>1, <2>2, PushStep DEF FlawKinds
<1>5. CASE /\ e.kind = "VARIABLE"
           /\ LET t == IF BadSubscript(subs) THEN "ERROR" ELSE RValueType(e, k) IN
              /\ Push(k, Leaf(t, "id", rule))
              /\ Complain(FloatSubscript(subs) \/ (~BadSubscript(subs) /\ k > e.dim))
              /\ Break(rule = "WRONG")
              /\ Miss(OddSubscripts(subs))
  <2>. DEFINE t == IF BadSubscript(subs) THEN "ERROR" ELSE RValueType(e, k)
              p == FloatSubscript(subs) \/ (~BadSubscript(subs) /\ k > e.dim)
              w == OddSubscripts(subs)
  <2>1. t \in Types /\ rule \in Types \cup {"WRONG"} /\ w \subseteq FlawKinds
    BY <1>2 DEF RValueType, RuleUse, PointerTo, Types, OddSubscripts, FlawKinds
  <2>2. /\ Leaf(t, "id", rule) \in Node /\ Faithful(Leaf(t, "id", rule))
        /\ Leaf(t, "id", rule).type = t /\ Leaf(t, "id", rule).rule = rule
    BY <2>1, LeafShape
  <2>3. ASSUME Calm, w = {} PROVE (p <=> rule = "WRONG") /\ (~p => t = rule /\ t # "ERROR")
    <3>1. /\ Len(subs) = k /\ DOMAIN subs = 1 .. k
          /\ \A i \in 1 .. k : subs[i] \in Node /\ Sound(subs[i])
      BY <1>1, <2>3, OperandShape
    <3>2. /\ BadSubscript(subs) <=> FloatSubscript(subs)
          /\ Len(Rules(subs)) = k
          /\ (\E i \in DOMAIN Rules(subs) : Rules(subs)[i] # "INT") <=> FloatSubscript(subs)
      BY <2>3, <3>1, SubscriptShape
    <3>3. rule = IF FloatSubscript(subs) \/ k > e.dim THEN "WRONG"
                 ELSE IF k = e.dim THEN e.elem ELSE PointerTo(e.elem)
      BY <1>2, <1>5, <3>2 DEF RuleUse
    <3>. QED BY <1>2, <3>2, <3>3 DEF RValueType, PointerTo
  <2>4. /\ Push(k, Leaf(t, "id", rule)) /\ Complain(p) /\ Break(rule = "WRONG") /\ Miss(w)
    BY <1>5
  <2>. HIDE DEF t, p, w, rule
  <2>. QED BY <1>1, <2>1, <2>2, <2>3, <2>4, PushStep DEF Sound
<1>. QED BY <1>3, <1>4, <1>5 DEF VariableRValue

\* A use or a call that is refused at once.
LEMMA RefusedStep ==
    ASSUME CheckInv, Room, NEW kind \in {"id", "call"}, Push(0, Leaf("ERROR", kind, "WRONG")),
           Complain(TRUE), Break(TRUE), UNCHANGED <<crashed, flaws>>
    PROVE  CheckInv'
<1>1. Leaf("ERROR", kind, "WRONG") \in Node
  BY LeafShape DEF Types
<1>2. Miss({}) /\ crashed' \in BOOLEAN
  BY RoomShape DEF Miss
<1>. QED BY <1>1, <1>2, RoomShape, PushStep

-----------------------------------------------------------------------------
(* Constant folding *)

Range32 == -MaxValue .. MaxValue
Foldable == Comparisons \cup {"ADD", "SUB", "MUL", "DIV", "NEG", "NOT"}

LEMMA SquareOrder ==
    ASSUME NEW x \in Int, NEW y \in Nat, x * x < y * y
    PROVE  -y < x /\ x < y
<1>1. ASSUME x >= y PROVE FALSE
  <2>1. x * x >= x * y /\ x * y >= y * y
    BY <1>1
  <2>. QED BY <2>1
<1>2. ASSUME -x >= y PROVE FALSE
  <2>. DEFINE z == -x
  <2>1. z \in Int /\ z >= y /\ z * z = x * x
    BY <1>2
  <2>2. z * z >= z * y /\ z * y >= y * y
    BY <2>1
  <2>. QED BY <2>1, <2>2
<1>. QED BY <1>1, <1>2

\* What the language calls the quotient is at most one number.
LEMMA QuotientUnique ==
    ASSUME NEW a \in Int, NEW b \in Nat \ {0}, NEW q \in Int, NEW u \in Int,
           NEW m1 \in Int, NEW m2 \in Int,
           a = q * b + m1, a = u * b + m2,
           -b < m1, m1 < b, -b < m2, m2 < b, m1 * a >= 0, m2 * a >= 0
    PROVE  q = u
<1>1. (q - u) * b = m2 - m1
  OBVIOUS
<1>2. CASE a = 0
  <2>1. q * b = -m1 /\ u * b = -m2
    BY <1>2
  <2>2. ASSUME NEW x \in Int, -b < x * b, x * b < b PROVE x = 0
    <3>1. ASSUME x >= 1 PROVE FALSE
      <4>1. x * b >= 1 * b
        BY <3>1
      <4>. QED BY <2>2, <4>1
    <3>2. ASSUME x <= -1 PROVE FALSE
      <4>1. x * b <= (-1) * b
        BY <3>2
      <4>. QED BY <2>2, <4>1
    <3>. QED BY <3>1, <3>2
  <2>3. q = 0 /\ u = 0
    BY <2>1, <2>2
  <2>. QED BY <2>3
<1>3. CASE a # 0
  <2>1. -b < m2 - m1 /\ m2 - m1 < b
    <3>1. CASE a > 0
      <4>1. m1 >= 0 /\ m2 >= 0
        BY <3>1
      <4>. QED BY <4>1
    <3>2. CASE a < 0
      <4>1. m1 <= 0 /\ m2 <= 0
        BY <3>2
      <4>. QED BY <4>1
    <3>. QED BY <1>3, <3>1, <3>2
  <2>. DEFINE x == q - u
  <2>2. x \in Int /\ -b < x * b /\ x * b < b
    BY <1>1, <2>1
  <2>. HIDE DEF x
  <2>3. ASSUME x >= 1 PROVE FALSE
    <3>1. x * b >= 1 * b
      BY <2>2, <2>3
    <3>. QED BY <2>2, <3>1
  <2>4. ASSUME x <= -1 PROVE FALSE
    <3>1. x * b <= (-1) * b
      BY <2>2, <2>4
    <3>. QED BY <2>2, <3>1
  <2>5. x = 0
    BY <2>2, <2>3, <2>4
  <2>. QED BY <2>5 DEF x
<1>. QED BY <1>2, <1>3

\* The remainders of a division by b.
Leaves(a, b, q, rem) == a = q * b + rem /\ rem * rem < b * b /\ rem * a >= 0

LEMMA LeavesOne ==
    ASSUME NEW a \in Int, NEW b \in Int, b # 0, NEW q \in Int, NEW u \in Int,
           NEW m1 \in Int, NEW m2 \in Int, Leaves(a, b, q, m1), Leaves(a, b, u, m2)
    PROVE  q = u
<1>. DEFINE c == IF b < 0 THEN -b ELSE b
<1>1. c \in Nat \ {0} /\ c * c = b * b
  OBVIOUS
<1>2. c = b \/ c = -b
  OBVIOUS
<1>. HIDE DEF c
<1>3. -c < m1 /\ m1 < c /\ -c < m2 /\ m2 < c
  BY <1>1, SquareOrder DEF Leaves
<1>4. CASE c = b
  BY <1>1, <1>3, <1>4, QuotientUnique DEF Leaves
<1>5. CASE c = -b
  <2>. DEFINE x == -q  y == -u
  <2>1. x \in Int /\ y \in Int /\ a = x * c + m1 /\ a = y * c + m2
    BY <1>5 DEF Leaves
  <2>. HIDE DEF x, y
  <2>2. x = y
    BY <1>1, <1>3, <2>1, QuotientUnique DEF Leaves
  <2>. QED BY <2>2 DEF x, y
<1>. QED BY <1>2, <1>4, <1>5

LEMMA DivisionShape ==
    ASSUME NEW n \in Nat, NEW c \in Nat \ {0}
    PROVE  /\ n \div c \in Nat /\ n % c \in Nat /\ n % c < c
           /\ n = (n \div c) * c + (n % c)
           /\ n \div c <= n /\ n % c <= n
<1>. DEFINE q == n \div c  m == n % c
<1>1. q \in Int /\ m \in Nat /\ m < c /\ n = q * c + m
  OBVIOUS
<1>. HIDE DEF q, m
<1>2. q >= 0
  <2>1. ASSUME q <= -1 PROVE FALSE
    <3>1. q * c <= (-1) * c
      BY <1>1, <2>1
    <3>. QED BY <1>1, <3>1
  <2>. QED BY <1>1, <2>1
<1>3. q * c >= q
  BY <1>1, <1>2
<1>4. q <= n /\ m <= n
  <2>. DEFINE z == q * c
  <2>1. z \in Int /\ z >= q /\ z >= 0 /\ n = z + m
    BY <1>1, <1>2, <1>3
  <2>. HIDE DEF z
  <2>. QED BY <1>1, <1>2, <2>1
<1>5. q \in Nat
  BY <1>1, <1>2
<1>6. n = q * c + m
  BY <1>1
<1>. QED BY <1>1, <1>4, <1>5, <1>6 DEF q, m

\* Dividing the sizes and setting the sign gives the quotient of the language.
LEMMA DividedLeaves ==
    ASSUME NEW a \in Range32, NEW b \in Range32, b # 0
    PROVE  /\ Divided(a, b) \in Range32
           /\ \E rem \in Range32 : Leaves(a, b, Divided(a, b), rem)
<1>0. MaxValue \in Nat /\ a \in Int /\ b \in Int
  BY ProgramAssumption DEF Range32
<1>. DEFINE n == IF a < 0 THEN -a ELSE a
            c == IF b < 0 THEN -b ELSE b
            q == n \div c  m0 == n % c
            s == Divided(a, b)  rem == IF a < 0 THEN -m0 ELSE m0
<1>1. n \in Nat /\ c \in Nat \ {0} /\ n <= MaxValue
  BY <1>0 DEF Range32
<1>2. /\ q \in Nat /\ m0 \in Nat /\ m0 < c /\ n = q * c + m0 /\ q <= n /\ m0 <= n
  BY <1>1, DivisionShape
<1>3. s = IF (a < 0) = (b < 0) THEN q ELSE -q
  BY DEF Divided
<1>. HIDE DEF q, m0, s
<1>4. s \in Range32 /\ rem \in Range32
  BY <1>0, <1>1, <1>2, <1>3 DEF Range32
<1>5. rem * rem = m0 * m0 /\ b * b = c * c
  BY <1>0, <1>2
<1>6. m0 * m0 < c * c
  <2>1. m0 * m0 <= m0 * c /\ m0 * c < c * c
    BY <1>1, <1>2
  <2>. QED BY <1>1, <1>2, <2>1
<1>7. rem * a >= 0
  <2>1. CASE a < 0
    <3>1. rem * a = m0 * n
      BY <1>0, <1>2, <2>1
    <3>. QED BY <1>1, <1>2, <3>1
  <2>2. CASE ~(a < 0)
    <3>1. rem * a = m0 * n
      BY <1>0, <1>2, <2>2
    <3>. QED BY <1>1, <1>2, <3>1
  <2>. QED BY <2>1, <2>2
<1>8. a = s * b + rem
  <2>. DEFINE z == q * c
  <2>0. z \in Int /\ n = z + m0 /\ m0 \in Int
    BY <1>1, <1>2
  <2>1. q * c = z /\ (-q) * c = -z /\ q * (-c) = -z /\ (-q) * (-c) = z
    BY <1>1, <1>2
  <2>2. s * b = IF a < 0 THEN -z ELSE z
    <3>. HIDE DEF z
    <3>1. CASE a < 0 /\ b < 0
      <4>1. s = q /\ b = -c
        BY <1>0, <1>3, <3>1
      <4>. QED BY <2>1, <3>1, <4>1
    <3>2. CASE a < 0 /\ ~(b < 0)
      <4>1. s = -q /\ b = c
        BY <1>3, <3>2
      <4>. QED BY <2>1, <3>2, <4>1
    <3>3. CASE ~(a < 0) /\ b < 0
      <4>1. s = -q /\ b = -c
        BY <1>0, <1>3, <3>3
      <4>. QED BY <2>1, <3>3, <4>1
    <3>4. CASE ~(a < 0) /\ ~(b < 0)
      <4>1. s = q /\ b = c
        BY <1>3, <3>4
      <4>. QED BY <2>1, <3>4, <4>1
    <3>. QED BY <3>1, <3>2, <3>3, <3>4
  <2>. HIDE DEF z
  <2>3. a = IF a < 0 THEN -n ELSE n
    BY <1>0
  <2>. QED BY <1>0, <1>1, <2>0, <2>2, <2>3
<1>9. Leaves(a, b, s, rem)
  BY <1>5, <1>6, <1>7, <1>8 DEF Leaves
<1>. QED BY <1>4, <1>9 DEF s

LEMMA DivisionAgrees ==
    ASSUME NEW a \in Range32, NEW b \in Range32, b # 0
    PROVE  Divided(a, b) = Quotient(a, b)
<1>. DEFINE s == Divided(a, b)
            P(q) == \E rem \in Range32 : Leaves(a, b, q, rem)
            u == CHOOSE q \in Range32 : P(q)
<1>0. a \in Int /\ b \in Int /\ Range32 \subseteq Int
  BY ProgramAssumption DEF Range32
<1>1. Quotient(a, b) = u
  BY DEF Quotient, Leaves, Range32
<1>2. s \in Range32 /\ P(s)
  BY DividedLeaves
<1>. HIDE DEF s
<1>3. u \in Range32 /\ P(u)
  BY <1>2
<1>. HIDE DEF u
<1>4. s = u
  BY <1>0, <1>2, <1>3, LeavesOne
<1>. QED BY <1>1, <1>4 DEF s

LEMMA ValuesAgree ==
    ASSUME NEW op \in Foldable, NEW a \in Range32, NEW b \in Range32, op = "DIV" => b # 0
    PROVE  IntValue(op, a, b) = Exact(op, a, b)
<1>0. a \in Int /\ b \in Int
  BY ProgramAssumption DEF Range32
<1>1. CASE op = "DIV"
  BY <1>1, DivisionAgrees DEF IntValue, Exact
<1>2. CASE op # "DIV"
  BY <1>0, <1>2 DEF IntValue, Exact, Foldable, Comparisons, Truth
<1>. QED BY <1>1, <1>2

\* The node an operator makes, field by field.
LEMMA FoldedShape ==
    ASSUME NEW op \in Foldable, NEW l \in Node, NEW r \in Node, NEW t \in Types,
           NEW rule \in Types \cup {"WRONG"}, NEW n, n = Folded(op, l, r, t, rule),
           n.value \in Range32, n.exact \in Range32
    PROVE  /\ n \in Node /\ n.kind = "expr" /\ n.rule = rule
           /\ n.folded <=> (t # "ERROR" /\ Constant(l) /\ Constant(r))
           /\ n.constant <=> (l.constant /\ r.constant)
           /\ n.type = IF n.folded THEN Evaluate(op, l, r).type ELSE t
           /\ n.folded => n.value = Evaluate(op, l, r).value
           /\ (n.constant /\ l.rule = "INT" /\ r.rule = "INT") => n.exact = Exact(op, l.exact, r.exact)
<1>. DEFINE fold == t # "ERROR" /\ Constant(l) /\ Constant(r)
            const == l.constant /\ r.constant
            e == Evaluate(op, l, r)
            type == IF fold THEN e.type ELSE t
            value == IF fold THEN e.value ELSE 0
            exact == IF const /\ l.rule = "INT" /\ r.rule = "INT"
                     THEN Exact(op, l.exact, r.exact) ELSE 0
<1>1. n = [type |-> type, kind |-> "expr", folded |-> fold, value |-> value,
           rule |-> rule, constant |-> const, exact |-> exact]
  BY DEF Folded
<1>2. fold \in BOOLEAN
  OBVIOUS
<1>3. const \in BOOLEAN
  OBVIOUS
<1>4. e.type \in {"INT", "FLOAT"}
  BY DEF Evaluate
<1>5. type \in Types
  BY <1>4 DEF Types
<1>6. fold <=> (t # "ERROR" /\ Constant(l) /\ Constant(r))
  OBVIOUS
<1>7. const <=> (l.constant /\ r.constant)
  OBVIOUS
<1>8. /\ type = IF fold THEN e.type ELSE t
      /\ fold => value = e.value
      /\ (const /\ l.rule = "INT" /\ r.rule = "INT") => exact = Exact(op, l.exact, r.exact)
  OBVIOUS
<1>. HIDE DEF fold, const, type, value, exact, e
<1>9. /\ n.type = type /\ n.kind = "expr" /\ n.value = value /\ n.rule = rule /\ n.exact = exact
      /\ n.folded = fold /\ n.constant = const
  BY <1>1
<1>10. n \in Node
  BY <1>1, <1>2, <1>3, <1>5, <1>9 DEF Node, Range32
<1>. QED BY <1>6, <1>7, <1>8, <1>9, <1>10 DEF e

\* Folding two right nodes makes a right node, unless the compiler dies of it.
LEMMA FoldedFaithful ==
    ASSUME NEW op \in Foldable, NEW l \in Node, NEW r \in Node, NEW t \in Types \ {"ERROR", "STRING"},
           NEW rule \in Types \cup {"WRONG"}, NEW n, n = Folded(op, l, r, t, rule),
           n.value \in Range32, n.exact \in Range32,
           Faithful(l), Faithful(r), l.type = l.rule, r.type = r.rule,
           l.type # "STRING", r.type # "STRING", ~DiesOn(op, l, r)
    PROVE  Faithful(n)
<1>1. /\ n.kind = "expr"
      /\ n.folded <=> (Constant(l) /\ Constant(r))
      /\ n.constant <=> (l.constant /\ r.constant)
      /\ n.type = IF n.folded THEN Evaluate(op, l, r).type ELSE t
      /\ n.folded => n.value = Evaluate(op, l, r).value
      /\ (n.constant /\ l.rule = "INT" /\ r.rule = "INT") => n.exact = Exact(op, l.exact, r.exact)
  BY FoldedShape
<1>2. \A x \in {l, r} : Constant(x) <=> x.constant
  BY DEF Constant, Faithful, Node
<1>3. n.folded <=> n.constant
  BY <1>1, <1>2
<1>4. n.type # "STRING"
  BY <1>1 DEF Evaluate
<1>5. ASSUME n.constant, n.type = "INT" PROVE n.value = n.exact
  <2>1. n.folded /\ Constant(l) /\ Constant(r) /\ l.constant /\ r.constant
    BY <1>1, <1>3, <1>5
  <2>2. l.type = "INT" /\ r.type = "INT"
    BY <1>1, <1>5, <2>1 DEF Evaluate
  <2>3. n.value = IntValue(op, l.value, r.value)
    BY <1>1, <2>1, <2>2 DEF Evaluate
  <2>4. n.exact = Exact(op, l.exact, r.exact) /\ l.value = l.exact /\ r.value = r.exact
    BY <1>1, <1>5, <2>1, <2>2 DEF Faithful
  <2>5. op = "DIV" => r.value # 0
    BY <2>1, <2>2 DEF DiesOn
  <2>6. l.value \in Range32 /\ r.value \in Range32
    BY DEF Node, Range32
  <2>. QED BY <2>3, <2>4, <2>5, <2>6, ValuesAgree
<1>. QED BY <1>1, <1>3, <1>4, <1>5 DEF Faithful

-----------------------------------------------------------------------------
(* Operators *)

LEMMA FinishStep ==
    ASSUME CheckInv, ~crashed, NEW k \in {1, 2}, k <= Len(stack), crashed' \in BOOLEAN,
           NEW op \in Foldable, NEW l \in Node, NEW r \in Node,
           NEW t \in Types, NEW rule \in Types \cup {"WRONG"},
           Calm => Sound(l) /\ Sound(r), Calm => Faithful(l) /\ Faithful(r),
           NEW complaint \in BOOLEAN, NEW missed, missed \subseteq {"void"},
           Finish(k, Folded(op, l, r, t, rule), rule, complaint, missed),
           crashed' = TRUE \/ ~DiesOn(op, l, r),
           (Calm /\ missed = {}) => (complaint <=> rule = "WRONG"),
           (Calm /\ missed = {} /\ ~complaint) =>
               /\ t = rule /\ t \notin {"ERROR", "STRING"}
               /\ l.type # "STRING" /\ r.type # "STRING"
    PROVE  CheckInv'
<1>. DEFINE n == Folded(op, l, r, t, rule)
            w == missed \cup IF ~wrong /\ rule # n.type /\ n.folded THEN {"folded type"} ELSE {}
<1>1. n.value \in Range32 /\ n.exact \in Range32
  BY DEF Finish, Range32
<1>2. Push(k, n) /\ Complain(complaint) /\ Break(rule = "WRONG") /\ Miss(w)
  BY DEF Finish
<1>3. w \subseteq FlawKinds
  BY DEF FlawKinds
<1>4. w = {} => missed = {} /\ ~(~wrong /\ rule # n.type /\ n.folded)
  OBVIOUS
<1>. HIDE DEF n, w
<1>5. /\ n \in Node /\ n.rule = rule
      /\ n.type = IF n.folded THEN Evaluate(op, l, r).type ELSE t
  BY <1>1, FoldedShape DEF n
<1>6. ASSUME Calm, w = {}, ~complaint PROVE Sound(n)
  BY <1>4, <1>5, <1>6 DEF Sound, Calm
<1>7. ASSUME Calm, w = {}, ~complaint, ~crashed' PROVE Faithful(n)
  BY <1>1, <1>4, <1>7, FoldedFaithful DEF Sound, n
<1>8. Len(stack) \in Nat /\ MaxStack \in Nat /\ Len(stack) <= MaxStack
  BY LenProperties, ProgramAssumption DEF CheckInv, NodesOK
<1>9. k \in Nat /\ Len(stack) - k < MaxStack
  BY <1>8
<1>10. (Calm /\ w = {}) => (complaint <=> rule = "WRONG")
  BY <1>4
<1>. QED BY <1>2, <1>3, <1>5, <1>6, <1>7, <1>9, <1>10, PushStep

LEMMA BinaryStep == ASSUME CheckInv, NEW op \in BinOps, Binary(op) PROVE CheckInv'
<1>. DEFINE l == Top(2)[1]  r == Top(2)[2]
            rule == RuleBinary(op, l.rule, r.rule)
            p == NotNumbers(l, r)
            t == IF p \/ {l.type, r.type} \cap {"ERROR", "VOID"} # {} THEN "ERROR"
                 ELSE IF op \in Comparisons THEN "INT" ELSE getBiggerType(l.type, r.type)
            missed == IF "VOID" \in {l.type, r.type} THEN {"void"} ELSE {}
<1>1. ~crashed /\ 2 <= Len(stack) /\ 2 \in Nat
  BY OperandShape DEF Binary
<1>2. /\ l \in Node /\ r \in Node
      /\ Calm => Sound(l) /\ Sound(r)
      /\ Calm => Faithful(l) /\ Faithful(r)
  BY <1>1, OperandShape
<1>3. op \in Foldable
  BY ProgramAssumption DEF Foldable
<1>4. Finish(2, Folded(op, l, r, t, rule), rule, p, missed)
  BY DEF Binary
<1>5. crashed' = DiesOn(op, l, r)
  BY DEF Binary
<1>6. crashed' \in BOOLEAN
  BY <1>5 DEF DiesOn
<1>7. crashed' = TRUE \/ ~DiesOn(op, l, r)
  BY <1>5, <1>6
<1>. HIDE DEF l, r
<1>8. t \in Types /\ rule \in Types \cup {"WRONG"} /\ missed \subseteq {"void"}
  BY DEF Types, getBiggerType, RuleBinary
<1>9. p \in BOOLEAN
  BY DEF NotNumbers, Pointer
<1>10. missed = {} => l.type # "VOID" /\ r.type # "VOID"
  OBVIOUS
<1>11. ASSUME Calm, missed = {} PROVE p <=> rule = "WRONG"
  BY <1>2, <1>10, <1>11 DEF Sound, NotNumbers, Pointer, RuleBinary, Number, Node, Types
<1>12. ASSUME Calm, missed = {}, ~p
       PROVE  t = rule /\ t \notin {"ERROR", "STRING"} /\ l.type # "STRING" /\ r.type # "STRING"
  <2>1. l.type \in {"INT", "FLOAT"} /\ r.type \in {"INT", "FLOAT"} /\ l.type = l.rule /\ r.type = r.rule
    BY <1>2, <1>10, <1>12 DEF Sound, NotNumbers, Pointer, Node, Types
  <2>. QED BY <1>12, <2>1 DEF RuleBinary, Number, getBiggerType
<1>. HIDE DEF p, t, rule, missed
<1>13. (Calm /\ missed = {}) => (p <=> rule = "WRONG")
  BY <1>11
<1>14. (Calm /\ missed = {} /\ ~p) =>
          t = rule /\ t \notin {"ERROR", "STRING"} /\ l.type # "STRING" /\ r.type # "STRING"
  BY <1>12
<1>15. 2 \in {1, 2}
  OBVIOUS
<1>. QED BY ZenonT(60), <1>1, <1>2, <1>3, <1>4, <1>6, <1>7, <1>8, <1>9, <1>13, <1>14, <1>15, FinishStep

LEMMA UnaryStep == ASSUME CheckInv, NEW op \in UnOps, Unary(op) PROVE CheckInv'
<1>. DEFINE r == Top(1)[1]
            rule == RuleUnary(op, r.rule)
            p == NotNumbers(r, r)
            t == IF p \/ r.type = "ERROR" THEN "ERROR" ELSE IF op = "NOT" THEN "INT" ELSE r.type
            missed == IF r.type = "VOID" THEN {"void"} ELSE {}
<1>1. ~crashed /\ 1 <= Len(stack) /\ 1 \in Nat
  BY OperandShape DEF Unary
<1>2. /\ r \in Node
      /\ Calm => Sound(r)
      /\ Calm => Faithful(r)
  BY <1>1, OperandShape
<1>3. op \in Foldable /\ op # "DIV" /\ op \in {"NEG", "NOT"}
  BY ProgramAssumption DEF Foldable
<1>4. Finish(1, Folded(op, r, r, t, rule), rule, p, missed)
  BY DEF Unary
<1>5. crashed' = FALSE
  BY DEF Unary
<1>6. ~DiesOn(op, r, r)
  BY <1>3 DEF DiesOn
<1>. HIDE DEF r
<1>8. t \in Types /\ rule \in Types \cup {"WRONG"} /\ missed \subseteq {"void"}
  BY <1>2 DEF Types, RuleUnary, Number, Node
<1>9. p \in BOOLEAN
  BY DEF NotNumbers, Pointer
<1>10. missed = {} => r.type # "VOID"
  OBVIOUS
<1>11. ASSUME Calm, missed = {} PROVE p <=> rule = "WRONG"
  BY <1>2, <1>10, <1>11 DEF Sound, NotNumbers, Pointer, RuleUnary, Number, Node, Types
<1>12. ASSUME Calm, missed = {}, ~p
       PROVE  t = rule /\ t \notin {"ERROR", "STRING"} /\ r.type # "STRING"
  <2>1. r.type \in {"INT", "FLOAT"} /\ r.type = r.rule
    BY <1>2, <1>10, <1>12 DEF Sound, NotNumbers, Pointer, Node, Types
  <2>. QED BY <1>12, <2>1 DEF RuleUnary, Number
<1>. HIDE DEF p, t, rule, missed
<1>. QED BY <1>1, <1>2, <1>3, <1>4, <1>5, <1>6, <1>8, <1>9, <1>11, <1>12, FinishStep

-----------------------------------------------------------------------------
(* Calls *)

\* The arguments of a call, or the subscripts of a left side.
RightNodes(s, k) ==
    /\ DOMAIN s = 1 .. k /\ Len(s) = k
    /\ \A i \in 1 .. k : s[i] \in Node /\ Sound(s[i])

LEMMA RulesShape ==
    ASSUME NEW s, NEW k \in Nat, RightNodes(s, k)
    PROVE  /\ Len(Rules(s)) = k /\ DOMAIN Rules(s) = 1 .. k
           /\ \A i \in 1 .. k : Rules(s)[i] = s[i].type /\ s[i].type \in Types \ {"ERROR"}
<1>. DEFINE q == Rules(s)
<1>1. q = [i \in 1 .. k |-> s[i].rule]
  BY DEF Rules, RightNodes
<1>2. \A i \in 1 .. k : s[i].rule = s[i].type /\ s[i].type \in Types \ {"ERROR"}
  BY DEF RightNodes, Sound, Node
<1>. HIDE DEF q
<1>3. q \in Seq(Types) /\ Len(q) = k
  BY <1>1, <1>2
<1>. QED BY <1>1, <1>2, <1>3 DEF q

\* Arguments are refused exactly when the language forbids to pass them.
LEMMA PassingAgrees ==
    ASSUME NEW args, NEW k \in Nat, RightNodes(args, k), NEW s \in CallNames,
           Function(s), k = Len(Symbols[s].params),
           ~\E i \in 1 .. k : args[i].type = "VOID"
    PROVE  (\A i \in 1 .. k : Passing(Symbols[s].params[i], args[i]))
           <=> RuleCall(s, Rules(args)) # "WRONG"
<1>. DEFINE f == Symbols[s].params  g == Rules(args)
<1>1. /\ Len(g) = k /\ DOMAIN g = 1 .. k
      /\ \A i \in 1 .. k : g[i] = args[i].type /\ args[i].type \in Types \ {"ERROR"}
  BY RulesShape
<1>2. \A i \in 1 .. k : Passing(f[i], args[i]) <=> RulePass(f[i], g[i])
  BY <1>1 DEF Passing, RulePass, Pointer, Number, Types
<1>3. RuleCall(s, g) = IF \A i \in 1 .. k : RulePass(f[i], g[i]) THEN Symbols[s].elem ELSE "WRONG"
  BY <1>1 DEF RuleCall, Function
<1>4. Symbols[s].elem # "WRONG"
  BY SymbolsAssumption
<1>. QED BY <1>2, <1>3, <1>4

LEMMA CallStep == ASSUME CheckInv, NEW s \in CallNames, NEW k \in Nat, Call(s, k) PROVE CheckInv'
<1>. DEFINE f == Symbols[s].params  args == Top(k)
            rule == RuleCall(s, Rules(args))
            seen == {i \in DOMAIN args : i <= Len(f)}
            unfit == {i \in seen : args[i].type # "ERROR" /\ ~Passing(f[i], args[i])}
            t == IF k # Len(f) THEN "ERROR" ELSE Symbols[s].elem
            p == unfit # {} \/ k # Len(f)
            w == IF \E i \in seen : args[i].type = "VOID" THEN {"void"} ELSE {}
<1>1. /\ ~crashed /\ k <= Len(stack) /\ Len(stack) - k < MaxStack /\ Function(s)
      /\ Push(k, Leaf(t, "call", rule)) /\ Complain(p) /\ Break(rule = "WRONG") /\ Miss(w)
  BY DEF Call
<1>2. crashed' \in BOOLEAN
  BY DEF Call
<1>3. Symbols[s].elem \in {"INT", "FLOAT", "VOID"}
  BY SymbolsAssumption
<1>4. t \in Types /\ rule \in Types \cup {"WRONG"} /\ w \subseteq FlawKinds
  BY <1>3 DEF RuleCall, Types, FlawKinds
<1>5. /\ Leaf(t, "call", rule) \in Node /\ Faithful(Leaf(t, "call", rule))
      /\ Leaf(t, "call", rule).type = t /\ Leaf(t, "call", rule).rule = rule
  BY <1>4, LeafShape
<1>6. ASSUME Calm, w = {} PROVE (p <=> rule = "WRONG") /\ (~p => t = rule /\ t # "ERROR")
  <2>1. RightNodes(args, k)
    BY <1>1, <1>6, OperandShape DEF RightNodes
  <2>2. CASE k # Len(f)
    <3>1. Len(Rules(args)) = k
      BY <2>1, RulesShape
    <3>. QED BY <2>2, <3>1 DEF RuleCall
  <2>3. CASE k = Len(f)
    <3>. HIDE DEF args
    <3>1. DOMAIN args = 1 .. k /\ \A i \in 1 .. k : i <= Len(f) /\ args[i].type # "ERROR"
      BY <2>1, <2>3 DEF RightNodes, Sound
    <3>2. ~\E i \in 1 .. k : args[i].type = "VOID"
      BY <1>6, <3>1
    <3>3. unfit = {} <=> \A i \in 1 .. k : Passing(f[i], args[i])
      BY <3>1
    <3>4. (\A i \in 1 .. k : Passing(f[i], args[i])) <=> rule # "WRONG"
      BY <1>1, <2>1, <2>3, <3>2, PassingAgrees
    <3>5. rule # "WRONG" => rule = t
      BY <2>3 DEF RuleCall
    <3>. QED BY <1>3, <2>3, <3>3, <3>4, <3>5
  <2>. QED BY <2>2, <2>3
<1>. HIDE DEF t, p, w, rule
<1>. QED BY <1>1, <1>2, <1>4, <1>5, <1>6, PushStep DEF Sound

LEMMA WriteStep == ASSUME CheckInv, NEW k \in Nat, Write(k) PROVE CheckInv'
<1>. DEFINE args == Top(k)
            odd == {i \in DOMAIN args : args[i].type \notin {"INT", "FLOAT", "STRING", "ERROR"}}
            right == k = 1 /\ \A i \in DOMAIN args : Number(args[i].rule) \/ args[i].rule = "STRING"
            t == IF k = 1 THEN "VOID" ELSE "ERROR"
            rule == IF right THEN "VOID" ELSE "WRONG"
            p == odd # {} \/ k # 1
<1>1. /\ ~crashed /\ k <= Len(stack) /\ Len(stack) - k < MaxStack
      /\ Push(k, Leaf(t, "call", rule)) /\ Complain(p) /\ Break(~right)
  BY DEF Write
<1>2. Miss({}) /\ crashed' = crashed /\ crashed \in BOOLEAN
  BY DEF Write, Miss, CheckInv, NodesOK
<1>3. /\ Leaf(t, "call", rule) \in Node /\ Faithful(Leaf(t, "call", rule))
      /\ Leaf(t, "call", rule).type = t /\ Leaf(t, "call", rule).rule = rule
  BY LeafShape DEF Types
<1>4. ASSUME Calm PROVE p <=> ~right
  <2>1. RightNodes(args, k)
    BY <1>1, <1>4, OperandShape DEF RightNodes
  <2>. HIDE DEF args
  <2>2. DOMAIN args = 1 .. k /\ \A i \in 1 .. k : args[i].type = args[i].rule /\ args[i].type # "ERROR"
    BY <2>1 DEF RightNodes, Sound
  <2>. QED BY <2>2 DEF Number
<1>5. ~p => k = 1 /\ t = "VOID"
  OBVIOUS
<1>6. right => rule = "VOID"
  OBVIOUS
<1>7. p \in BOOLEAN /\ right \in BOOLEAN
  OBVIOUS
<1>. HIDE DEF t, p, right, rule
<1>. QED BY <1>1, <1>2, <1>3, <1>4, <1>5, <1>6, <1>7, PushStep DEF Sound

-----------------------------------------------------------------------------
(* Statements *)

\* The one node of a statement's expression, and the subscripts below it.
LEMMA LastShape ==
    ASSUME CheckInv, NEW k \in Nat, Len(stack) = k + 1
    PROVE  /\ Top(1)[1] \in Node
           /\ Calm => Sound(Top(1)[1])
           /\ DOMAIN SubSeq(stack, 1, k) = 1 .. k /\ Len(SubSeq(stack, 1, k)) = k
           /\ Calm => RightNodes(SubSeq(stack, 1, k), k)
<1>0. stack \in Seq(Node)
  BY DEF CheckInv, NodesOK
<1>1. 1 <= Len(stack) /\ 1 \in Nat /\ stack \in Seq(Node) /\ DOMAIN stack = 1 .. k + 1
  BY <1>0, LenProperties
<1>2. /\ Top(1)[1] \in Node
      /\ Calm => Sound(Top(1)[1])
  BY <1>1, OperandShape
<1>. DEFINE u == SubSeq(stack, 1, k)
<1>3. \A i \in 1 .. k : stack[i] \in Node /\ i \in DOMAIN stack
  BY <1>1, ElementOfSeq
<1>4. k \in Int /\ 1 \in Int /\ k - 1 + 1 = k
  OBVIOUS
<1>. HIDE DEF u
<1>5. /\ u \in Seq(Node) /\ Len(u) = IF 1 <= k THEN k - 1 + 1 ELSE 0
      /\ \A i \in 1 .. k - 1 + 1 : u[i] = stack[1 + i - 1]
  BY <1>3, <1>4, SubSeqProperties DEF u
<1>6. Len(u) = k /\ DOMAIN u = 1 .. k
  BY <1>5, LenProperties
<1>7. ASSUME NEW i \in 1 .. k PROVE u[i] = stack[i]
  <2>1. i \in 1 .. k - 1 + 1 /\ 1 + i - 1 = i
    OBVIOUS
  <2>. QED BY <1>5, <2>1
<1>8. Calm => RightNodes(u, k)
  BY <1>3, <1>6, <1>7 DEF RightNodes, CheckInv
<1>. QED BY <1>2, <1>6, <1>8 DEF u

LEMMA AssignStep == ASSUME CheckInv, NEW s \in VarNames, NEW k \in Nat, Assign(s, k) PROVE CheckInv'
<1>. DEFINE e == Symbols[s]  subs == SubSeq(stack, 1, k)  r == Top(1)[1]
            left == /\ e.kind = "VARIABLE" /\ k = e.dim
                    /\ \A i \in DOMAIN subs : subs[i].rule = "INT"
            p == LValueRefused(s, subs) \/ Pointer(r.type) \/ r.type = "STRING"
            q == ~left \/ ~Number(r.rule)
            w == OddSubscripts(subs) \cup IF r.type = "VOID" THEN {"void"} ELSE {}
<1>1. /\ Len(stack) = k + 1 /\ stack' = <<>> /\ crashed' = crashed
      /\ Complain(p) /\ Break(q) /\ Miss(w)
  BY DEF Assign
<1>2. w \subseteq FlawKinds
  BY DEF OddSubscripts, FlawKinds
<1>3. ASSUME Calm, w = {} PROVE p <=> q
  <2>1. /\ r \in Node /\ Sound(r)
        /\ RightNodes(subs, k)
    BY <1>1, <1>3, LastShape
  <2>2. OddSubscripts(subs) = {} /\ r.type # "VOID"
    BY <1>3
  <2>. HIDE DEF subs, r
  <2>3. Pointer(r.type) \/ r.type = "STRING" <=> ~Number(r.rule)
    BY <2>1, <2>2 DEF Sound, Pointer, Number, Node, Types
  <2>4. /\ DOMAIN subs = 1 .. k /\ Len(subs) = k
        /\ \A i \in 1 .. k : subs[i] \in Node /\ Sound(subs[i])
    BY <2>1 DEF RightNodes
  <2>5. (\E i \in 1 .. k : Rules(subs)[i] # "INT") <=> FloatSubscript(subs)
    BY <2>2, <2>4, SubscriptShape
  <2>6. \A i \in 1 .. k : Rules(subs)[i] = subs[i].rule
    BY <2>4 DEF Rules
  <2>7. LValueRefused(s, subs) <=> ~left
    BY <2>4, <2>5, <2>6 DEF LValueRefused, LValueDimension
  <2>. QED BY <2>3, <2>7
<1>. HIDE DEF p, q, w
<1>. QED BY <1>1, <1>2, <1>3, StatementStep

LEMMA InitialiseStep == ASSUME CheckInv, Initialise PROVE CheckInv'
<1>. DEFINE r == Top(1)[1]
            w == IF r.type = "VOID" THEN {"void"} ELSE {}
<1>1. /\ Len(stack) = 0 + 1 /\ 0 \in Nat /\ stack' = <<>> /\ crashed' = crashed
      /\ Complain(Pointer(r.type) \/ r.type = "STRING") /\ Break(~Number(r.rule)) /\ Miss(w)
  BY DEF Initialise
<1>2. w \subseteq FlawKinds
  BY DEF FlawKinds
<1>3. ASSUME Calm, w = {} PROVE (Pointer(r.type) \/ r.type = "STRING") <=> ~Number(r.rule)
  <2>1. r \in Node /\ Sound(r)
    BY <1>1, <1>3, LastShape
  <2>. QED BY <1>3, <2>1 DEF Sound, Pointer, Number, Node, Types
<1>. HIDE DEF w
<1>. QED BY <1>1, <1>2, <1>3, StatementStep

LEMMA ConditionStep == ASSUME CheckInv, Condition PROVE CheckInv'
<1>. DEFINE r == Top(1)[1]
            w == IF ~Number(r.type) /\ r.type # "ERROR" THEN {"condition"} ELSE {}
<1>1. /\ Len(stack) = 0 + 1 /\ 0 \in Nat /\ stack' = <<>> /\ crashed' = crashed
      /\ Break(~Number(r.rule)) /\ Miss(w)
  BY DEF Condition
<1>4. Complain(FALSE)
  BY DEF Condition
<1>2. w \subseteq FlawKinds
  BY DEF FlawKinds
<1>3. ASSUME Calm, w = {} PROVE FALSE <=> ~Number(r.rule)
  <2>1. r \in Node /\ Sound(r)
    BY <1>1, <1>3, LastShape
  <2>. QED BY <1>3, <2>1 DEF Sound
<1>. HIDE DEF w
<1>. QED BY <1>1, <1>2, <1>3, <1>4, StatementStep

LEMMA ReturnStep == ASSUME CheckInv, NEW rt, Return(rt) PROVE CheckInv'
<1>. DEFINE r == Top(1)[1]
            b == rt # "VOID"
            p == ~ReturnTypes(rt, r.type)
            q == ~(rt = r.rule \/ (Number(rt) /\ Number(r.rule)))
<1>1. /\ Len(stack) <= 1 /\ stack' = <<>> /\ crashed' = crashed /\ Miss({})
  BY DEF Return, Miss, CheckInv, NodesOK
<1>2. CASE stack = <<>>
  <2>1. Complain(b) /\ Break(b)
    BY <1>2 DEF Return
  <2>. HIDE DEF b
  <2>. QED BY <1>1, <2>1, StatementStep
<1>3. CASE stack # <<>>
  <2>1. Complain(p) /\ Break(q)
    BY <1>3 DEF Return
  <2>2. Len(stack) = 0 + 1 /\ 0 \in Nat
    <3>1. stack \in Seq(Node)
      BY DEF CheckInv, NodesOK
    <3>2. Len(stack) \in Nat /\ Len(stack) # 0
      BY <1>3, <3>1, LenProperties, EmptySeq
    <3>3. Len(stack) <= 1
      BY <1>1
    <3>. QED BY <3>2, <3>3
  <2>3. ASSUME Calm PROVE p <=> q
    <3>1. Sound(r)
      BY <2>2, <2>3, LastShape
    <3>. QED BY <3>1 DEF Sound, ReturnTypes
  <2>. HIDE DEF p, q
  <2>. QED BY <1>1, <2>1, <2>3, StatementStep
<1>. QED BY <1>2, <1>3

LEMMA DropCallStep == ASSUME CheckInv, DropCall PROVE CheckInv'
<1>1. Complain(FALSE) /\ Break(FALSE) /\ Miss({}) /\ stack' = <<>> /\ crashed' = crashed
  BY DEF DropCall, Complain, Break, Miss, CheckInv, NodesOK
<1>. QED BY <1>1, StatementStep

-----------------------------------------------------------------------------
(* The checker's theorems *)

LEMMA CheckStep == ASSUME CheckInv, CheckNext PROVE CheckInv'
<1>1. ASSUME NEW s \in VarNames, NEW k \in 0 .. 2, VariableRValue(s, k) PROVE CheckInv'
  BY <1>1, VariableStep
<1>2. ASSUME NEW s \in VarNames, NEW k \in 0 .. 2, Assign(s, k) PROVE CheckInv'
  BY <1>2, AssignStep
<1>3. ASSUME NEW s \in VarNames, SubscriptedScalar(s) PROVE CheckInv'
  BY <1>3, RefusedStep DEF SubscriptedScalar
<1>4. ASSUME NEW op \in BinOps, Binary(op) PROVE CheckInv'
  BY <1>4, BinaryStep
<1>5. ASSUME NEW op \in UnOps, Unary(op) PROVE CheckInv'
  BY <1>5, UnaryStep
<1>6. ASSUME NEW s \in CallNames, NEW k \in 0 .. 2, Call(s, k) PROVE CheckInv'
  BY <1>6, CallStep
<1>7. ASSUME NEW s \in CallNames, CallOther(s) PROVE CheckInv'
  BY <1>7, RefusedStep DEF CallOther
<1>8. ASSUME NEW k \in 0 .. 2, Write(k) PROVE CheckInv'
  BY <1>8, WriteStep
<1>9. ASSUME NEW rt \in Returns, Return(rt) PROVE CheckInv'
  BY <1>9, ReturnStep
<1>. QED BY ConstStep, InitialiseStep, ConditionStep, DropCallStep,
            <1>1, <1>2, <1>3, <1>4, <1>5, <1>6, <1>7, <1>8, <1>9 DEF CheckNext

LEMMA CheckInvariant == Spec => []CheckInv
<1>1. Init => CheckInv
  BY CheckStart DEF Init
<1>2. CheckInv /\ [Next]_vars => CheckInv'
  <2>1. ASSUME CheckInv, UNCHANGED checkVars PROVE CheckInv'
    BY <2>1 DEF CheckInv, NodesOK, Calm, checkVars
  <2>2. UNCHANGED vars => UNCHANGED checkVars
    BY DEF vars, checkVars
  <2>. QED BY <2>1, <2>2, CheckStep DEF Next
<1>. QED BY <1>1, <1>2, PTL DEF Spec

\* As long as a program stays off the uses that no code looks at, it gets a
\* message exactly when it breaks a rule of the language: processExprNode and
\* the functions it calls never miss a wrong operand, subscript or argument and
\* never complain of a right one, however the expressions are nested.
THEOREM MessagesAreExact == Spec => []MessagesExact
<1>1. CheckInv => MessagesExact
  BY DEF CheckInv, MessagesExact
<1>. QED BY <1>1, CheckInvariant, PTL

\* In a program without messages dataType is the type of the language.
THEOREM TypesAreTheLanguages == Spec => []TypesFollowRules
<1>1. CheckInv => TypesFollowRules
  BY DEF CheckInv, TypesFollowRules, Calm, Sound
<1>. QED BY <1>1, CheckInvariant, PTL

\* evaluateExprValue folds what consists of literals and nothing else, and to
\* the value of the language, the sign of a quotient included.
THEOREM FoldingIsExact == Spec => []FoldedExactly
<1>1. ASSUME CheckInv PROVE FoldedExactly
  <2>. SUFFICES ASSUME ~reported, ~crashed, flaws = {}, NEW i \in DOMAIN stack
                PROVE  LET n == stack[i] IN
                       /\ n.kind = "expr" => (n.folded <=> n.constant)
                       /\ n.constant /\ n.type = "INT" => n.value = n.exact
    BY DEF FoldedExactly
  <2>1. Faithful(stack[i])
    BY <1>1 DEF CheckInv, Calm
  <2>. QED BY <2>1 DEF Faithful
<1>. QED BY <1>1, CheckInvariant, PTL

-----------------------------------------------------------------------------
(* Declarations *)

\* What a size may be.
SizeValue == Garbage \cup {0} \cup {d.value : d \in DimNodes}

\* A descriptor made for these dimensions written with this type: a size for
\* each of them, then the dimensions of the type.
MadeOf(desc, base, dims) ==
    Len(dims) > 0 =>
       /\ base \in DOMAIN table
       /\ \E own \in Seq(SizeValue) : /\ Len(own) = Len(dims)
                                      /\ desc.dims = own \o table[base].desc.dims

\* The inductive invariant: TableOK, that the dimensions are sequences, and
\* where they are from.
DeclInv ==
    /\ TableOK
    /\ \A n \in DOMAIN table : table[n].desc.dims \in Seq(SizeValue)
    /\ \A n \in DOMAIN written : MadeOf(table[n].desc, written[n].base, written[n].dims)

LEMMA DeclStart == DeclInit => DeclInv
<1>. SUFFICES ASSUME DeclInit PROVE DeclInv
  OBVIOUS
<1>1. <<>> \in Seq(SizeValue) /\ Len(<<>>) = 0 /\ 0 <= MaxDimension
  BY EmptySeq, DimensionAssumption
<1>2. DOMAIN table = Basic /\ DOMAIN written = {}
  BY DEF DeclInit
<1>3. ASSUME NEW n \in Basic
      PROVE  /\ table[n].attr = "TYPE" /\ table[n].desc.elem \in {"INT", "FLOAT", "VOID"}
             /\ table[n].desc.dims = <<>> /\ table[n].desc.kind = "SCALAR"
  BY DEF DeclInit, Entry, Descriptor, Basic
<1>4. \A n \in DOMAIN table :
         /\ table[n].attr \in {"TYPE", "VARIABLE"}
         /\ table[n].desc.elem \in {"INT", "FLOAT", "VOID"}
         /\ Len(table[n].desc.dims) <= MaxDimension
         /\ (table[n].desc.kind = "ARRAY") <=> (table[n].desc.dims # <<>>)
  BY <1>1, <1>2, <1>3
<1>5. \A n \in DOMAIN table : table[n].desc.dims \in Seq(SizeValue)
  BY <1>1, <1>2, <1>3
<1>. QED BY <1>2, <1>4, <1>5 DEF DeclInv, TableOK

\* A new name with an entry of the right shape.
LEMMA EnterStep ==
    ASSUME DeclInv, NEW n \in Names, ~Declared(n), NEW attr \in {"TYPE", "VARIABLE"},
           NEW desc, desc.elem \in {"INT", "FLOAT", "VOID"}, desc.dims \in Seq(SizeValue),
           Len(desc.dims) <= MaxDimension, (desc.kind = "ARRAY") <=> (desc.dims # <<>>),
           NEW base, NEW dims, Enter(n, attr, desc, base, dims), MadeOf(desc, base, dims)
    PROVE  DeclInv'
<1>. DEFINE e == Entry(attr, desc)  S == DOMAIN table \cup {n}
<1>1. e.attr = attr /\ e.desc = desc
  BY DEF Entry
<1>. HIDE DEF e
<1>2. table' = [k \in S |-> IF k = n THEN e ELSE table[k]]
  BY DEF Enter, e
<1>3. DOMAIN written' = DOMAIN written \cup {n}
  BY DEF Enter
<1>4. DOMAIN table' = S /\ \A k \in S : table'[k] = IF k = n THEN e ELSE table[k]
  BY <1>2
<1>5. n \notin Basic /\ n \notin DOMAIN table
  BY DEF DeclInv, TableOK, Declared
<1>6. /\ Basic \subseteq DOMAIN table' /\ DOMAIN table' \subseteq Names \cup Basic
      /\ DOMAIN written' = DOMAIN table' \ Basic
  BY <1>3, <1>4, <1>5 DEF DeclInv, TableOK
<1>7. ASSUME NEW k \in DOMAIN table'
      PROVE  /\ table'[k].attr \in {"TYPE", "VARIABLE"}
             /\ table'[k].desc.elem \in {"INT", "FLOAT", "VOID"}
             /\ Len(table'[k].desc.dims) <= MaxDimension
             /\ (table'[k].desc.kind = "ARRAY") <=> (table'[k].desc.dims # <<>>)
             /\ table'[k].desc.dims \in Seq(SizeValue)
  <2>1. CASE k = n
    BY <1>1, <1>4, <2>1
  <2>2. CASE k # n
    <3>1. k \in DOMAIN table /\ table'[k] = table[k]
      BY <1>4, <2>2
    <3>. QED BY <3>1 DEF DeclInv, TableOK
  <2>. QED BY <2>1, <2>2
<1>8. ASSUME NEW k \in DOMAIN written'
      PROVE  MadeOf(table[k].desc, written[k].base, written[k].dims)'
  <2>1. \A b \in DOMAIN table : b \in DOMAIN table' /\ table'[b] = table[b]
    BY <1>4, <1>5
  <2>2. CASE k = n
    <3>1. written'[k] = [base |-> base, dims |-> dims] /\ table'[k].desc = desc
      BY <1>1, <1>3, <1>4, <2>2 DEF Enter
    <3>2. written'[k].base = base /\ written'[k].dims = dims
      BY <3>1
    <3>3. ASSUME Len(dims) > 0
          PROVE  /\ base \in DOMAIN table'
                 /\ \E own \in Seq(SizeValue) : /\ Len(own) = Len(dims)
                                                /\ desc.dims = own \o table'[base].desc.dims
      <4>1. base \in DOMAIN table /\ table'[base] = table[base]
        BY <2>1, <3>3 DEF MadeOf
      <4>. QED BY <2>1, <3>3, <4>1 DEF MadeOf
    <3>. QED BY <3>1, <3>2, <3>3 DEF MadeOf
  <2>3. CASE k # n
    <3>1. k \in DOMAIN written /\ written'[k] = written[k] /\ k \in DOMAIN table
      BY <1>3, <2>3 DEF Enter, DeclInv, TableOK
    <3>2. table'[k] = table[k]
      BY <2>1, <3>1
    <3>3. MadeOf(table[k].desc, written[k].base, written[k].dims)
      BY <3>1 DEF DeclInv
    <3>. QED BY <2>1, <3>1, <3>2, <3>3 DEF MadeOf
  <2>. QED BY <2>2, <2>3
<1>. QED BY <1>6, <1>7, <1>8 DEF DeclInv, TableOK

LEMMA RefuseStep == ASSUME DeclInv, Refuse PROVE DeclInv'
BY DEF DeclInv, TableOK, Refuse, MadeOf

\* processDeclDimList takes one size for each dimension written.
LEMMA DimListsShape ==
    ASSUME NEW T, NEW dims \in Seq(T), NEW own \in DimLists(dims)
    PROVE  own \in Seq(SizeValue) /\ (own # <<>> => Len(own) > 0 /\ Len(own) = Len(dims))
<1>1. CASE own = <<>>
  BY <1>1, EmptySeq
<1>2. CASE own # <<>>
  <2>1. own \in [DOMAIN dims -> SizeValue]
    BY <1>2 DEF DimLists, SizeValue
  <2>2. DOMAIN dims = 1 .. Len(dims) /\ Len(dims) \in Nat
    BY LenProperties
  <2>3. own \in Seq(SizeValue)
    BY <2>1, <2>2
  <2>4. Len(own) \in Nat /\ Len(own) # 0
    BY <1>2, <2>3, LenProperties, EmptySeq
  <2>5. Len(own) = Len(dims)
    BY <2>1, <2>2, <2>3, LenProperties
  <2>. QED BY <2>3, <2>4, <2>5
<1>. QED BY <1>1, <1>2

LEMMA DeclareArrayStep ==
    ASSUME DeclInv, NEW n \in Names, NEW base, NEW attr \in {"TYPE", "VARIABLE"},
           NEW T, NEW dims \in Seq(T), DeclareArray(n, base, attr, dims)
    PROVE  DeclInv'
<1>. DEFINE old == table[base].desc
<1>1. CASE Refuse
  BY <1>1, RefuseStep
<1>2. CASE ~Refuse
  <2>1. /\ ~RefusedDeclaration(n, base, attr)
        /\ \E own \in DimLists(dims) :
              /\ own # <<>> /\ ~TooMany(own, old.dims)
              /\ Enter(n, attr, Descriptor("ARRAY", old.elem, Joined(own, old.dims)), base, dims)
    BY <1>2 DEF DeclareArray
  <2>2. PICK own \in DimLists(dims) :
              /\ own # <<>> /\ ~TooMany(own, old.dims)
              /\ Enter(n, attr, Descriptor("ARRAY", old.elem, Joined(own, old.dims)), base, dims)
    BY <2>1
  <2>3. base \in DOMAIN table /\ ~Declared(n)
    BY <2>1 DEF RefusedDeclaration, TypeName, Declared
  <2>4. old.dims \in Seq(SizeValue) /\ old.elem \in {"INT", "FLOAT", "VOID"} /\ Len(old.dims) \in Nat
    BY <2>3, LenProperties DEF DeclInv, TableOK
  <2>5. own \in Seq(SizeValue) /\ Len(own) \in Nat /\ Len(own) > 0 /\ Len(own) = Len(dims)
    BY <2>2, DimListsShape, LenProperties
  <2>. DEFINE u == Joined(own, old.dims)  d == Descriptor("ARRAY", old.elem, u)
  <2>6. u \in Seq(SizeValue) /\ Len(u) = Len(own) + Len(old.dims)
    BY <2>4, <2>5, ConcatProperties DEF Joined
  <2>7. Len(u) <= MaxDimension /\ Len(u) # 0
    BY <2>2, <2>4, <2>5, <2>6, DimensionAssumption DEF TooMany
  <2>8. u # <<>>
    BY <2>7, EmptySeq
  <2>. HIDE DEF u
  <2>9. /\ d.elem \in {"INT", "FLOAT", "VOID"} /\ d.dims \in Seq(SizeValue)
        /\ Len(d.dims) <= MaxDimension /\ ((d.kind = "ARRAY") <=> (d.dims # <<>>))
    BY <2>4, <2>6, <2>7, <2>8 DEF Descriptor
  <2>10. Enter(n, attr, d, base, dims)
    BY <2>2 DEF u
  <2>11. MadeOf(d, base, dims)
    BY <2>3, <2>5 DEF MadeOf, Descriptor, Joined, u
  <2>. HIDE DEF d
  <2>. QED BY <2>3, <2>9, <2>10, <2>11, EnterStep
<1>. QED BY <1>1, <1>2

\* NORMAL_ID and WITH_INIT_ID: the descriptor of the type.
LEMMA ShareStep ==
    ASSUME DeclInv, NEW n \in Names, NEW base, NEW attr \in {"TYPE", "VARIABLE"},
           ~RefusedDeclaration(n, base, attr), Enter(n, attr, table[base].desc, base, <<>>)
    PROVE  DeclInv'
<1>. DEFINE d == table[base].desc
<1>1. base \in DOMAIN table /\ ~Declared(n)
  BY DEF RefusedDeclaration, TypeName, Declared
<1>2. /\ d.elem \in {"INT", "FLOAT", "VOID"} /\ d.dims \in Seq(SizeValue)
      /\ Len(d.dims) <= MaxDimension /\ ((d.kind = "ARRAY") <=> (d.dims # <<>>))
  BY <1>1 DEF DeclInv, TableOK
<1>3. Enter(n, attr, d, base, <<>>)
  OBVIOUS
<1>. HIDE DEF d
<1>4. PICK dims : Enter(n, attr, d, base, dims) /\ MadeOf(d, base, dims)
  <2>1. MadeOf(d, base, <<>>)
    BY EmptySeq DEF MadeOf
  <2>. QED BY <1>3, <2>1
<1>. QED BY <1>1, <1>2, <1>4, EnterStep

LEMMA DimSeqsShape ==
    ASSUME NEW dims \in DimSeqs \cup {<<>>}
    PROVE  dims \in Seq(DimNodes \cup {Missing})
<1>1. CASE dims = <<>>
  BY <1>1, EmptySeq
<1>2. CASE dims # <<>>
  <2>1. PICK k \in 1 .. 2 : dims \in [1 .. k -> DimNodes]
    BY <1>2 DEF DimSeqs
  <2>. QED BY <2>1
<1>. QED BY <1>1, <1>2

LEMMA DeclStep == ASSUME DeclInv, DeclNext PROVE DeclInv'
<1>. DEFINE T == DimNodes \cup {Missing}
<1>1. PICK n \in Names, base \in Names \cup Basic :
         \/ \E attr \in {"TYPE", "VARIABLE"} :
               \/ DeclareNormal(n, base, attr)
               \/ \E dims \in DimSeqs : DeclareArray(n, base, attr, dims)
         \/ \E rest \in DimSeqs \cup {<<>>} :
               DeclareArray(n, base, "VARIABLE", <<Missing>> \o rest)
         \/ \E sound \in BOOLEAN : DeclareInit(n, base, sound)
  BY DEF DeclNext
<1>2. ASSUME NEW attr \in {"TYPE", "VARIABLE"}, DeclareNormal(n, base, attr) PROVE DeclInv'
  BY <1>2, RefuseStep, ShareStep DEF DeclareNormal
<1>3. ASSUME NEW attr \in {"TYPE", "VARIABLE"}, NEW dims \in DimSeqs,
             DeclareArray(n, base, attr, dims)
      PROVE  DeclInv'
  BY <1>3, DimSeqsShape, DeclareArrayStep
<1>4. ASSUME NEW rest \in DimSeqs \cup {<<>>},
             DeclareArray(n, base, "VARIABLE", <<Missing>> \o rest)
      PROVE  DeclInv'
  <2>1. rest \in Seq(T) /\ <<Missing>> \in Seq(T)
    BY DimSeqsShape
  <2>2. <<Missing>> \o rest \in Seq(T)
    BY <2>1, ConcatProperties
  <2>. QED BY <1>4, <2>2, DeclareArrayStep
<1>5. ASSUME NEW sound \in BOOLEAN, DeclareInit(n, base, sound) PROVE DeclInv'
  BY <1>5, RefuseStep, ShareStep DEF DeclareInit
<1>. QED BY <1>1, <1>2, <1>3, <1>4, <1>5

LEMMA DeclInvariant == Spec => []DeclInv
<1>1. Init => DeclInv
  BY DeclStart DEF Init
<1>2. DeclInv /\ [Next]_vars => DeclInv'
  <2>1. ASSUME DeclInv, UNCHANGED declVars PROVE DeclInv'
    BY <2>1 DEF DeclInv, TableOK, MadeOf, declVars
  <2>2. UNCHANGED vars => UNCHANGED declVars
    BY DEF vars, declVars
  <2>. QED BY <2>1, <2>2, DeclStep DEF Next
<1>. QED BY <1>1, <1>2, PTL DEF Spec

\* The type invariant: in particular declareIdList never makes an array of
\* more than MAX_ARRAY_DIMENSION dimensions, however many names of array types
\* are stacked, so sizeInEachDimension is not overrun.
THEOREM FrontEndTypeCorrect == Spec => []TypeOK
<1>1. CheckInv /\ DeclInv => TypeOK
  BY DEF CheckInv, DeclInv, TypeOK
<1>. QED BY <1>1, CheckInvariant, DeclInvariant, PTL

-----------------------------------------------------------------------------
(* Layout: a recursion over the dimensions *)

\* Induction over the numbers, for sets: an operator cannot be a parameter.
LEMMA Induction ==
    ASSUME NEW T, T \subseteq Nat, 0 \in T, \A k \in T : k + 1 \in T
    PROVE  T = Nat
<1>. DEFINE before == OpToRel(<, Nat)
            rest == Nat \ T
<1>1. IsWellFoundedOn(before, Nat)
  BY NatLessThanWellFounded
<1>2. \A k \in Nat : <<k, k + 1>> \in before
  BY DEF OpToRel
<1>. HIDE DEF before
<1>3. ASSUME rest # {} PROVE FALSE
  <2>1. PICK x \in rest : \A y \in rest : <<y, x>> \notin before
    BY <1>1, <1>3, WFMin
  <2>2. x \in Nat /\ x # 0 /\ x - 1 \in Nat
    OBVIOUS
  <2>3. x - 1 \in rest /\ <<x - 1, x>> \in before
    BY <1>2, <2>2
  <2>. QED BY <2>1, <2>3
<1>. QED BY <1>3

\* What the recursion of Scaled defines.
Scales(a, dims, subs, i, g) ==
    g = [j \in 0 .. i |-> IF j = 0 THEN a ELSE (g[j - 1] * dims[j]) + Subscript(subs, j)]

LEMMA ScalesExist ==
    ASSUME NEW a, NEW dims, NEW subs, NEW i \in Nat
    PROVE  \E g : Scales(a, dims, subs, i, g)
<1>. DEFINE T == {k \in Nat : \E g : Scales(a, dims, subs, k, g)}
<1>1. 0 \in T
  <2>1. Scales(a, dims, subs, 0, [j \in 0 .. 0 |-> a])
    BY DEF Scales
  <2>. QED BY <2>1
<1>2. ASSUME NEW k \in T PROVE k + 1 \in T
  <2>1. PICK g : Scales(a, dims, subs, k, g)
    OBVIOUS
  <2>. DEFINE x == (g[k] * dims[k + 1]) + Subscript(subs, k + 1)
              h == [j \in 0 .. k + 1 |-> IF j <= k THEN g[j] ELSE x]
  <2>2. Scales(a, dims, subs, k + 1, h)
    <3>1. ASSUME NEW j \in 0 .. k + 1
          PROVE h[j] = IF j = 0 THEN a ELSE (h[j - 1] * dims[j]) + Subscript(subs, j)
      <4>1. j \in Int /\ k \in Nat
        OBVIOUS
      <4>2. CASE j = 0
        BY <4>1, <4>2, <2>1 DEF Scales
      <4>3. CASE j # 0 /\ j <= k
        <5>1. h[j] = g[j] /\ h[j - 1] = g[j - 1] /\ j \in 0 .. k
          BY <4>1, <4>3
        <5>2. g[j] = (g[j - 1] * dims[j]) + Subscript(subs, j)
          BY <4>3, <5>1, <2>1 DEF Scales
        <5>. QED BY <4>3, <5>1, <5>2
      <4>4. CASE j = k + 1
        <5>1. h[j] = x /\ h[j - 1] = g[k] /\ j # 0
          BY <4>1, <4>4
        <5>. QED BY <4>4, <5>1
      <4>. QED BY <4>1, <4>2, <4>3, <4>4
    <3>2. h = [j \in 0 .. k + 1 |-> h[j]]
      OBVIOUS
    <3>. HIDE DEF h
    <3>. QED BY <3>1, <3>2 DEF Scales
  <2>. QED BY <2>2
<1>. HIDE DEF T
<1>3. T = Nat
  BY <1>1, <1>2, Induction DEF T
<1>. QED BY <1>3 DEF T

LEMMA ScaledIsLast ==
    ASSUME NEW a, NEW dims, NEW subs, NEW i \in Nat
    PROVE  \E g : Scales(a, dims, subs, i, g) /\ Scaled(a, dims, subs, i) = g[i]
<1>. DEFINE g == CHOOSE x : x = [j \in 0 .. i |->
                    IF j = 0 THEN a ELSE (x[j - 1] * dims[j]) + Subscript(subs, j)]
<1>1. Scales(a, dims, subs, i, g)
  BY ScalesExist DEF Scales
<1>2. Scaled(a, dims, subs, i) = g[i]
  BY DEF Scaled
<1>. QED BY <1>1, <1>2

\* The same dimensions and subscripts up to i.
AlikeUpTo(dims, subs, dims2, subs2, i) ==
    \A j \in 1 .. i : dims[j] = dims2[j] /\ Subscript(subs, j) = Subscript(subs2, j)

LEMMA ScalesAgree ==
    ASSUME NEW a, NEW dims, NEW subs, NEW dims2, NEW subs2, NEW i \in Nat, NEW l \in Nat,
           NEW g, NEW h, Scales(a, dims, subs, i, g), Scales(a, dims2, subs2, l, h),
           i <= l, AlikeUpTo(dims, subs, dims2, subs2, i)
    PROVE  g[i] = h[i]
<1>. DEFINE T == {k \in Nat : k <= i => g[k] = h[k]}
<1>1. 0 \in T
  BY DEF Scales
<1>2. ASSUME NEW k \in T PROVE k + 1 \in T
  <2>1. ASSUME k + 1 <= i PROVE g[k + 1] = h[k + 1]
    <3>1. k + 1 \in 0 .. i /\ k + 1 \in 0 .. l /\ k + 1 # 0 /\ (k + 1) - 1 = k /\ k + 1 \in 1 .. i
      BY <2>1
    <3>2. /\ g[k + 1] = (g[k] * dims[k + 1]) + Subscript(subs, k + 1)
          /\ h[k + 1] = (h[k] * dims2[k + 1]) + Subscript(subs2, k + 1)
      BY <3>1 DEF Scales
    <3>3. dims[k + 1] = dims2[k + 1] /\ Subscript(subs, k + 1) = Subscript(subs2, k + 1)
      BY <3>1 DEF AlikeUpTo
    <3>4. g[k] = h[k]
      BY <2>1
    <3>. QED BY <3>2, <3>3, <3>4
  <2>. QED BY <2>1
<1>. HIDE DEF T
<1>3. T = Nat
  BY <1>1, <1>2, Induction DEF T
<1>. QED BY <1>3 DEF T

LEMMA ScaledZero == ASSUME NEW a, NEW dims, NEW subs PROVE Scaled(a, dims, subs, 0) = a
BY ScaledIsLast DEF Scales

LEMMA ScaledSame ==
    ASSUME NEW a, NEW dims, NEW subs, NEW dims2, NEW subs2, NEW i \in Nat,
           AlikeUpTo(dims, subs, dims2, subs2, i)
    PROVE  Scaled(a, dims, subs, i) = Scaled(a, dims2, subs2, i)
<1>1. PICK g : Scales(a, dims, subs, i, g) /\ Scaled(a, dims, subs, i) = g[i]
  BY ScaledIsLast
<1>2. PICK h : Scales(a, dims2, subs2, i, h) /\ Scaled(a, dims2, subs2, i) = h[i]
  BY ScaledIsLast
<1>3. i <= i /\ g[i] = h[i]
  BY <1>1, <1>2, ScalesAgree
<1>. QED BY <1>1, <1>2, <1>3

LEMMA ScaledNext ==
    ASSUME NEW a, NEW dims, NEW subs, NEW i \in Nat
    PROVE  Scaled(a, dims, subs, i + 1)
              = (Scaled(a, dims, subs, i) * dims[i + 1]) + Subscript(subs, i + 1)
<1>. DEFINE l == i + 1
<1>1. l \in Nat /\ i <= l /\ l \in 0 .. l /\ l # 0 /\ l - 1 = i
  OBVIOUS
<1>. HIDE DEF l
<1>2. PICK g : Scales(a, dims, subs, l, g) /\ Scaled(a, dims, subs, l) = g[l]
  BY <1>1, ScaledIsLast
<1>3. PICK h : Scales(a, dims, subs, i, h) /\ Scaled(a, dims, subs, i) = h[i]
  BY ScaledIsLast
<1>4. AlikeUpTo(dims, subs, dims, subs, i)
  BY DEF AlikeUpTo
<1>5. h[i] = g[i]
  BY <1>1, <1>2, <1>3, <1>4, ScalesAgree
<1>6. g[l] = (g[i] * dims[l]) + Subscript(subs, l)
  BY <1>1, <1>2 DEF Scales
<1>. QED BY <1>2, <1>3, <1>5, <1>6 DEF l

\* Numbers give numbers.
Numbers(dims, subs, i) == \A j \in 1 .. i : dims[j] \in Int /\ Subscript(subs, j) \in Int

LEMMA ScaledInt ==
    ASSUME NEW a \in Int, NEW dims, NEW subs, NEW i \in Nat,
           Numbers(dims, subs, i)
    PROVE  \A k \in 0 .. i : Scaled(a, dims, subs, k) \in Int
<1>. DEFINE T == {k \in Nat : k <= i => Scaled(a, dims, subs, k) \in Int}
<1>1. 0 \in T
  BY ScaledZero
<1>2. ASSUME NEW k \in T PROVE k + 1 \in T
  <2>1. ASSUME k + 1 <= i PROVE Scaled(a, dims, subs, k + 1) \in Int
    <3>1. k + 1 \in 1 .. i /\ Scaled(a, dims, subs, k) \in Int
      BY <2>1
    <3>2. dims[k + 1] \in Int /\ Subscript(subs, k + 1) \in Int
      BY <3>1 DEF Numbers
    <3>. QED BY <3>1, <3>2, ScaledNext
  <2>. QED BY <2>1
<1>. HIDE DEF T
<1>3. T = Nat
  BY <1>1, <1>2, Induction DEF T
<1>. QED BY <1>3 DEF T

\* What is scaled, and what is added on the way.
LEMMA ScaledLinear ==
    ASSUME NEW a \in Int, NEW dims, NEW subs, NEW i \in Nat,
           Numbers(dims, subs, i)
    PROVE  Scaled(a, dims, subs, i) = (a * Scaled(1, dims, <<>>, i)) + Scaled(0, dims, subs, i)
<1>. DEFINE v(k) == Scaled(a, dims, subs, k)  p(k) == Scaled(1, dims, <<>>, k)
            w(k) == Scaled(0, dims, subs, k)
            T == {k \in Nat : k <= i => v(k) = (a * p(k)) + w(k)}
<1>0. \A j \in Nat \ {0} : Subscript(<<>>, j) = 0
  BY EmptySeq DEF Subscript
<1>1. \A k \in 0 .. i : p(k) \in Int /\ w(k) \in Int
  <2>1. Numbers(dims, <<>>, i)
    BY <1>0 DEF Numbers
  <2>. QED BY <2>1, ScaledInt
<1>2. 0 \in T
  BY ScaledZero
<1>3. \A k \in Nat : /\ v(k + 1) = (v(k) * dims[k + 1]) + Subscript(subs, k + 1)
                     /\ p(k + 1) = (p(k) * dims[k + 1]) + 0
                     /\ w(k + 1) = (w(k) * dims[k + 1]) + Subscript(subs, k + 1)
  BY <1>0, ScaledNext
<1>. HIDE DEF v, p, w
<1>4. ASSUME NEW k \in T PROVE k + 1 \in T
  <2>1. ASSUME k + 1 <= i PROVE v(k + 1) = (a * p(k + 1)) + w(k + 1)
    <3>. DEFINE x == p(k)  y == w(k)  d == dims[k + 1]  s == Subscript(subs, k + 1)
    <3>1. k + 1 \in 1 .. i /\ k \in 0 .. i
      BY <2>1
    <3>2. x \in Int /\ y \in Int /\ d \in Int /\ s \in Int
      BY <1>1, <3>1 DEF Numbers
    <3>3. v(k) = (a * x) + y
      BY <2>1
    <3>4. /\ v(k + 1) = (((a * x) + y) * d) + s
          /\ p(k + 1) = (x * d) + 0 /\ w(k + 1) = (y * d) + s
      BY <1>3, <3>3
    <3>. HIDE DEF x, y, d, s
    <3>5. (((a * x) + y) * d) + s = (a * ((x * d) + 0)) + ((y * d) + s)
      BY <3>2
    <3>. QED BY <3>4, <3>5
  <2>. QED BY <2>1
<1>. HIDE DEF T
<1>5. T = Nat
  BY <1>2, <1>4, Induction DEF T
<1>. QED BY <1>5 DEF T, v, p, w

\* After m dimensions and subscripts those of base and t follow.
Follows(u, w, base, t, m, n) ==
    \A j \in 1 .. n : u[m + j] = base[j] /\ Subscript(w, m + j) = Subscript(t, j)

LEMMA ScaledGoesOn ==
    ASSUME NEW a, NEW u, NEW w, NEW base, NEW t, NEW m \in Nat, NEW n \in Nat,
           Follows(u, w, base, t, m, n)
    PROVE  Scaled(a, u, w, m + n) = Scaled(Scaled(a, u, w, m), base, t, n)
<1>. DEFINE b == Scaled(a, u, w, m)
            v(k) == Scaled(b, base, t, k)
            T == {k \in Nat : k <= n => Scaled(a, u, w, m + k) = v(k)}
<1>1. \A k \in Nat : v(k + 1) = (v(k) * base[k + 1]) + Subscript(t, k + 1)
  BY ScaledNext
<1>2. v(0) = b
  BY ScaledZero
<1>. HIDE DEF v
<1>3. 0 \in T
  BY <1>2
<1>4. ASSUME NEW k \in T PROVE k + 1 \in T
  <2>1. ASSUME k + 1 <= n PROVE Scaled(a, u, w, m + (k + 1)) = v(k + 1)
    <3>1. k + 1 \in 1 .. n /\ m + k \in Nat /\ (m + k) + 1 = m + (k + 1)
      BY <2>1
    <3>2. u[m + (k + 1)] = base[k + 1] /\ Subscript(w, m + (k + 1)) = Subscript(t, k + 1)
      BY <3>1 DEF Follows
    <3>3. Scaled(a, u, w, m + k) = v(k)
      BY <2>1
    <3>4. Scaled(a, u, w, (m + k) + 1) = (Scaled(a, u, w, m + k) * u[(m + k) + 1]) + Subscript(w, (m + k) + 1)
      BY <3>1, ScaledNext
    <3>. QED BY <1>1, <3>1, <3>2, <3>3, <3>4
  <2>. QED BY <2>1
<1>. HIDE DEF T
<1>5. T = Nat
  BY <1>3, <1>4, Induction DEF T
<1>6. n \in T
  BY <1>5
<1>. QED BY <1>6 DEF T, v

\* Dimensions in a row: the second part goes on with what the first has come to.
LEMMA ScaledConcat ==
    ASSUME NEW a, NEW own \in Seq(Int), NEW base \in Seq(Int), NEW s \in Seq(Int), NEW t \in Seq(Int),
           Len(s) = Len(own), Len(t) = Len(base)
    PROVE  Scaled(a, own \o base, s \o t, Len(own) + Len(base))
              = Scaled(Scaled(a, own, s, Len(own)), base, t, Len(base))
<1>. DEFINE m == Len(own)  n == Len(base)  u == own \o base  w == s \o t
<1>1. m \in Nat /\ n \in Nat /\ Len(s) = m /\ Len(t) = n
  BY LenProperties
<1>2. /\ Len(u) = m + n /\ Len(w) = m + n
      /\ \A j \in 1 .. m : u[j] = own[j] /\ w[j] = s[j]
      /\ \A j \in 1 .. n : u[m + j] = base[j] /\ w[m + j] = t[j]
  <2>1. /\ Len(u) = m + n
        /\ \A j \in 1 .. m + n : u[j] = IF j <= m THEN own[j] ELSE base[j - m]
    BY ConcatProperties
  <2>2. /\ Len(w) = m + n
        /\ \A j \in 1 .. m + n : w[j] = IF j <= m THEN s[j] ELSE t[j - m]
    <3>1. /\ Len(w) = Len(s) + Len(t)
          /\ \A j \in 1 .. Len(s) + Len(t) : w[j] = IF j <= Len(s) THEN s[j] ELSE t[j - Len(s)]
      BY ConcatProperties
    <3>. HIDE DEF w, m, n
    <3>. QED BY <1>1, <3>1
  <2>. HIDE DEF u, w, m, n
  <2>3. ASSUME NEW j \in 1 .. m PROVE u[j] = own[j] /\ w[j] = s[j]
    <3>1. j \in 1 .. m + n /\ j <= m
      BY <1>1
    <3>. QED BY <2>1, <2>2, <3>1
  <2>4. ASSUME NEW j \in 1 .. n PROVE u[m + j] = base[j] /\ w[m + j] = t[j]
    <3>1. m + j \in 1 .. m + n /\ ~(m + j <= m) /\ (m + j) - m = j
      BY <1>1
    <3>. QED BY <2>1, <2>2, <3>1
  <2>. QED BY <2>1, <2>2, <2>3, <2>4
<1>. HIDE DEF u, w, m, n
<1>3. Scaled(a, u, w, m) = Scaled(a, own, s, m)
  <2>1. ASSUME NEW j \in 1 .. m PROVE u[j] = own[j] /\ Subscript(w, j) = Subscript(s, j)
    BY <1>1, <1>2 DEF Subscript
  <2>2. AlikeUpTo(u, w, own, s, m)
    BY <2>1 DEF AlikeUpTo
  <2>. QED BY <1>1, <2>2, ScaledSame
<1>4. Follows(u, w, base, t, m, n)
  <2>1. ASSUME NEW j \in 1 .. n PROVE Subscript(w, m + j) = Subscript(t, j)
    <3>1. m + j <= m + n /\ j <= n
      BY <1>1
    <3>. QED BY <1>1, <1>2, <3>1 DEF Subscript
  <2>. QED BY <1>2, <2>1 DEF Follows
<1>5. Scaled(a, u, w, m + n) = Scaled(Scaled(a, u, w, m), base, t, n)
  BY <1>1, <1>4, ScaledGoesOn
<1>6. Scaled(a, u, w, m + n) = Scaled(Scaled(a, own, s, m), base, t, n)
  BY <1>3, <1>5
<1>. QED BY <1>6 DEF u, w, m, n

\* Subscripts below their dimensions.  The first dimension may be missing.
Within(dims, subs, i) ==
    \A j \in 1 .. i : /\ dims[j] \in Int /\ Subscript(subs, j) \in Nat
                      /\ j > 1 => Subscript(subs, j) < dims[j]

LEMMA SameQuotient ==
    ASSUME NEW x \in Int, NEW y \in Int, NEW d \in Int, NEW s \in Nat, NEW t \in Nat,
           s < d, t < d, (x * d) + s = (y * d) + t
    PROVE  x = y /\ s = t
<1>1. ASSUME NEW p \in Int, NEW q \in Int, NEW e \in Nat, NEW f \in Nat, e < d, f < d,
             (p * d) + e = (q * d) + f
      PROVE  ~(p < q)
  <2>1. ASSUME p < q PROVE FALSE
    <3>. DEFINE c == q - p - 1
    <3>1. c \in Nat /\ q = (p + 1) + c
      BY <2>1
    <3>. HIDE DEF c
    <3>2. c * d \in Nat
      BY <1>1, <3>1
    <3>3. q * d = (p * d) + d + (c * d)
      BY <3>1
    <3>4. p * d \in Int
      OBVIOUS
    <3>. QED BY <1>1, <3>2, <3>3, <3>4
  <2>. QED BY <2>1
<1>2. ~(x < y) /\ ~(y < x)
  BY <1>1
<1>3. x = y /\ x * d \in Int
  BY <1>2
<1>. QED BY <1>3

LEMMA ScaledDistinct ==
    ASSUME NEW dims, NEW s, NEW t, NEW i \in Nat, Within(dims, s, i), Within(dims, t, i),
           Scaled(0, dims, s, i) = Scaled(0, dims, t, i)
    PROVE  \A j \in 1 .. i : Subscript(s, j) = Subscript(t, j)
<1>. DEFINE v(k) == Scaled(0, dims, s, k)  w(k) == Scaled(0, dims, t, k)
            T == {k \in Nat : (k <= i /\ v(k) = w(k)) => \A j \in 1 .. k : Subscript(s, j) = Subscript(t, j)}
<1>1. \A k \in 0 .. i : v(k) \in Int /\ w(k) \in Int
  <2>1. Numbers(dims, s, i) /\ Numbers(dims, t, i)
    BY DEF Within, Numbers
  <2>. QED BY <2>1, ScaledInt
<1>2. \A k \in Nat : /\ v(k + 1) = (v(k) * dims[k + 1]) + Subscript(s, k + 1)
                     /\ w(k + 1) = (w(k) * dims[k + 1]) + Subscript(t, k + 1)
  BY ScaledNext
<1>3. v(0) = 0 /\ w(0) = 0
  BY ScaledZero
<1>. HIDE DEF v, w
<1>4. 0 \in T
  OBVIOUS
<1>5. ASSUME NEW k \in T PROVE k + 1 \in T
  <2>1. ASSUME k + 1 <= i, v(k + 1) = w(k + 1)
        PROVE  v(k) = w(k) /\ Subscript(s, k + 1) = Subscript(t, k + 1)
    <3>. DEFINE x == v(k)  y == w(k)  d == dims[k + 1]  e == Subscript(s, k + 1)  f == Subscript(t, k + 1)
    <3>1. k + 1 \in 1 .. i /\ k \in 0 .. i
      BY <2>1
    <3>2. /\ x \in Int /\ y \in Int /\ d \in Int /\ e \in Nat /\ f \in Nat
          /\ k # 0 => e < d /\ f < d
      BY <1>1, <3>1 DEF Within
    <3>3. (x * d) + e = (y * d) + f
      BY <1>2, <2>1
    <3>4. CASE k = 0
      <4>1. x = 0 /\ y = 0
        BY <1>3, <3>4
      <4>. HIDE DEF x, y, d, e, f
      <4>2. e = f
        BY <3>2, <3>3, <4>1
      <4>. QED BY <4>1, <4>2 DEF x, y, e, f
    <3>5. CASE k # 0
      <4>. HIDE DEF x, y, d, e, f
      <4>1. x = y /\ e = f
        BY <3>2, <3>3, <3>5, SameQuotient
      <4>. QED BY <4>1 DEF x, y, e, f
    <3>. QED BY <3>4, <3>5
  <2>2. ASSUME k + 1 <= i, v(k + 1) = w(k + 1), NEW j \in 1 .. k + 1
        PROVE  Subscript(s, j) = Subscript(t, j)
    <3>1. CASE j = k + 1
      BY <2>1, <2>2, <3>1
    <3>2. CASE j # k + 1
      <4>1. j \in 1 .. k /\ k <= i
        BY <2>2, <3>2
      <4>. QED BY <2>1, <2>2, <4>1
    <3>. QED BY <3>1, <3>2
  <2>. QED BY <2>2
<1>. HIDE DEF T
<1>6. T = Nat
  BY <1>4, <1>5, Induction DEF T
<1>. QED BY <1>6 DEF T, v, w

\* Elements inside the bounds lie inside the array.
LEMMA ScaledInside ==
    ASSUME NEW dims, NEW s, NEW i \in Nat, Within(dims, s, i),
           i > 0 => Subscript(s, 1) < dims[1]
    PROVE  Scaled(0, dims, s, i) \in Nat /\ Scaled(0, dims, s, i) < Scaled(1, dims, <<>>, i)
<1>. DEFINE v(k) == Scaled(0, dims, s, k)  p(k) == Scaled(1, dims, <<>>, k)
            T == {k \in Nat : k <= i => v(k) \in Nat /\ p(k) \in Nat /\ v(k) < p(k)}
<1>1. \A k \in Nat : /\ v(k + 1) = (v(k) * dims[k + 1]) + Subscript(s, k + 1)
                     /\ p(k + 1) = (p(k) * dims[k + 1]) + 0
  <2>1. \A k \in Nat : Subscript(<<>>, k + 1) = 0
    BY EmptySeq DEF Subscript
  <2>. QED BY <2>1, ScaledNext
<1>2. v(0) = 0 /\ p(0) = 1
  BY ScaledZero
<1>. HIDE DEF v, p
<1>3. 0 \in T
  BY <1>2
<1>4. ASSUME NEW k \in T PROVE k + 1 \in T
  <2>1. ASSUME k + 1 <= i PROVE v(k + 1) \in Nat /\ p(k + 1) \in Nat /\ v(k + 1) < p(k + 1)
    <3>. DEFINE x == v(k)  y == p(k)  d == dims[k + 1]  e == Subscript(s, k + 1)  c == y - x - 1
    <3>1. x \in Nat /\ y \in Nat /\ x < y
      BY <2>1
    <3>2. d \in Int /\ e \in Nat /\ e < d
      <4>1. k + 1 \in 1 .. i
        BY <2>1
      <4>. QED BY <2>1, <4>1 DEF Within
    <3>3. v(k + 1) = (x * d) + e /\ p(k + 1) = (y * d) + 0
      BY <1>1
    <3>4. c \in Nat /\ y = (x + 1) + c
      BY <3>1
    <3>. HIDE DEF x, y, d, e, c
    <3>5. x * d \in Nat /\ c * d \in Nat /\ d \in Nat
      BY <3>1, <3>2, <3>4
    <3>6. y * d = (x * d) + d + (c * d)
      BY <3>1, <3>2, <3>4
    <3>. QED BY <3>2, <3>3, <3>5, <3>6
  <2>. QED BY <2>1
<1>. HIDE DEF T
<1>5. T = Nat
  BY <1>3, <1>4, Induction DEF T
<1>. QED BY <1>5 DEF T, v, p

LEMMA InsideShape ==
    ASSUME NEW dims \in Seq(Int), NEW f \in Inside(dims)
    PROVE  /\ f \in Seq(Int) /\ Len(f) = Len(dims) /\ Within(dims, f, Len(dims))
           /\ f = [j \in 1 .. Len(dims) |-> Subscript(f, j)]
           /\ (Len(dims) > 0 /\ dims[1] # 0) => Subscript(f, 1) < dims[1]
<1>. DEFINE n == Len(dims)
<1>1. n \in Nat /\ DOMAIN dims = 1 .. n /\ \A j \in 1 .. n : dims[j] \in Int
  BY LenProperties, ElementOfSeq
<1>. HIDE DEF n
<1>2. f \in [1 .. n -> 0 .. Rows - 1]
  BY <1>1 DEF Inside
<1>3. \A j \in 1 .. n : f[j] < IF j = 1 /\ dims[j] = 0 THEN Rows ELSE dims[j]
  BY <1>1 DEF Inside
<1>4. \A j \in 1 .. n : f[j] \in Nat
  BY <1>2, DimensionAssumption
<1>5. f \in Seq(Int) /\ Len(f) = n
  <2>1. f \in [1 .. n -> Int]
    BY <1>2, <1>4
  <2>2. f \in Seq(Int)
    BY <1>1, <2>1
  <2>. QED BY <1>1, <2>1, <2>2, LenProperties
<1>6. \A j \in 1 .. n : Subscript(f, j) = f[j]
  BY <1>1, <1>5 DEF Subscript
<1>7. ASSUME NEW j \in 1 .. n, j > 1 PROVE Subscript(f, j) < dims[j]
  <2>1. j # 1 /\ f[j] < dims[j]
    BY <1>1, <1>3, <1>7
  <2>. QED BY <1>6, <2>1
<1>8. Within(dims, f, n)
  BY <1>1, <1>4, <1>6, <1>7 DEF Within
<1>9. (n > 0 /\ dims[1] # 0) => Subscript(f, 1) < dims[1]
  BY <1>1, <1>3, <1>6
<1>10. f = [j \in 1 .. n |-> Subscript(f, j)]
  BY <1>2, <1>6
<1>. QED BY <1>5, <1>8, <1>9, <1>10 DEF n

LEMMA SizesAreNumbers == ASSUME NEW s \in Seq(SizeValue) PROVE s \in Seq(Int)
<1>1. ASSUME NEW v \in SizeValue PROVE v \in Int
  <2>1. CASE v \in {d.value : d \in DimNodes}
    <3>1. PICK d \in DimNodes : v = d.value
      BY <2>1
    <3>. QED BY <3>1, DimensionAssumption
  <2>. QED BY <2>1, DimensionAssumption DEF SizeValue
<1>2. s \in [1 .. Len(s) -> SizeValue] /\ Len(s) \in Nat
  BY LenProperties
<1>. HIDE DEF SizeValue
<1>3. s \in [1 .. Len(s) -> Int]
  BY <1>1, <1>2
<1>. QED BY <1>2, <1>3, SeqDef

\* The sizes of an array of the table are numbers, and its size is exact.
LEMMA ArrayShape ==
    ASSUME DeclInv, NEW d \in {table[n].desc : n \in DOMAIN table}, d.kind = "ARRAY"
    PROVE  /\ d.dims \in Seq(Int) /\ Len(d.dims) \in Nat /\ Len(d.dims) > 0
           /\ Product(d.dims) \in Int /\ Size(d) = 4 * Product(d.dims)
<1>2. d.dims \in Seq(Int)
  <2>1. d.dims \in Seq(SizeValue)
    BY DEF DeclInv
  <2>. QED BY <2>1, SizesAreNumbers
<1>3. d.dims # <<>>
  BY DEF DeclInv, TableOK
<1>4. Len(d.dims) \in Nat /\ Len(d.dims) > 0
  BY <1>2, <1>3, EmptySeq, LenProperties
<1>. DEFINE p == Product(d.dims)  n == Len(d.dims)
<1>5. p \in Int
  <2>1. Numbers(d.dims, <<>>, n)
    <3>1. \A j \in 1 .. n : d.dims[j] \in Int
      BY <1>2, ElementOfSeq
    <3>2. \A j \in 1 .. n : Subscript(<<>>, j) = 0
      BY EmptySeq DEF Subscript
    <3>. QED BY <3>1, <3>2 DEF Numbers
  <2>. QED BY <1>4, <2>1, ScaledInt DEF Product
<1>6. Size(d) = ((p * 4 + 3) \div 4) * 4
  BY DEF Size
<1>. HIDE DEF p
<1>7. ((p * 4 + 3) \div 4) * 4 = 4 * p
  BY <1>5
<1>. QED BY <1>2, <1>4, <1>5, <1>6, <1>7 DEF p

LEMMA ElementsApart == DeclInv => ElementsDisjoint
<1>. SUFFICES ASSUME DeclInv, NEW n \in Arrays
              PROVE  LET d == table[n].desc IN
                     /\ \A s, t \in Inside(d.dims) : s # t => Offset(d, s) # Offset(d, t)
                     /\ d.dims[1] # 0 =>
                          \A s \in Inside(d.dims) : 0 <= Offset(d, s) /\ Offset(d, s) + 4 <= Size(d)
  BY DEF ElementsDisjoint
<1>. DEFINE d == table[n].desc  l == Len(d.dims)
<1>1. /\ d.dims \in Seq(Int) /\ l \in Nat /\ l > 0
      /\ Product(d.dims) \in Int /\ Size(d) = 4 * Product(d.dims)
  BY ArrayShape DEF Arrays
<1>. HIDE DEF d
<1>2. \A s \in Inside(d.dims) : Scaled(0, d.dims, s, l) \in Int
  <2>1. ASSUME NEW s \in Inside(d.dims) PROVE Numbers(d.dims, s, l)
    BY <1>1, InsideShape DEF Within, Numbers
  <2>. QED BY <1>1, <2>1, ScaledInt
<1>3. ASSUME NEW s \in Inside(d.dims), NEW t \in Inside(d.dims), Offset(d, s) = Offset(d, t)
      PROVE  s = t
  <2>1. Scaled(0, d.dims, s, l) = Scaled(0, d.dims, t, l)
    BY <1>2, <1>3 DEF Offset
  <2>2. Within(d.dims, s, l) /\ Within(d.dims, t, l)
    BY <1>1, InsideShape
  <2>. HIDE DEF l
  <2>3. \A j \in 1 .. l : Subscript(s, j) = Subscript(t, j)
    BY <1>1, <2>1, <2>2, ScaledDistinct
  <2>4. s = [j \in 1 .. l |-> Subscript(s, j)] /\ t = [j \in 1 .. l |-> Subscript(t, j)]
    BY <1>1, InsideShape DEF l
  <2>. QED BY <2>3, <2>4
<1>4. ASSUME d.dims[1] # 0, NEW s \in Inside(d.dims)
      PROVE  0 <= Offset(d, s) /\ Offset(d, s) + 4 <= Size(d)
  <2>. DEFINE v == Scaled(0, d.dims, s, l)  p == Scaled(1, d.dims, <<>>, l)
  <2>1. Within(d.dims, s, l) /\ Subscript(s, 1) < d.dims[1]
    BY <1>1, <1>4, InsideShape
  <2>2. v \in Nat /\ v < p
    <3>. HIDE DEF l
    <3>. QED BY <1>1, <2>1, ScaledInside
  <2>3. Offset(d, s) = 4 * v /\ Size(d) = 4 * p /\ p \in Int
    BY <1>1 DEF Offset, Product
  <2>. HIDE DEF v, p
  <2>. QED BY <2>2, <2>3
<1>. QED BY <1>3, <1>4 DEF d

LEMMA HeadOfConcat ==
    ASSUME NEW own \in Seq(Int), NEW base \in Seq(Int)
    PROVE  Len(own \o base) = Len(own) + Len(base) /\ SubSeq(own \o base, 1, Len(own)) = own
<1>. DEFINE u == own \o base  n == Len(own)  x == SubSeq(u, 1, n)
<1>1. n \in Nat /\ Len(base) \in Nat
  BY LenProperties
<1>2. /\ u \in Seq(Int) /\ Len(u) = n + Len(base)
      /\ \A j \in 1 .. n + Len(base) : u[j] = IF j <= n THEN own[j] ELSE base[j - n]
  BY ConcatProperties
<1>. HIDE DEF u, n
<1>3. \A j \in 1 .. n : u[j] = own[j]
  BY <1>1, <1>2
<1>4. \A j \in 1 .. n : u[j] \in Int
  BY <1>1, <1>2, ElementOfSeq
<1>5. /\ x \in Seq(Int) /\ Len(x) = (IF 1 <= n THEN n - 1 + 1 ELSE 0)
      /\ \A j \in 1 .. n - 1 + 1 : x[j] = u[1 + j - 1]
  BY <1>1, <1>4, SubSeqProperties
<1>. HIDE DEF x
<1>6. n - 1 + 1 = n /\ \A j \in 1 .. n : 1 + j - 1 = j
  BY <1>1
<1>7. Len(x) = n /\ \A j \in 1 .. n : x[j] = own[j]
  BY <1>1, <1>3, <1>5, <1>6
<1>8. x = own
  <2>1. Len(x) = Len(own)
    BY <1>7 DEF n
  <2>2. \A j \in 1 .. Len(own) : x[j] = own[j]
    BY <1>7 DEF n
  <2>. QED BY <1>5, <2>1, <2>2, SeqEqual
<1>. QED BY <1>2, <1>8 DEF u, n, x

LEMMA PartsFit == DeclInv => PartsAreObjects
<1>. SUFFICES ASSUME DeclInv, NEW n \in Arrays, Len(written[n].dims) > 0,
                     table[written[n].base].desc.kind = "ARRAY"
              PROVE  LET d == table[n].desc
                         b == table[written[n].base].desc
                         k == Len(written[n].dims) IN
                     /\ Len(d.dims) = k + Len(b.dims)
                     /\ \A own \in Inside(SubSeq(d.dims, 1, k)), sub \in Inside(b.dims) :
                          LET row == Offset(Descriptor("ARRAY", d.elem, SubSeq(d.dims, 1, k)), own) \div 4 IN
                          Offset(d, own \o sub) = (row * Size(b)) + Offset(b, sub)
  BY DEF PartsAreObjects
<1>. DEFINE d == table[n].desc  b == table[written[n].base].desc  k == Len(written[n].dims)
<1>1. n \in DOMAIN table /\ n \in DOMAIN written /\ d.kind = "ARRAY"
  BY DEF Arrays, DeclInv, TableOK
<1>2. MadeOf(d, written[n].base, written[n].dims)
  BY <1>1 DEF DeclInv
<1>3. PICK own \in Seq(SizeValue) : Len(own) = k /\ d.dims = own \o b.dims
  BY <1>2 DEF MadeOf
<1>4. written[n].base \in DOMAIN table
  BY <1>2 DEF MadeOf
<1>5. /\ d.dims \in Seq(Int) /\ b.dims \in Seq(Int) /\ Len(b.dims) \in Nat /\ Len(b.dims) > 0
      /\ Product(b.dims) \in Int /\ Size(b) = 4 * Product(b.dims)
  BY <1>1, <1>4, ArrayShape
<1>6. own \in Seq(Int) /\ Len(own) \in Nat
  BY SizesAreNumbers, LenProperties
<1>. HIDE DEF d, b, k
<1>7. Len(d.dims) = k + Len(b.dims) /\ SubSeq(d.dims, 1, k) = own
  BY <1>3, <1>5, <1>6, HeadOfConcat
<1>8. ASSUME NEW s \in Inside(own), NEW t \in Inside(b.dims)
      PROVE  LET row == Offset(Descriptor("ARRAY", d.elem, own), s) \div 4 IN
             Offset(d, s \o t) = (row * Size(b)) + Offset(b, t)
  <2>. DEFINE m == Len(b.dims)  v == Scaled(0, own, s, k)  w == Scaled(0, b.dims, t, m)
              p == Product(b.dims)
  <2>1. s \in Seq(Int) /\ t \in Seq(Int) /\ Len(s) = k /\ Len(t) = m
    BY <1>3, <1>5, <1>6, InsideShape
  <2>2. Numbers(own, s, k) /\ Numbers(b.dims, t, m)
    <3>1. Within(own, s, k) /\ Within(b.dims, t, m)
      BY <1>3, <1>5, <1>6, InsideShape
    <3>. QED BY <3>1 DEF Within, Numbers
  <2>3. v \in Int /\ w \in Int /\ k \in Nat /\ m \in Nat
    <3>1. k \in Nat /\ m \in Nat
      BY <1>3, <1>5, <1>6
    <3>2. k \in 0 .. k /\ m \in 0 .. m /\ 0 \in Int
      BY <3>1
    <3>3. v \in Int
      BY <2>2, <3>1, <3>2, ScaledInt
    <3>. HIDE DEF m
    <3>4. w \in Int
      BY <2>2, <3>1, <3>2, ScaledInt
    <3>. QED BY <3>1, <3>3, <3>4
  <2>4. Scaled(0, d.dims, s \o t, k + m) = Scaled(v, b.dims, t, m)
    <3>1. Len(own) = k /\ Len(s) = Len(own) /\ Len(t) = Len(b.dims)
      BY <1>3, <2>1
    <3>2. Scaled(0, own \o b.dims, s \o t, Len(own) + Len(b.dims))
             = Scaled(Scaled(0, own, s, Len(own)), b.dims, t, Len(b.dims))
      <4>1. \A x, c \in Seq(Int) : \A y, z \in Seq(Int) : Len(y) = Len(x) /\ Len(z) = Len(c) =>
              Scaled(0, x \o c, y \o z, Len(x) + Len(c)) = Scaled(Scaled(0, x, y, Len(x)), c, z, Len(c))
        BY ScaledConcat
      <4>2. own \in Seq(Int) /\ b.dims \in Seq(Int) /\ s \in Seq(Int) /\ t \in Seq(Int)
        BY <1>5, <1>6, <2>1
      <4>. QED BY <3>1, <4>1, <4>2
    <3>. QED BY <1>3, <3>1, <3>2
  <2>5. Scaled(v, b.dims, t, m) = (v * p) + w
    <3>. HIDE DEF v, m
    <3>. QED BY <2>2, <2>3, ScaledLinear DEF Product, m
  <2>6. Offset(d, s \o t) = 4 * ((v * p) + w) /\ Offset(b, t) = 4 * w
    BY <1>7, <2>4, <2>5 DEF Offset
  <2>7. Offset(Descriptor("ARRAY", d.elem, own), s) = 4 * v
    BY <1>3 DEF Offset, Descriptor
  <2>8. p \in Int /\ Size(b) = 4 * p
    BY <1>5
  <2>. HIDE DEF v, w, p
  <2>9. (4 * v) \div 4 = v
    BY <2>3
  <2>10. 4 * ((v * p) + w) = (v * (4 * p)) + (4 * w)
    BY <2>3, <2>8
  <2>. QED BY <2>6, <2>7, <2>8, <2>9, <2>10
<1>. QED BY <1>7, <1>8 DEF d, b, k

\* Two elements of an array never share a word, and all lie in the room the frame
\* or .space has for it: getAddress and size read the same descriptor, whichever
\* declarations it is made of (declareIdList), in exact arithmetic.
THEOREM ElementsAreApart == Spec => []ElementsDisjoint
BY ElementsApart, DeclInvariant, PTL

\* What a partly subscripted array selects is laid out as an object of the type
\* the array was declared with, so that it can be passed where one is expected.
THEOREM PartsAreOfTheirType == Spec => []PartsAreObjects
BY PartsFit, DeclInvariant, PTL

-----------------------------------------------------------------------------
(* The AST: lists of siblings *)

NodeRec == [child : Nat, right : Nat, left : Nat, parent : Nat]
ValueRec == [node : Nat, list : BOOLEAN]

LEMMA AsSeq ==
    ASSUME NEW S, NEW n \in Nat, NEW f \in [1 .. n -> S]
    PROVE  f \in Seq(S) /\ Len(f) = n /\ DOMAIN f = 1 .. n
OBVIOUS

\* l is a whole list of siblings of the heap h, the first one first.
Siblings(h, l) ==
    /\ l \in Seq(Nat) /\ Len(l) >= 1
    /\ \A i \in 1 .. Len(l) :
          /\ l[i] \in 1 .. Len(h)
          /\ h[l[i]].left = l[1] /\ h[l[i]].parent = h[l[1]].parent
          /\ h[l[i]].right = IF i = Len(l) THEN Null ELSE l[i + 1]
    /\ \A i, j \in 1 .. Len(l) : l[i] = l[j] => i = j

LEMMA ListsFit ==
    ASSUME NEW h \in Seq(NodeRec), NEW l, Siblings(h, l)
    PROVE  Len(l) <= Len(h) /\ Len(l) \in Nat /\ Len(h) \in Nat
<1>. DEFINE n == Len(l)  m == Len(h)
<1>1. n \in Nat /\ m \in Nat /\ l \in [1 .. n -> Nat]
  BY LenProperties DEF Siblings
<1>2. \A i \in 1 .. n : l[i] \in 1 .. m
  BY DEF Siblings
<1>3. l \in [1 .. n -> 1 .. m]
  BY <1>1, <1>2
<1>4. \A i, j \in 1 .. n : l[i] = l[j] => i = j
  BY DEF Siblings
<1>. HIDE DEF n, m
<1>5. l \in Injection(1 .. n, 1 .. m)
  BY <1>3, <1>4 DEF Injection, IsInjective
<1>6. ASSUME NEW k \in Nat PROVE IsFiniteSet(1 .. k) /\ Cardinality(1 .. k) = k
  <2>1. 1 \in Int /\ k \in Int
    OBVIOUS
  <2>2. IsFiniteSet(1 .. k) /\ Cardinality(1 .. k) = IF 1 > k THEN 0 ELSE k - 1 + 1
    BY <2>1, FS_Interval
  <2>. QED BY <2>2
<1>7. Cardinality(1 .. n) <= Cardinality(1 .. m)
  <2>1. IsFiniteSet(1 .. m)
    BY <1>1, <1>6
  <2>. QED BY <1>5, <2>1, FS_Injection
<1>8. n <= m
  BY <1>1, <1>6, <1>7
<1>. QED BY <1>1, <1>8 DEF n, m

LEMMA Longer ==
    ASSUME NEW l \in Seq(Nat), NEW i \in 1 .. Len(l), NEW m \in i .. Len(l)
    PROVE  LET c == SubSeq(l, i, m) IN
           /\ c \in Seq(Nat) /\ Len(c) = (m - i) + 1 /\ c[Len(c)] = l[m]
           /\ \A j \in 1 .. (m - i) + 1 : c[j] = l[(i + j) - 1]
           /\ m < Len(l) => Append(c, l[m + 1]) = SubSeq(l, i, m + 1)
<1>1. Len(l) \in Nat /\ i \in Int /\ m \in Int /\ \A j \in 1 .. Len(l) : l[j] \in Nat
  BY LenProperties, ElementOfSeq
<1>2. ASSUME NEW k \in i .. Len(l)
      PROVE  LET c == SubSeq(l, i, k) IN
             /\ c \in Seq(Nat) /\ Len(c) = (k - i) + 1
             /\ \A j \in 1 .. (k - i) + 1 : c[j] = l[(i + j) - 1]
  <2>1. k \in Int /\ \A j \in i .. k : l[j] \in Nat
    BY <1>1
  <2>. QED BY <1>1, <2>1, SubSeqProperties
<1>. DEFINE c == SubSeq(l, i, m)
<1>3. c \in Seq(Nat) /\ Len(c) = (m - i) + 1 /\ \A j \in 1 .. (m - i) + 1 : c[j] = l[(i + j) - 1]
  BY <1>2
<1>4. c[Len(c)] = l[m]
  <2>1. Len(c) \in 1 .. (m - i) + 1 /\ (i + Len(c)) - 1 = m
    BY <1>1, <1>3
  <2>. QED BY <1>3, <2>1
<1>5. ASSUME m < Len(l) PROVE Append(c, l[m + 1]) = SubSeq(l, i, m + 1)
  <2>. DEFINE d == SubSeq(l, i, m + 1)  e == Append(c, l[m + 1])
  <2>1. m + 1 \in i .. Len(l) /\ ((m + 1) - i) + 1 = Len(c) + 1 /\ Len(c) \in Nat
        /\ m + 1 \in 1 .. Len(l) /\ (i + (Len(c) + 1)) - 1 = m + 1
    BY <1>1, <1>3, <1>5
  <2>2. d \in Seq(Nat) /\ Len(d) = Len(c) + 1 /\ \A j \in 1 .. Len(c) + 1 : d[j] = l[(i + j) - 1]
    BY <1>2, <2>1
  <2>. DEFINE z == l[m + 1]
  <2>3. z \in Nat
    BY <1>1, <2>1
  <2>4. c \in Seq(Nat) /\ e = Append(c, z)
    BY <1>3
  <2>. HIDE DEF c, d, e, z
  <2>5. /\ e \in Seq(Nat) /\ Len(e) = Len(c) + 1
        /\ \A j \in 1 .. Len(c) : e[j] = c[j]
        /\ e[Len(c) + 1] = z
    BY <2>3, <2>4, AppendProperties
  <2>6. \A j \in 1 .. Len(c) + 1 : e[j] = d[j]
    <3>1. ASSUME NEW j \in 1 .. Len(c) + 1 PROVE e[j] = d[j]
      <4>1. CASE j = Len(c) + 1
        BY <2>1, <2>2, <2>5, <4>1 DEF z
      <4>2. CASE j \in 1 .. Len(c)
        BY <1>3, <2>2, <2>5, <4>2
      <4>. QED BY <2>1, <4>1, <4>2
    <3>. QED BY <3>1
  <2>7. e = d
    BY <2>2, <2>5, <2>6, SeqEqual
  <2>. QED BY <2>7 DEF d, e, z, c
<1>. QED BY <1>3, <1>4, <1>5

\* What the recursion of Chain defines.
ChainIs(h, a, u) ==
    u = [k \in 1 .. Len(h) |->
          IF k = 1 THEN <<a>>
          ELSE LET c == u[k - 1] IN
               IF h[c[Len(c)]].right = Null THEN c ELSE Append(c, h[c[Len(c)]].right)]

LEMMA ChainShape ==
    ASSUME NEW h \in Seq(NodeRec), NEW l, Siblings(h, l), NEW i \in 1 .. Len(l)
    PROVE  Chain(h, l[i]) = SubSeq(l, i, Len(l))
<1>. DEFINE n == Len(l)  N == Len(h)  a == l[i]
            To(k) == IF (i + k) - 1 <= n THEN (i + k) - 1 ELSE n
            w == [k \in 1 .. N |-> SubSeq(l, i, To(k))]
<1>1. n \in Nat /\ N \in Nat /\ n <= N /\ i \in Nat /\ i >= 1 /\ i <= n /\ l \in Seq(Nat)
  <2>1. n <= N /\ n \in Nat /\ N \in Nat
    BY ListsFit
  <2>. QED BY <2>1 DEF Siblings
<1>2. SubSeq(l, i, i) = <<a>>
  <2>. DEFINE c == SubSeq(l, i, i)
  <2>1. i \in 1 .. n /\ i \in i .. n /\ (i - i) + 1 = 1 /\ 1 \in 1 .. 1 /\ (i + 1) - 1 = i
    BY <1>1
  <2>2. c \in Seq(Nat) /\ Len(c) = 1 /\ c[1] = a
    BY <1>1, <2>1, Longer
  <2>. HIDE DEF c
  <2>3. a \in Nat
    BY ElementOfSeq DEF Siblings
  <2>4. <<a>> \in Seq(Nat) /\ Len(<<a>>) = 1 /\ <<a>>[1] = a
    BY <2>3
  <2>. HIDE DEF a
  <2>5. \A j \in 1 .. Len(c) : c[j] = <<a>>[j]
    BY <2>2, <2>4
  <2>6. c = <<a>>
    BY <2>2, <2>4, <2>5, SeqEqual
  <2>. QED BY <2>6 DEF c
\* One round of the recursion, from the list up to the k-th node on.
<1>3. ASSUME NEW k \in Nat, k >= 1, NEW c, c = SubSeq(l, i, To(k))
      PROVE  (IF h[c[Len(c)]].right = Null THEN c ELSE Append(c, h[c[Len(c)]].right))
                = SubSeq(l, i, To(k + 1))
  <2>. DEFINE m == To(k)
  <2>1. m \in i .. n /\ m \in 1 .. n /\ m <= n /\ (m < n => To(k + 1) = m + 1) /\ (m = n => To(k + 1) = n)
    BY <1>1, <1>3
  <2>. HIDE DEF m
  <2>2. c[Len(c)] = l[m] /\ (m < n => Append(c, l[m + 1]) = SubSeq(l, i, m + 1))
    BY <1>1, <1>3, <2>1, Longer DEF m
  <2>3. h[l[m]].right = IF m = n THEN Null ELSE l[m + 1]
    BY <2>1 DEF Siblings
  <2>4. m < n => l[m + 1] # Null
    <3>1. m < n => m + 1 \in 1 .. n
      BY <1>1, <2>1
    <3>2. m < n => l[m + 1] \in 1 .. Len(h)
      BY <3>1 DEF Siblings
    <3>. QED BY <3>2 DEF Null
  <2>. DEFINE q == h[c[Len(c)]].right
  <2>5. q = IF m = n THEN Null ELSE l[m + 1]
    BY <2>2, <2>3
  <2>. HIDE DEF q, To, n
  <2>6. CASE m < n
    <3>1. m # n /\ To(k + 1) = m + 1
      BY <1>1, <2>1, <2>6
    <3>2. q = l[m + 1] /\ q # Null
      BY <2>4, <2>5, <2>6, <3>1
    <3>3. Append(c, q) = SubSeq(l, i, m + 1)
      BY <2>2, <2>6, <3>2
    <3>. QED BY <3>1, <3>2, <3>3 DEF q
  <2>7. CASE m = n
    <3>1. q = Null /\ c = SubSeq(l, i, n) /\ To(k + 1) = n
      BY <1>3, <2>1, <2>5, <2>7 DEF m
    <3>. QED BY <3>1 DEF q
  <2>8. m < n \/ m = n
    BY <1>1, <2>1
  <2>. QED BY <2>6, <2>7, <2>8
<1>4. To(1) = i /\ To(N) = n
  BY <1>1
<1>. HIDE DEF To
<1>5. ChainIs(h, a, w)
  <2>1. ASSUME NEW k \in 1 .. N
        PROVE  w[k] = IF k = 1 THEN <<a>>
                      ELSE LET c == w[k - 1] IN
                           IF h[c[Len(c)]].right = Null THEN c ELSE Append(c, h[c[Len(c)]].right)
    <3>1. CASE k = 1
      BY <1>1, <1>2, <1>4, <3>1
    <3>2. CASE k # 1
      <4>1. k - 1 \in Nat /\ k - 1 >= 1 /\ k - 1 \in 1 .. N /\ (k - 1) + 1 = k
        BY <1>1, <3>2
      <4>2. w[k - 1] = SubSeq(l, i, To(k - 1)) /\ w[k] = SubSeq(l, i, To(k))
        BY <4>1
      <4>. HIDE DEF w
      <4>. QED BY <1>3, <3>2, <4>1, <4>2
    <3>. QED BY <3>1, <3>2
  <2>2. w = [k \in 1 .. N |-> w[k]]
    OBVIOUS
  <2>. HIDE DEF w
  <2>. QED BY <2>1, <2>2 DEF ChainIs
<1>6. ASSUME NEW u, ChainIs(h, a, u) PROVE u[N] = SubSeq(l, i, n)
  <2>. DEFINE T == {k \in Nat : k + 1 <= N => u[k + 1] = SubSeq(l, i, To(k + 1))}
  <2>1. 0 \in T
    <3>1. 1 \in 1 .. N
      BY <1>1
    <3>2. u[1] = <<a>>
      BY <1>6, <3>1 DEF ChainIs
    <3>3. 0 + 1 = 1
      OBVIOUS
    <3>4. u[0 + 1] = SubSeq(l, i, To(0 + 1))
      BY <1>2, <1>4, <3>2, <3>3
    <3>. QED BY <3>4
  <2>2. ASSUME NEW k \in T PROVE k + 1 \in T
    <3>1. ASSUME (k + 1) + 1 <= N PROVE u[(k + 1) + 1] = SubSeq(l, i, To((k + 1) + 1))
      <4>. DEFINE c == u[k + 1]
      <4>1. /\ k + 1 \in Nat /\ k + 1 >= 1 /\ k + 1 <= N
            /\ (k + 1) + 1 \in 1 .. N /\ (k + 1) + 1 # 1 /\ ((k + 1) + 1) - 1 = k + 1
        BY <1>1, <3>1
      <4>2. c = SubSeq(l, i, To(k + 1))
        BY <4>1
      <4>3. u[(k + 1) + 1]
              = IF h[c[Len(c)]].right = Null THEN c ELSE Append(c, h[c[Len(c)]].right)
        BY <1>6, <4>1 DEF ChainIs
      <4>. HIDE DEF c
      <4>. QED BY <1>3, <4>1, <4>2, <4>3
    <3>. QED BY <3>1
  <2>. HIDE DEF T
  <2>3. T = Nat
    BY <2>1, <2>2, Induction DEF T
  <2>4. N - 1 \in T /\ (N - 1) + 1 = N
    BY <1>1, <2>3
  <2>. QED BY <1>4, <2>4 DEF T
<1>. DEFINE u == CHOOSE x : ChainIs(h, a, x)
<1>7. Chain(h, a) = u[N]
  BY DEF Chain, ChainIs
<1>8. ChainIs(h, a, u)
  BY <1>5
<1>. HIDE DEF u
<1>. QED BY <1>6, <1>7, <1>8

\* Every node is in a list, and the pointers between the lists agree.
InList(h, n) == \E l : Siblings(h, l) /\ \E i \in 1 .. Len(l) : l[i] = n
ChildAgrees(h, n) ==
    h[n].child # Null => /\ h[n].child \in 1 .. Len(h)
                         /\ h[h[n].child].parent = n /\ h[h[n].child].left = h[n].child
ParentAgrees(h, n) ==
    h[n].parent # Null => h[n].parent \in 1 .. Len(h) /\ h[h[n].parent].child = h[n].left
Linked(h) ==
    /\ h \in Seq(NodeRec)
    /\ \A n \in 1 .. Len(h) : InList(h, n) /\ ChildAgrees(h, n) /\ ParentAgrees(h, n)

LEMMA WholeShape ==
    ASSUME NEW h, Linked(h), NEW b \in 1 .. Len(h)
    PROVE  LET l == Whole(h, b) IN
           /\ Siblings(h, l) /\ l[1] = h[b].left /\ l[1] \in 1 .. Len(h)
           /\ \A n \in 1 .. Len(h) : h[n].left = h[b].left <=> \E i \in 1 .. Len(l) : l[i] = n
           /\ \A n \in 1 .. Len(h) : h[n].left = h[b].left => h[n].parent = h[b].parent
           /\ Last(Chain(h, b)) = l[Len(l)]
           /\ Len(l) \in 1 .. Len(l)
<1>1. ASSUME NEW n \in 1 .. Len(h)
      PROVE  \E l : /\ Siblings(h, l) /\ Whole(h, n) = l /\ l[1] = h[n].left
                    /\ \E i \in 1 .. Len(l) : l[i] = n /\ Chain(h, n) = SubSeq(l, i, Len(l))
  <2>1. PICK l : Siblings(h, l) /\ \E i \in 1 .. Len(l) : l[i] = n
    BY DEF Linked, InList
  <2>2. PICK i \in 1 .. Len(l) : l[i] = n
    BY <2>1
  <2>3. l \in Seq(Nat) /\ Len(l) \in Nat /\ 1 \in 1 .. Len(l)
    BY <2>1, LenProperties DEF Siblings
  <2>4. h[n].left = l[1]
    BY <2>1, <2>2 DEF Siblings
  <2>5. Chain(h, n) = SubSeq(l, i, Len(l)) /\ Chain(h, l[1]) = SubSeq(l, 1, Len(l))
    BY <2>1, <2>2, <2>3, ChainShape DEF Linked
  <2>6. SubSeq(l, 1, Len(l)) = l
    <3>. DEFINE c == SubSeq(l, 1, Len(l))  k == Len(l)
    <3>1. k \in Nat /\ k \in 1 .. k /\ (k - 1) + 1 = k /\ \A j \in 1 .. k : (1 + j) - 1 = j
      BY <2>3
    <3>2. c \in Seq(Nat) /\ Len(c) = k /\ \A j \in 1 .. k : c[j] = l[j]
      BY <2>3, <3>1, Longer
    <3>. HIDE DEF c
    <3>3. c = l
      BY <2>3, <3>2, SeqEqual
    <3>. QED BY <3>3 DEF c
  <2>7. Whole(h, n) = l
    BY <2>4, <2>5, <2>6 DEF Whole
  <2>. QED BY <2>1, <2>2, <2>4, <2>5, <2>7
<1>. DEFINE l == Whole(h, b)
<1>2. Siblings(h, l) /\ l[1] = h[b].left
  BY <1>1
<1>3. \A n \in 1 .. Len(h) : h[n].left = h[b].left => \E i \in 1 .. Len(l) : l[i] = n
  <2>1. ASSUME NEW n \in 1 .. Len(h), h[n].left = h[b].left
        PROVE  \E i \in 1 .. Len(l) : l[i] = n
    <3>1. Whole(h, n) = l
      BY <2>1 DEF Whole
    <3>. QED BY <1>1, <3>1
  <2>. QED BY <2>1
<1>4. \A n \in 1 .. Len(h) : (\E i \in 1 .. Len(l) : l[i] = n) => h[n].left = h[b].left
  BY <1>2 DEF Siblings
<1>5. \A n \in 1 .. Len(h) : h[n].left = h[b].left => h[n].parent = h[b].parent
  <2>1. ASSUME NEW n \in 1 .. Len(h), h[n].left = h[b].left PROVE h[n].parent = h[b].parent
    <3>1. PICK i \in 1 .. Len(l) : l[i] = n
      BY <1>3, <2>1
    <3>2. PICK j \in 1 .. Len(l) : l[j] = b
      BY <1>3
    <3>. QED BY <1>2, <3>1, <3>2 DEF Siblings
  <2>. QED BY <2>1
<1>6. Len(l) \in 1 .. Len(l) /\ l[1] \in 1 .. Len(h) /\ l \in Seq(Nat)
  <2>1. Len(l) \in Nat /\ Len(l) >= 1 /\ l \in Seq(Nat)
    BY <1>2, LenProperties DEF Siblings
  <2>2. 1 \in 1 .. Len(l)
    BY <2>1
  <2>. QED BY <1>2, <2>1, <2>2 DEF Siblings
<1>7. Last(Chain(h, b)) = l[Len(l)]
  <2>1. PICK i \in 1 .. Len(l) : Chain(h, b) = SubSeq(l, i, Len(l))
    BY <1>1
  <2>. DEFINE c == SubSeq(l, i, Len(l))
  <2>2. Len(l) \in i .. Len(l) /\ l \in Seq(Nat)
    BY <1>6
  <2>. HIDE DEF l
  <2>3. c[Len(c)] = l[Len(l)]
    BY <2>2, Longer
  <2>. QED BY <2>1, <2>3 DEF Last
<1>. QED BY <1>2, <1>3, <1>4, <1>5, <1>6, <1>7

\* Nodes under a parent and nodes without one are in different lists.
LEMMA ListsDiffer ==
    ASSUME NEW h, Linked(h), NEW a \in 1 .. Len(h), NEW b \in 1 .. Len(h),
           h[a].parent # h[b].parent
    PROVE  h[a].left # h[b].left
BY WholeShape

\* The list of b continues that of a.
Continued(h, g, a, b) ==
    /\ g \in Seq(NodeRec) /\ Len(g) = Len(h)
    /\ \A n \in 1 .. Len(h) :
          /\ g[n].child = h[n].child
          /\ g[n].left = IF h[n].left = h[b].left THEN h[a].left ELSE h[n].left
          /\ g[n].parent = IF h[n].left = h[b].left THEN h[a].parent ELSE h[n].parent
          /\ g[n].right = IF n = Last(Whole(h, a)) THEN h[b].left ELSE h[n].right

LEMMA NodeTyped ==
    ASSUME NEW h \in Seq(NodeRec), NEW n \in 1 .. Len(h)
    PROVE  /\ h[n] \in NodeRec /\ h[n].child \in Nat /\ h[n].right \in Nat
           /\ h[n].left \in Nat /\ h[n].parent \in Nat
<1>1. h[n] \in NodeRec
  BY ElementOfSeq
<1>. QED BY <1>1 DEF NodeRec

LEMMA MakeSiblingContinues ==
    ASSUME NEW h, Linked(h), NEW a \in 1 .. Len(h), NEW b \in 1 .. Len(h), h[a].left # h[b].left
    PROVE  Continued(h, MakeSibling(h, a, b), a, b)
<1>. DEFINE g == MakeSibling(h, a, b)  t == Last(Chain(h, a))  x == h[a].left  p == h[a].parent
            e(n) == IF n = t THEN [h[n] EXCEPT !.right = h[b].left]
                    ELSE IF h[n].left = h[b].left THEN [h[n] EXCEPT !.left = x, !.parent = p]
                    ELSE h[n]
<1>1. h \in Seq(NodeRec) /\ Len(h) \in Nat /\ DOMAIN h = 1 .. Len(h)
  BY LenProperties DEF Linked
<1>2. /\ t = Last(Whole(h, a)) /\ t \in 1 .. Len(h)
      /\ h[t].left = x /\ h[t].parent = p
  <2>. DEFINE l == Whole(h, a)
  <2>1. Siblings(h, l) /\ t = l[Len(l)] /\ Len(l) \in 1 .. Len(l) /\ l[1] = x
    BY WholeShape
  <2>2. l[Len(l)] \in 1 .. Len(h) /\ h[l[Len(l)]].left = x
    BY <2>1 DEF Siblings
  <2>3. h[l[Len(l)]].parent = p
    BY <2>2, WholeShape
  <2>. QED BY <2>1, <2>2, <2>3 DEF Last
<1>3. \A n \in 1 .. Len(h) : n \in ToSet(Whole(h, b)) <=> h[n].left = h[b].left
  <2>. DEFINE l == Whole(h, b)
  <2>1. Siblings(h, l) /\ \A n \in 1 .. Len(h) : h[n].left = h[b].left <=> \E i \in 1 .. Len(l) : l[i] = n
    BY WholeShape
  <2>2. DOMAIN l = 1 .. Len(l)
    BY <2>1, LenProperties DEF Siblings
  <2>. QED BY <2>1, <2>2 DEF ToSet
<1>. HIDE DEF t
<1>4. \A n \in 1 .. Len(h) : g[n] = e(n)
  <2>1. g = [n \in DOMAIN h |->
               IF n = t THEN [h[n] EXCEPT !.right = h[b].left]
               ELSE IF n \in ToSet(Whole(h, b))
                    THEN [h[n] EXCEPT !.left = h[t].left, !.parent = h[t].parent]
                    ELSE h[n]]
    BY DEF MakeSibling, t
  <2>. HIDE DEF g
  <2>. QED BY <2>1, <1>1, <1>2, <1>3
<1>5. DOMAIN g = 1 .. Len(h) /\ g = [n \in 1 .. Len(h) |-> g[n]]
  BY <1>1 DEF MakeSibling
<1>. HIDE DEF g
<1>6. ASSUME NEW n \in 1 .. Len(h)
      PROVE  /\ g[n] \in NodeRec /\ g[n].child = h[n].child
             /\ g[n].left = IF h[n].left = h[b].left THEN x ELSE h[n].left
             /\ g[n].parent = IF h[n].left = h[b].left THEN p ELSE h[n].parent
             /\ g[n].right = IF n = t THEN h[b].left ELSE h[n].right
  <2>1. h[n] \in NodeRec /\ x \in Nat /\ p \in Nat /\ h[b].left \in Nat
    BY <1>1, NodeTyped
  <2>. DEFINE r == h[n]
  <2>2. g[n] = IF n = t THEN [r EXCEPT !.right = h[b].left]
               ELSE IF r.left = h[b].left THEN [r EXCEPT !.left = x, !.parent = p] ELSE r
    BY <1>4
  <2>3. n = t => r.left = x /\ r.left # h[b].left
    BY <1>2
  <2>4. r \in NodeRec
    BY <2>1
  <2>. HIDE DEF r, x, p
  <2>5. CASE n = t
    <3>1. g[n] = [r EXCEPT !.right = h[b].left]
      BY <2>2, <2>5
    <3>2. /\ g[n] \in NodeRec /\ g[n].child = r.child /\ g[n].left = r.left
          /\ g[n].parent = r.parent /\ g[n].right = h[b].left
      BY <2>1, <2>4, <3>1 DEF NodeRec
    <3>. QED BY <2>3, <2>5, <3>2 DEF r
  <2>6. CASE n # t /\ r.left = h[b].left
    <3>1. g[n] = [r EXCEPT !.left = x, !.parent = p]
      BY <2>2, <2>6
    <3>2. /\ g[n] \in NodeRec /\ g[n].child = r.child /\ g[n].left = x
          /\ g[n].parent = p /\ g[n].right = r.right
      BY <2>1, <2>4, <3>1 DEF NodeRec
    <3>. QED BY <2>6, <3>2 DEF r
  <2>7. CASE n # t /\ r.left # h[b].left
    <3>1. g[n] = r
      BY <2>2, <2>7
    <3>. QED BY <2>4, <2>7, <3>1 DEF r
  <2>. QED BY <2>5, <2>6, <2>7
<1>7. g \in Seq(NodeRec) /\ Len(g) = Len(h)
  <2>1. g \in [1 .. Len(h) -> NodeRec]
    BY <1>5, <1>6
  <2>. QED BY <1>1, <2>1, AsSeq
<1>. QED BY <1>2, <1>6, <1>7 DEF Continued, g

\* The lists of h that do not change are lists of g.
AlikeIn(h, g, x, q) ==
    \A n \in 1 .. Len(h) : h[n].left = x =>
       n \in 1 .. Len(g) /\ g[n].left = x /\ g[n].right = h[n].right /\ g[n].parent = q

LEMMA ListKept ==
    ASSUME NEW h, NEW g, NEW l, Siblings(h, l), NEW q, AlikeIn(h, g, l[1], q)
    PROVE  Siblings(g, l)
<1>1. \A i \in 1 .. Len(l) : l[i] \in 1 .. Len(h) /\ h[l[i]].left = l[1]
  BY DEF Siblings
<1>2. \A i \in 1 .. Len(l) :
         /\ l[i] \in 1 .. Len(g) /\ g[l[i]].left = l[1]
         /\ g[l[i]].right = h[l[i]].right /\ g[l[i]].parent = q
  BY <1>1 DEF AlikeIn
<1>3. 1 \in 1 .. Len(l)
  BY LenProperties DEF Siblings
<1>4. \A i \in 1 .. Len(l) : g[l[i]].parent = g[l[1]].parent
  BY <1>2, <1>3
<1>. QED BY <1>2, <1>4 DEF Siblings

LEMMA JoinedList ==
    ASSUME NEW h, Linked(h), NEW g, NEW a \in 1 .. Len(h), NEW b \in 1 .. Len(h),
           h[a].left # h[b].left, Continued(h, g, a, b)
    PROVE  Siblings(g, Whole(h, a) \o Whole(h, b))
<1>. DEFINE s == Whole(h, a)  t == Whole(h, b)  l == s \o t  m == Len(s)  k == Len(t)
<1>1. /\ Siblings(h, s) /\ s[1] = h[a].left /\ m \in 1 .. m
      /\ Siblings(h, t) /\ t[1] = h[b].left /\ k \in 1 .. k
      /\ \A n \in 1 .. Len(h) : h[n].left = h[a].left => h[n].parent = h[a].parent
  BY WholeShape
<1>2. Last(s) = s[m]
  BY DEF Last
<1>3. s \in Seq(Nat) /\ t \in Seq(Nat) /\ m \in Nat /\ k \in Nat /\ m >= 1 /\ k >= 1
  BY <1>1, LenProperties DEF Siblings
<1>. HIDE DEF s, t
<1>4. /\ l \in Seq(Nat) /\ Len(l) = m + k
      /\ \A i \in 1 .. m + k : l[i] = IF i <= m THEN s[i] ELSE t[i - m]
  BY <1>3, ConcatProperties
<1>. HIDE DEF l, m, k
<1>5. /\ \A i \in 1 .. m : l[i] = s[i]
      /\ \A i \in 1 .. k : l[m + i] = t[i] /\ (m + i) \in 1 .. m + k
  <2>1. ASSUME NEW i \in 1 .. m PROVE l[i] = s[i]
    <3>1. i \in 1 .. m + k /\ i <= m
      BY <1>3
    <3>. QED BY <1>4, <3>1
  <2>2. ASSUME NEW i \in 1 .. k PROVE l[m + i] = t[i] /\ m + i \in 1 .. m + k
    <3>1. m + i \in 1 .. m + k /\ ~(m + i <= m) /\ (m + i) - m = i
      BY <1>3
    <3>. QED BY <1>4, <3>1
  <2>. QED BY <2>1, <2>2
<1>6. \A i \in 1 .. m : /\ s[i] \in 1 .. Len(h) /\ h[s[i]].left = h[a].left
                        /\ h[s[i]].right = (IF i = m THEN Null ELSE s[i + 1])
                        /\ \A j \in 1 .. m : s[i] = s[j] => i = j
  BY <1>1 DEF Siblings, m
<1>7. \A i \in 1 .. k : /\ t[i] \in 1 .. Len(h) /\ h[t[i]].left = h[b].left
                        /\ h[t[i]].right = (IF i = k THEN Null ELSE t[i + 1])
                        /\ \A j \in 1 .. k : t[i] = t[j] => i = j
  BY <1>1 DEF Siblings, k
<1>8. ASSUME NEW i \in 1 .. m
      PROVE  /\ l[i] \in 1 .. Len(g) /\ g[l[i]].left = h[a].left /\ g[l[i]].parent = h[a].parent
             /\ g[l[i]].right = l[i + 1]
  <2>1. /\ s[i] \in 1 .. Len(h) /\ h[s[i]].left = h[a].left /\ h[s[i]].parent = h[a].parent
        /\ h[s[i]].right = (IF i = m THEN Null ELSE s[i + 1])
    BY <1>1, <1>6
  <2>2. /\ g[s[i]].left = h[a].left /\ g[s[i]].parent = h[a].parent /\ Len(g) = Len(h)
        /\ g[s[i]].right = IF s[i] = s[m] THEN h[b].left ELSE h[s[i]].right
    BY <1>2, <2>1 DEF Continued, s
  <2>3. CASE i = m
    <3>1. l[i + 1] = t[1] /\ s[i] = s[m]
      <4>1. 1 \in 1 .. k
        BY <1>3
      <4>2. l[m + 1] = t[1]
        BY <1>5, <4>1
      <4>. QED BY <2>3, <4>2
    <3>. QED BY <1>1, <1>5, <2>1, <2>2, <3>1
  <2>4. CASE i # m
    <3>1. s[i] # s[m] /\ i + 1 \in 1 .. m
      BY <1>3, <1>6, <2>4
    <3>2. l[i + 1] = s[i + 1]
      BY <1>5, <3>1
    <3>. QED BY <1>5, <2>1, <2>2, <2>4, <3>1, <3>2
  <2>. QED BY <2>3, <2>4
<1>9. ASSUME NEW i \in 1 .. k
      PROVE  /\ l[m + i] \in 1 .. Len(g) /\ g[l[m + i]].left = h[a].left
             /\ g[l[m + i]].parent = h[a].parent
             /\ g[l[m + i]].right = IF m + i = m + k THEN Null ELSE l[(m + i) + 1]
  <2>1. /\ t[i] \in 1 .. Len(h) /\ h[t[i]].left = h[b].left
        /\ h[t[i]].right = (IF i = k THEN Null ELSE t[i + 1])
    BY <1>7
  <2>2. s[m] \in 1 .. Len(h) /\ h[s[m]].left = h[a].left
    BY <1>3, <1>6
  <2>3. t[i] # s[m]
    BY <2>1, <2>2
  <2>4. /\ g[t[i]].left = h[a].left /\ g[t[i]].parent = h[a].parent /\ Len(g) = Len(h)
        /\ g[t[i]].right = h[t[i]].right
    BY <1>2, <2>1, <2>3 DEF Continued, s
  <2>5. i # k => l[(m + i) + 1] = t[i + 1]
    <3>1. i # k => i + 1 \in 1 .. k /\ m + (i + 1) = (m + i) + 1
      BY <1>3
    <3>. QED BY <1>5, <3>1
  <2>6. m + i = m + k <=> i = k
    BY <1>3
  <2>. QED BY <1>5, <2>1, <2>4, <2>5, <2>6
<1>10. l[1] = h[a].left /\ Len(l) >= 1 /\ 1 \in 1 .. Len(l)
  BY <1>1, <1>3, <1>4, <1>5
<1>11. \A i \in 1 .. Len(l) : i \in 1 .. m \/ \E j \in 1 .. k : i = m + j
  <2>1. ASSUME NEW i \in 1 .. Len(l), i \notin 1 .. m PROVE \E j \in 1 .. k : i = m + j
    <3>1. i \in 1 .. m + k
      BY <1>4
    <3>2. i - m \in 1 .. k /\ i = m + (i - m)
      BY <1>3, <2>1, <3>1
    <3>. QED BY <3>2
  <2>. QED BY <2>1
<1>12. \A i \in 1 .. Len(l) :
          /\ l[i] \in 1 .. Len(g) /\ g[l[i]].left = l[1] /\ g[l[i]].parent = h[a].parent
          /\ g[l[i]].right = IF i = Len(l) THEN Null ELSE l[i + 1]
  <2>1. ASSUME NEW i \in 1 .. m
        PROVE  /\ l[i] \in 1 .. Len(g) /\ g[l[i]].left = l[1] /\ g[l[i]].parent = h[a].parent
               /\ g[l[i]].right = IF i = Len(l) THEN Null ELSE l[i + 1]
    <3>1. i # Len(l)
      BY <1>3, <1>4
    <3>. QED BY <1>8, <1>10, <3>1
  <2>2. ASSUME NEW j \in 1 .. k, NEW i, i = m + j
        PROVE  /\ l[i] \in 1 .. Len(g) /\ g[l[i]].left = l[1] /\ g[l[i]].parent = h[a].parent
               /\ g[l[i]].right = IF i = Len(l) THEN Null ELSE l[i + 1]
    BY <1>4, <1>9, <1>10, <2>2
  <2>. QED BY <1>11, <2>1, <2>2
<1>13. ASSUME NEW i \in 1 .. Len(l), NEW j \in 1 .. Len(l), l[i] = l[j] PROVE i = j
  <2>1. CASE i \in 1 .. m /\ j \in 1 .. m
    BY <1>5, <1>6, <1>13, <2>1
  <2>2. ASSUME NEW u \in 1 .. m, NEW v \in 1 .. k PROVE l[u] # l[m + v]
    <3>1. l[u] = s[u] /\ l[m + v] = t[v]
      BY <1>5
    <3>2. h[s[u]].left = h[a].left /\ h[t[v]].left = h[b].left
      BY <1>6, <1>7
    <3>. QED BY <3>1, <3>2
  <2>3. ASSUME NEW u \in 1 .. k, NEW v \in 1 .. k, l[m + u] = l[m + v] PROVE u = v
    BY <1>5, <1>7, <2>3
  <2>. QED BY <1>11, <1>13, <2>1, <2>2, <2>3
<1>14. \A i \in 1 .. Len(l) : g[l[i]].parent = g[l[1]].parent
  BY <1>10, <1>12
<1>15. Siblings(g, l)
  BY <1>4, <1>10, <1>12, <1>13, <1>14 DEF Siblings
<1>. QED BY <1>15 DEF l, s, t

LEMMA ContinuedLinked ==
    ASSUME NEW h, Linked(h), NEW g, NEW a \in 1 .. Len(h), NEW b \in 1 .. Len(h),
           h[a].left # h[b].left, h[b].parent = Null, Continued(h, g, a, b)
    PROVE  Linked(g)
<1>1. Len(g) = Len(h) /\ Len(h) \in Nat /\ h \in Seq(NodeRec) /\ g \in Seq(NodeRec)
  BY LenProperties DEF Linked, Continued
<1>2. ASSUME NEW n \in 1 .. Len(h) PROVE InList(g, n)
  <2>1. CASE h[n].left = h[a].left \/ h[n].left = h[b].left
    <3>. DEFINE s == Whole(h, a)  t == Whole(h, b)  l == s \o t
    <3>1. Siblings(g, l)
      BY JoinedList
    <3>2. /\ Siblings(h, s) /\ Siblings(h, t)
          /\ h[n].left = h[a].left => \E i \in 1 .. Len(s) : s[i] = n
          /\ h[n].left = h[b].left => \E i \in 1 .. Len(t) : t[i] = n
      BY WholeShape
    <3>3. s \in Seq(Nat) /\ t \in Seq(Nat)
      BY <3>2 DEF Siblings
    <3>. HIDE DEF s, t
    <3>4. /\ Len(l) = Len(s) + Len(t) /\ Len(s) \in Nat /\ Len(t) \in Nat
          /\ \A i \in 1 .. Len(s) + Len(t) : l[i] = IF i <= Len(s) THEN s[i] ELSE t[i - Len(s)]
      BY <3>3, ConcatProperties, LenProperties
    <3>. HIDE DEF l
    <3>5. ASSUME NEW i \in 1 .. Len(s), s[i] = n PROVE \E j \in 1 .. Len(l) : l[j] = n
      <4>1. i \in 1 .. Len(s) + Len(t) /\ i <= Len(s)
        BY <3>4
      <4>. QED BY <3>4, <3>5, <4>1
    <3>6. ASSUME NEW i \in 1 .. Len(t), t[i] = n PROVE \E j \in 1 .. Len(l) : l[j] = n
      <4>. DEFINE j == Len(s) + i
      <4>1. j \in 1 .. Len(s) + Len(t) /\ ~(j <= Len(s)) /\ j - Len(s) = i
        BY <3>4
      <4>2. l[j] = n
        BY <3>4, <3>6, <4>1
      <4>. QED BY <3>4, <4>1, <4>2
    <3>. QED BY <2>1, <3>1, <3>2, <3>5, <3>6 DEF InList
  <2>2. CASE h[n].left # h[a].left /\ h[n].left # h[b].left
    <3>. DEFINE l == Whole(h, n)
    <3>1. /\ Siblings(h, l) /\ l[1] = h[n].left
          /\ \A x \in 1 .. Len(h) : h[x].left = h[n].left => h[x].parent = h[n].parent
          /\ \E i \in 1 .. Len(l) : l[i] = n
      BY WholeShape
    <3>2. Last(Whole(h, a)) \in 1 .. Len(h) /\ h[Last(Whole(h, a))].left = h[a].left
      <4>. DEFINE s == Whole(h, a)
      <4>1. Siblings(h, s) /\ s[1] = h[a].left /\ Len(s) \in 1 .. Len(s) /\ Last(s) = s[Len(s)]
        BY WholeShape DEF Last
      <4>. QED BY <4>1 DEF Siblings
    <3>. HIDE DEF l
    <3>3. AlikeIn(h, g, l[1], h[n].parent)
      BY <1>1, <2>2, <3>1, <3>2 DEF Continued, AlikeIn
    <3>4. Siblings(g, l)
      BY <3>1, <3>3, ListKept
    <3>. QED BY <3>1, <3>4 DEF InList
  <2>. QED BY <2>1, <2>2
<1>3. ASSUME NEW n \in 1 .. Len(h) PROVE ChildAgrees(g, n)
  <2>1. g[n].child = h[n].child
    BY DEF Continued
  <2>2. ASSUME g[n].child # Null
        PROVE  /\ g[n].child \in 1 .. Len(g)
               /\ g[g[n].child].parent = n /\ g[g[n].child].left = g[n].child
    <3>. DEFINE c == h[n].child
    <3>1. c \in 1 .. Len(h) /\ h[c].parent = n /\ h[c].left = c
      BY <2>1, <2>2 DEF Linked, ChildAgrees
    <3>2. n # Null
      BY <1>1 DEF Null
    <3>3. h[c].left # h[b].left
      BY <3>1, <3>2, ListsDiffer
    <3>4. g[c].parent = n /\ g[c].left = c
      BY <3>1, <3>3 DEF Continued
    <3>. QED BY <1>1, <2>1, <3>1, <3>4
  <2>. QED BY <2>2 DEF ChildAgrees
<1>4. ASSUME NEW n \in 1 .. Len(h) PROVE ParentAgrees(g, n)
  <2>1. CASE h[n].left = h[b].left
    <3>1. g[n].parent = h[a].parent /\ g[n].left = h[a].left
      BY <2>1 DEF Continued
    <3>2. h[a].parent # Null => h[a].parent \in 1 .. Len(h) /\ h[h[a].parent].child = h[a].left
      BY DEF Linked, ParentAgrees
    <3>3. h[a].parent # Null => g[h[a].parent].child = h[a].left
      BY <3>2 DEF Continued
    <3>. QED BY <1>1, <3>1, <3>2, <3>3 DEF ParentAgrees
  <2>2. CASE h[n].left # h[b].left
    <3>1. g[n].parent = h[n].parent /\ g[n].left = h[n].left
      BY <2>2 DEF Continued
    <3>2. h[n].parent # Null => h[n].parent \in 1 .. Len(h) /\ h[h[n].parent].child = h[n].left
      BY DEF Linked, ParentAgrees
    <3>3. h[n].parent # Null => g[h[n].parent].child = h[n].left
      BY <3>2 DEF Continued
    <3>. QED BY <1>1, <3>1, <3>2, <3>3 DEF ParentAgrees
  <2>. QED BY <2>1, <2>2
<1>. QED BY <1>1, <1>2, <1>3, <1>4 DEF Linked

LEMMA WholeIs ==
    ASSUME NEW h \in Seq(NodeRec), NEW l, Siblings(h, l), NEW i \in 1 .. Len(l)
    PROVE  Whole(h, l[i]) = l
<1>1. l \in Seq(Nat) /\ Len(l) \in Nat /\ 1 \in 1 .. Len(l)
  BY LenProperties DEF Siblings
<1>2. h[l[i]].left = l[1] /\ Chain(h, l[1]) = SubSeq(l, 1, Len(l))
  BY <1>1, ChainShape DEF Siblings
<1>. DEFINE c == SubSeq(l, 1, Len(l))  k == Len(l)
<1>3. k \in Nat /\ k \in 1 .. k /\ (k - 1) + 1 = k /\ \A j \in 1 .. k : (1 + j) - 1 = j
  BY <1>1
<1>4. c \in Seq(Nat) /\ Len(c) = k /\ \A j \in 1 .. k : c[j] = l[j]
  BY <1>1, <1>3, Longer
<1>. HIDE DEF c
<1>5. c = l
  BY <1>1, <1>4, SeqEqual
<1>. QED BY <1>2, <1>5 DEF c, Whole

\* What the recursion of FlattenSeq defines.
Flattens(q, k, f) == f = [i \in 1 .. k |-> IF i = 1 THEN q[i] ELSE f[i - 1] \o q[i]]

LEMMA FlattenShape ==
    ASSUME NEW q, Len(q) \in Nat, Len(q) >= 1
    PROVE  \E f : /\ FlattenSeq(q) = f[Len(q)]
                  /\ \A i \in 1 .. Len(q) : f[i] = IF i = 1 THEN q[i] ELSE f[i - 1] \o q[i]
<1>. DEFINE T == {k \in Nat : \E f : Flattens(q, k, f)}
<1>1. 0 \in T
  <2>1. 1 .. 0 = {}
    OBVIOUS
  <2>2. Flattens(q, 0, [i \in 1 .. 0 |-> q])
    BY <2>1 DEF Flattens
  <2>. QED BY <2>2
<1>2. ASSUME NEW k \in T PROVE k + 1 \in T
  <2>1. PICK f : Flattens(q, k, f)
    OBVIOUS
  <2>. DEFINE x == IF k = 0 THEN q[1] ELSE f[k] \o q[k + 1]
              g == [i \in 1 .. k + 1 |-> IF i <= k THEN f[i] ELSE x]
  <2>2. ASSUME NEW i \in 1 .. k + 1 PROVE g[i] = IF i = 1 THEN q[i] ELSE g[i - 1] \o q[i]
    <3>1. i \in Int /\ k \in Nat
      OBVIOUS
    <3>2. CASE i <= k
      <4>1. i \in 1 .. k /\ g[i] = f[i]
        BY <3>1, <3>2
      <4>2. f[i] = IF i = 1 THEN q[i] ELSE f[i - 1] \o q[i]
        BY <2>1, <4>1 DEF Flattens
      <4>3. i # 1 => g[i - 1] = f[i - 1]
        BY <3>1, <3>2, <4>1
      <4>. HIDE DEF g
      <4>. QED BY <4>1, <4>2, <4>3
    <3>3. CASE i = k + 1
      <4>1. g[i] = x /\ (i = 1 <=> k = 0) /\ i - 1 = k
        BY <3>1, <3>3
      <4>2. i # 1 => g[k] = f[k]
        BY <3>1, <3>3
      <4>. HIDE DEF g
      <4>. QED BY <3>3, <4>1, <4>2
    <3>. QED BY <3>1, <3>2, <3>3
  <2>3. g = [i \in 1 .. k + 1 |-> g[i]]
    OBVIOUS
  <2>. HIDE DEF g
  <2>4. Flattens(q, k + 1, g)
    BY <2>2, <2>3 DEF Flattens
  <2>. QED BY <2>4
<1>. HIDE DEF T
<1>3. T = Nat
  BY <1>1, <1>2, Induction DEF T
<1>4. \E f : Flattens(q, Len(q), f)
  BY <1>3 DEF T
<1>. DEFINE f == CHOOSE g : Flattens(q, Len(q), g)
<1>5. Flattens(q, Len(q), f)
  BY <1>4
<1>6. FlattenSeq(q) = f[Len(q)]
  BY DEF FlattenSeq, Flattens
<1>. HIDE DEF f
<1>7. \A i \in 1 .. Len(q) : f[i] = IF i = 1 THEN q[i] ELSE f[i - 1] \o q[i]
  BY <1>5 DEF Flattens
<1>. QED BY <1>6, <1>7

\* The trees of a list of nodes.
ForestOf(t, l) == [i \in 1 .. Len(l) |-> t[l[i]]]

LEMMA ForestConcat ==
    ASSUME NEW t, NEW s \in Seq(Nat), NEW l \in Seq(Nat)
    PROVE  ForestOf(t, s \o l) = ForestOf(t, s) \o ForestOf(t, l)
<1>. DEFINE a == ForestOf(t, s)  b == ForestOf(t, l)  c == ForestOf(t, s \o l)  q == s \o l
            m == Len(s)  n == Len(l)
            S == {a[i] : i \in 1 .. m} \cup {b[i] : i \in 1 .. n} \cup {c[i] : i \in 1 .. m + n}
<1>1. m \in Nat /\ n \in Nat
  BY LenProperties
<1>2. q \in Seq(Nat) /\ Len(q) = m + n
      /\ \A i \in 1 .. m + n : q[i] = IF i <= m THEN s[i] ELSE l[i - m]
  BY ConcatProperties
<1>3. c = [i \in 1 .. m + n |-> t[q[i]]]
  BY <1>2 DEF ForestOf
<1>4. a = [i \in 1 .. m |-> t[s[i]]] /\ b = [i \in 1 .. n |-> t[l[i]]]
  BY DEF ForestOf
<1>. HIDE DEF a, b, c, q, m, n
<1>5. /\ a \in [1 .. m -> S] /\ b \in [1 .. n -> S] /\ c \in [1 .. m + n -> S]
  BY <1>3, <1>4
<1>. HIDE DEF S
<1>6. /\ a \in Seq(S) /\ Len(a) = m /\ b \in Seq(S) /\ Len(b) = n
  BY <1>1, <1>5, AsSeq
<1>7. c \in Seq(S) /\ Len(c) = m + n
  <2>1. m + n \in Nat
    BY <1>1
  <2>. QED BY <1>5, <2>1, AsSeq
<1>8. /\ a \o b \in Seq(S) /\ Len(a \o b) = m + n
      /\ \A i \in 1 .. m + n : (a \o b)[i] = IF i <= m THEN a[i] ELSE b[i - m]
  BY <1>6, ConcatProperties
<1>9. ASSUME NEW i \in 1 .. m + n PROVE c[i] = (a \o b)[i]
  <2>1. CASE i <= m
    <3>1. i \in 1 .. m
      BY <1>1, <2>1
    <3>. QED BY <1>2, <1>3, <1>4, <1>8, <2>1, <3>1
  <2>2. CASE ~(i <= m)
    <3>1. i - m \in 1 .. n
      BY <1>1, <2>2
    <3>. QED BY <1>2, <1>3, <1>4, <1>8, <2>2, <3>1
  <2>. QED BY <2>1, <2>2
<1>10. c = a \o b
  BY <1>7, <1>8, <1>9, SeqEqual
<1>. QED BY <1>10 DEF a, b, c, q

LEMMA FlattenForests ==
    ASSUME NEW t, NEW n \in Nat, n >= 1, NEW q \in [1 .. n -> Seq(Nat)]
    PROVE  ForestOf(t, FlattenSeq(q)) = FlattenSeq([i \in 1 .. n |-> ForestOf(t, q[i])])
<1>. DEFINE r == [i \in 1 .. n |-> ForestOf(t, q[i])]
<1>1. Len(q) = n
  BY AsSeq
<1>2. Len(r) = n
  <2>. DEFINE S == {ForestOf(t, q[i]) : i \in 1 .. n}
  <2>1. r \in [1 .. n -> S]
    OBVIOUS
  <2>. HIDE DEF r, S
  <2>. QED BY <2>1, AsSeq
<1>3. PICK f : /\ FlattenSeq(q) = f[n]
               /\ \A i \in 1 .. n : f[i] = IF i = 1 THEN q[i] ELSE f[i - 1] \o q[i]
  BY <1>1, FlattenShape
<1>. HIDE DEF r
<1>4. PICK g : /\ FlattenSeq(r) = g[n]
               /\ \A i \in 1 .. n : g[i] = IF i = 1 THEN r[i] ELSE g[i - 1] \o r[i]
  BY <1>2, FlattenShape
<1>5. \A i \in 1 .. n : r[i] = ForestOf(t, q[i]) /\ q[i] \in Seq(Nat)
  BY DEF r
<1>. DEFINE T == {k \in Nat : k + 1 <= n => f[k + 1] \in Seq(Nat) /\ g[k + 1] = ForestOf(t, f[k + 1])}
<1>6. 0 \in T
  <2>1. 1 \in 1 .. n /\ 0 + 1 = 1
    OBVIOUS
  <2>2. f[1] = q[1] /\ g[1] = r[1]
    BY <1>3, <1>4, <2>1
  <2>. QED BY <1>5, <2>1, <2>2
<1>7. ASSUME NEW k \in T PROVE k + 1 \in T
  <2>1. ASSUME (k + 1) + 1 <= n
        PROVE  f[(k + 1) + 1] \in Seq(Nat) /\ g[(k + 1) + 1] = ForestOf(t, f[(k + 1) + 1])
    <3>. DEFINE i == k + 1  j == i + 1
    <3>1. k \in Nat /\ i \in 1 .. n /\ i <= n /\ j \in 1 .. n /\ j # 1 /\ j - 1 = i
      BY <2>1
    <3>2. f[i] \in Seq(Nat) /\ g[i] = ForestOf(t, f[i])
      BY <3>1
    <3>. HIDE DEF i, j
    <3>3. f[j] = f[i] \o q[j] /\ g[j] = g[i] \o r[j]
      BY <1>3, <1>4, <3>1
    <3>4. f[j] \in Seq(Nat)
      BY <1>5, <3>1, <3>2, <3>3, ConcatProperties
    <3>5. g[j] = ForestOf(t, f[j])
      <4>1. q[j] \in Seq(Nat) /\ r[j] = ForestOf(t, q[j])
        BY <1>5, <3>1
      <4>2. ForestOf(t, f[i] \o q[j]) = ForestOf(t, f[i]) \o ForestOf(t, q[j])
        BY <3>2, <4>1, ForestConcat
      <4>. QED BY <3>2, <3>3, <4>1, <4>2
    <3>. QED BY <3>4, <3>5 DEF i, j
  <2>. QED BY <2>1
<1>. HIDE DEF T
<1>8. T = Nat
  BY <1>6, <1>7, Induction DEF T
<1>9. n - 1 \in T /\ (n - 1) + 1 = n
  BY <1>8
<1>. QED BY <1>3, <1>4, <1>9 DEF T, r

\* The lists of h that begin at a node of C, which had no parent, now belong to
\* the children s of p; all others are the lists they were.
Attached(h, g, C, p, s) ==
    /\ Linked(g) /\ Len(g) = Len(h)
    /\ Siblings(g, s) /\ g[p].child = s[1] /\ g[s[1]].parent = p
    /\ \A n \in 1 .. Len(h) :
          /\ n # p => g[n].child = h[n].child
          /\ h[n].left \in C => g[n].parent = p
          /\ h[n].left \notin C => g[n].left = h[n].left /\ g[n].parent = h[n].parent
          /\ h[n].left \notin C /\ h[n].parent # p => g[n].right = h[n].right

LEMMA ListStays ==
    ASSUME NEW h, Linked(h), NEW g, NEW C, NEW p, NEW s, Attached(h, g, C, p, s),
           NEW n \in 1 .. Len(h), h[n].left \notin C, h[n].parent # p
    PROVE  Whole(g, n) = Whole(h, n)
<1>. DEFINE l == Whole(h, n)
<1>1. /\ Siblings(h, l) /\ l[1] = h[n].left
      /\ \A x \in 1 .. Len(h) : h[x].left = h[n].left => h[x].parent = h[n].parent
      /\ \E i \in 1 .. Len(l) : l[i] = n
  BY WholeShape
<1>. HIDE DEF l
<1>2. AlikeIn(h, g, l[1], h[n].parent)
  BY <1>1 DEF Attached, AlikeIn
<1>3. Siblings(g, l) /\ g \in Seq(NodeRec)
  BY <1>1, <1>2, ListKept DEF Attached, Linked
<1>4. Whole(g, n) = l
  BY <1>1, <1>3, WholeIs
<1>. QED BY <1>4 DEF l

\* The first children of p: only p's child and the parents of the list change.
Adopted(h, g, p, c) ==
    /\ g \in Seq(NodeRec) /\ Len(g) = Len(h)
    /\ \A n \in 1 .. Len(h) :
          /\ g[n].left = h[n].left /\ g[n].right = h[n].right
          /\ g[n].child = IF n = p THEN h[c].left ELSE h[n].child
          /\ g[n].parent = IF h[n].left = h[c].left THEN p ELSE h[n].parent

LEMMA MakeChildAdopts ==
    ASSUME NEW h, Linked(h), NEW p \in 1 .. Len(h), NEW c \in 1 .. Len(h),
           h[p].left # h[c].left, h[p].child = Null
    PROVE  Adopted(h, MakeChild(h, p, c), p, c)
<1>. DEFINE g == MakeChild(h, p, c)  x == h[c].left
<1>1. h \in Seq(NodeRec) /\ Len(h) \in Nat /\ DOMAIN h = 1 .. Len(h) /\ p \in Nat
  BY LenProperties DEF Linked
<1>2. \A n \in 1 .. Len(h) : n \in ToSet(Whole(h, c)) <=> h[n].left = x
  <2>. DEFINE l == Whole(h, c)
  <2>1. Siblings(h, l) /\ \A n \in 1 .. Len(h) : h[n].left = x <=> \E i \in 1 .. Len(l) : l[i] = n
    BY WholeShape
  <2>2. DOMAIN l = 1 .. Len(l)
    BY <2>1, LenProperties DEF Siblings
  <2>. QED BY <2>1, <2>2 DEF ToSet
<1>3. g = [n \in DOMAIN h |->
             IF n = p THEN [h[n] EXCEPT !.child = x]
             ELSE IF n \in ToSet(Whole(h, c)) THEN [h[n] EXCEPT !.parent = p] ELSE h[n]]
  BY DEF MakeChild
<1>. HIDE DEF g
<1>4. ASSUME NEW n \in 1 .. Len(h)
      PROVE  /\ g[n] \in NodeRec /\ g[n].left = h[n].left /\ g[n].right = h[n].right
             /\ g[n].child = IF n = p THEN x ELSE h[n].child
             /\ g[n].parent = IF h[n].left = x THEN p ELSE h[n].parent
  <2>. DEFINE r == h[n]
  <2>1. g[n] = IF n = p THEN [r EXCEPT !.child = x]
               ELSE IF r.left = x THEN [r EXCEPT !.parent = p] ELSE r
    BY <1>1, <1>2, <1>3
  <2>2. r \in NodeRec /\ x \in Nat /\ (n = p => r.left # x)
    BY <1>1, NodeTyped
  <2>. HIDE DEF r, x
  <2>3. CASE n = p
    <3>1. g[n] = [r EXCEPT !.child = x]
      BY <2>1, <2>3
    <3>2. /\ g[n] \in NodeRec /\ g[n].child = x /\ g[n].left = r.left
          /\ g[n].parent = r.parent /\ g[n].right = r.right
      BY <2>2, <3>1 DEF NodeRec
    <3>. QED BY <2>2, <2>3, <3>2 DEF r
  <2>4. CASE n # p /\ r.left = x
    <3>1. g[n] = [r EXCEPT !.parent = p]
      BY <2>1, <2>4
    <3>2. /\ g[n] \in NodeRec /\ g[n].child = r.child /\ g[n].left = r.left
          /\ g[n].parent = p /\ g[n].right = r.right
      BY <1>1, <2>2, <3>1 DEF NodeRec
    <3>. QED BY <2>4, <3>2 DEF r
  <2>5. CASE n # p /\ r.left # x
    <3>1. g[n] = r
      BY <2>1, <2>5
    <3>. QED BY <2>2, <2>5, <3>1 DEF r
  <2>. QED BY <2>3, <2>4, <2>5
<1>5. g \in Seq(NodeRec) /\ Len(g) = Len(h)
  <2>1. DOMAIN g = 1 .. Len(h) /\ g = [n \in 1 .. Len(h) |-> g[n]]
    BY <1>1, <1>3
  <2>2. g \in [1 .. Len(h) -> NodeRec]
    BY <1>4, <2>1
  <2>. QED BY <1>1, <2>2, AsSeq
<1>. QED BY <1>4, <1>5 DEF Adopted, g, x

LEMMA AdoptedLinked ==
    ASSUME NEW h, Linked(h), NEW g, NEW p \in 1 .. Len(h), NEW c \in 1 .. Len(h),
           h[p].left # h[c].left, h[p].child = Null, h[c].parent = Null, Adopted(h, g, p, c)
    PROVE  Linked(g)
<1>1. Len(g) = Len(h) /\ Len(h) \in Nat /\ h \in Seq(NodeRec) /\ g \in Seq(NodeRec)
  BY LenProperties DEF Linked, Adopted
<1>2. ASSUME NEW n \in 1 .. Len(h) PROVE InList(g, n)
  <2>. DEFINE l == Whole(h, n)  q == IF h[n].left = h[c].left THEN p ELSE h[n].parent
  <2>1. /\ Siblings(h, l) /\ l[1] = h[n].left
        /\ \A x \in 1 .. Len(h) : h[x].left = h[n].left => h[x].parent = h[n].parent
        /\ \E i \in 1 .. Len(l) : l[i] = n
    BY WholeShape
  <2>. HIDE DEF l
  <2>2. AlikeIn(h, g, l[1], q)
    BY <1>1, <2>1 DEF Adopted, AlikeIn
  <2>3. Siblings(g, l)
    BY <2>1, <2>2, ListKept
  <2>. QED BY <2>1, <2>3 DEF InList
<1>3. ASSUME NEW n \in 1 .. Len(h) PROVE ChildAgrees(g, n)
  <2>1. CASE n = p
    <3>. DEFINE l == Whole(h, c)  x == h[c].left
    <3>1. Siblings(h, l) /\ l[1] = x /\ x \in 1 .. Len(h) /\ Len(l) \in 1 .. Len(l)
      BY WholeShape
    <3>2. 1 \in 1 .. Len(l)
      BY <3>1
    <3>3. h[x].left = x
      BY <3>1, <3>2 DEF Siblings
    <3>4. g[n].child = x /\ g[x].left = x /\ g[x].parent = p
      BY <2>1, <3>1, <3>3 DEF Adopted
    <3>. QED BY <1>1, <2>1, <3>1, <3>4 DEF ChildAgrees
  <2>2. CASE n # p
    <3>. DEFINE d == h[n].child
    <3>1. g[n].child = d
      BY <2>2 DEF Adopted
    <3>2. ASSUME d # Null
          PROVE  d \in 1 .. Len(g) /\ g[d].parent = n /\ g[d].left = d
      <4>1. d \in 1 .. Len(h) /\ h[d].parent = n /\ h[d].left = d
        BY <3>2 DEF Linked, ChildAgrees
      <4>2. n # Null
        BY <1>1 DEF Null
      <4>3. h[d].left # h[c].left
        BY <4>1, <4>2, ListsDiffer
      <4>4. g[d].parent = n /\ g[d].left = d
        BY <4>1, <4>3 DEF Adopted
      <4>. QED BY <1>1, <4>1, <4>4
    <3>. QED BY <3>1, <3>2 DEF ChildAgrees
  <2>. QED BY <2>1, <2>2
<1>4. ASSUME NEW n \in 1 .. Len(h) PROVE ParentAgrees(g, n)
  <2>1. CASE h[n].left = h[c].left
    BY <1>1, <2>1 DEF Adopted, ParentAgrees
  <2>2. CASE h[n].left # h[c].left
    <3>1. g[n].parent = h[n].parent /\ g[n].left = h[n].left
      BY <2>2 DEF Adopted
    <3>2. h[n].parent # Null => h[n].parent \in 1 .. Len(h) /\ h[h[n].parent].child = h[n].left
      BY DEF Linked, ParentAgrees
    <3>3. h[n].left \in 1 .. Len(h)
      BY WholeShape
    <3>4. h[n].left # Null
      BY <1>1, <3>3 DEF Null
    <3>5. h[n].parent # p
      BY <3>2, <3>4, <1>1 DEF Null
    <3>6. h[n].parent # Null => g[h[n].parent].child = h[n].left
      BY <3>2, <3>5 DEF Adopted
    <3>. QED BY <1>1, <3>1, <3>2, <3>6 DEF ParentAgrees
  <2>. QED BY <2>1, <2>2
<1>. QED BY <1>1, <1>2, <1>3, <1>4 DEF Linked

\* The children of p, the first one first.
Kids(h, p) == IF h[p].child = Null THEN <<>> ELSE Whole(h, h[p].child)

LEMMA ConcatHead ==
    ASSUME NEW s \in Seq(Nat), NEW l \in Seq(Nat), Len(s) >= 1
    PROVE  (s \o l)[1] = s[1]
<1>1. Len(s) \in Nat /\ Len(l) \in Nat
  BY LenProperties
<1>2. 1 \in 1 .. Len(s) + Len(l) /\ 1 <= Len(s)
  BY <1>1
<1>3. \A i \in 1 .. Len(s) + Len(l) : (s \o l)[i] = IF i <= Len(s) THEN s[i] ELSE l[i - Len(s)]
  BY ConcatProperties
<1>. QED BY <1>2, <1>3

LEMMA MakeChildAttaches ==
    ASSUME NEW h, Linked(h), NEW p \in 1 .. Len(h), NEW c \in 1 .. Len(h),
           h[p].left # h[c].left, h[c].parent = Null
    PROVE  Attached(h, MakeChild(h, p, c), {h[c].left}, p, Kids(h, p) \o Whole(h, c))
<1>. DEFINE g == MakeChild(h, p, c)  l == Whole(h, c)  C == {h[c].left}
<1>1. Siblings(h, l) /\ l[1] = h[c].left /\ l[1] \in 1 .. Len(h)
      /\ \A n \in 1 .. Len(h) : h[n].left = h[c].left => h[n].parent = h[c].parent
  BY WholeShape
<1>2. l \in Seq(Nat) /\ 1 \in 1 .. Len(l) /\ h[l[1]].left = l[1]
  BY <1>1, LenProperties DEF Siblings
<1>. HIDE DEF l
<1>3. CASE h[p].child = Null
  <2>1. Adopted(h, g, p, c)
    BY <1>3, MakeChildAdopts
  <2>2. <<>> \o l = l
    BY <1>2, ConcatEmptySeq
  <2>. HIDE DEF g
  <2>3. Linked(g)
    BY <1>3, <2>1, AdoptedLinked
  <2>4. AlikeIn(h, g, l[1], p)
    BY <1>1, <2>1 DEF Adopted, AlikeIn
  <2>5. Siblings(g, l)
    BY <1>1, <2>4, ListKept
  <2>6. g[p].child = l[1] /\ g[l[1]].parent = p
    BY <1>1, <1>2, <2>1 DEF Adopted
  <2>7. Attached(h, g, C, p, l)
    BY <2>1, <2>3, <2>5, <2>6 DEF Attached, Adopted
  <2>. QED BY <1>3, <2>2, <2>7 DEF g, l, Kids
<1>4. CASE h[p].child # Null
  <2>. DEFINE d == h[p].child  s == Whole(h, d)
  <2>1. d \in 1 .. Len(h) /\ h[d].parent = p /\ h[d].left = d
    BY <1>4 DEF Linked, ChildAgrees
  <2>2. p # Null
    BY LenProperties DEF Linked, Null
  <2>3. h[d].left # h[c].left
    BY <2>1, <2>2, ListsDiffer
  <2>4. g = MakeSibling(h, d, c)
    BY <1>4 DEF MakeChild
  <2>. HIDE DEF g, d
  <2>5. Continued(h, g, d, c)
    BY <2>1, <2>3, <2>4, MakeSiblingContinues
  <2>6. Linked(g)
    BY <2>1, <2>3, <2>5, ContinuedLinked
  <2>7. Siblings(g, s \o l)
    BY <2>1, <2>3, <2>5, JoinedList DEF l
  <2>8. Siblings(h, s) /\ s[1] = h[d].left /\ Len(s) \in 1 .. Len(s)
    BY <2>1, WholeShape
  <2>. DEFINE z == s[Len(s)]
  <2>9. Last(s) = z /\ z \in 1 .. Len(h) /\ h[z].parent = p
    <3>1. Last(s) = z
      BY DEF Last
    <3>2. z \in 1 .. Len(h) /\ h[z].left = s[1]
      BY <2>8 DEF Siblings
    <3>. QED BY <2>1, <2>8, <3>1, <3>2, WholeShape
  <2>10. s \in Seq(Nat) /\ Len(s) >= 1
    BY <2>8 DEF Siblings
  <2>11. (s \o l)[1] = d
    BY <1>2, <2>1, <2>8, <2>10, ConcatHead
  <2>12. g[p].child = d /\ g[d].parent = p
    BY <2>1, <2>3, <2>5 DEF Continued, d
  <2>13. ASSUME NEW n \in 1 .. Len(h)
         PROVE  /\ g[n].child = h[n].child
                /\ h[n].left \in C => g[n].parent = p
                /\ h[n].left \notin C => g[n].left = h[n].left /\ g[n].parent = h[n].parent
                /\ h[n].left \notin C /\ h[n].parent # p => g[n].right = h[n].right
    <3>1. h[n].parent # p => n # Last(s)
      BY <2>9
    <3>. HIDE DEF z
    <3>. QED BY <2>1, <2>5, <3>1 DEF Continued
  <2>. HIDE DEF s, C, z
  <2>14. Attached(h, g, C, p, s \o l)
    BY <2>5, <2>6, <2>7, <2>11, <2>12, <2>13 DEF Attached, Continued
  <2>. QED BY <1>4, <2>14 DEF g, l, C, d, s, Kids
<1>. QED BY <1>3, <1>4

\* One more member of a family: the list of b goes behind that of a.
LEMMA SiblingAttaches ==
    ASSUME NEW h, Linked(h), NEW g, NEW C, NEW p \in 1 .. Len(h), NEW s, Attached(h, g, C, p, s),
           NEW a \in 1 .. Len(h), h[a].left \in C,
           NEW b \in 1 .. Len(h), h[b].left \notin C, h[b].parent = Null
    PROVE  Attached(h, MakeSibling(g, a, b), C \cup {h[b].left}, p, s \o Whole(h, b))
<1>. DEFINE f == MakeSibling(g, a, b)  l == Whole(h, b)
<1>1. Linked(g) /\ Len(g) = Len(h) /\ p # Null /\ g \in Seq(NodeRec)
  BY LenProperties DEF Attached, Linked, Null
<1>2. g[a].parent = p /\ g[b].left = h[b].left /\ g[b].parent = Null
  BY DEF Attached
<1>3. g[a].left # g[b].left
  BY <1>1, <1>2, ListsDiffer
<1>4. Continued(g, f, a, b)
  BY <1>1, <1>3, MakeSiblingContinues
<1>. HIDE DEF f
<1>5. Linked(f) /\ Len(f) = Len(h)
  <2>1. Linked(f)
    BY <1>1, <1>2, <1>3, <1>4, ContinuedLinked
  <2>2. Len(f) = Len(g)
    BY <1>4 DEF Continued
  <2>. QED BY <1>1, <2>1, <2>2
<1>6. Whole(g, b) = l
  BY <1>1, <1>2, ListStays
<1>7. Siblings(g, s) /\ s \in Seq(Nat) /\ Len(s) >= 1 /\ Len(s) \in 1 .. Len(s) /\ 1 \in 1 .. Len(s)
  <2>1. Siblings(g, s)
    BY DEF Attached
  <2>2. s \in Seq(Nat) /\ Len(s) >= 1 /\ Len(s) \in Nat
    BY <2>1, LenProperties DEF Siblings
  <2>. QED BY <2>1, <2>2
<1>8. g[a].left = s[1]
  BY <1>1, <1>2 DEF Attached, Linked, ParentAgrees
<1>9. Whole(g, a) = s
  <2>1. Whole(g, s[1]) = s /\ g[s[1]].left = s[1]
    BY <1>1, <1>7, WholeIs DEF Siblings
  <2>. QED BY <1>8, <2>1 DEF Whole
<1>10. Siblings(f, s \o l)
  BY <1>1, <1>3, <1>4, <1>6, <1>9, JoinedList
<1>11. l \in Seq(Nat)
  BY WholeShape DEF Siblings
<1>. HIDE DEF l
<1>12. (s \o l)[1] = s[1]
  BY <1>7, <1>11, ConcatHead
<1>. DEFINE z == s[Len(s)]  x == s[1]
<1>13. Last(s) = z /\ z \in 1 .. Len(h) /\ g[z].parent = p
  <2>1. Last(s) = z
    BY DEF Last
  <2>2. z \in 1 .. Len(g) /\ g[z].left = g[a].left
    BY <1>7, <1>8 DEF Siblings
  <2>. QED BY <1>1, <1>2, <2>1, <2>2, WholeShape
<1>14. x \in 1 .. Len(h) /\ g[x].left = x /\ g[x].parent = p /\ g[p].child = x
  BY <1>1, <1>7 DEF Siblings, Attached
<1>. HIDE DEF z, x
<1>15. f[p].child = x /\ f[x].parent = p
  BY <1>1, <1>2, <1>3, <1>4, <1>8, <1>14 DEF Continued, x
<1>16. ASSUME NEW n \in 1 .. Len(h)
       PROVE  /\ n # p => f[n].child = h[n].child
              /\ h[n].left \in C \cup {h[b].left} => f[n].parent = p
              /\ h[n].left \notin C \cup {h[b].left} =>
                    /\ f[n].left = h[n].left /\ f[n].parent = h[n].parent
                    /\ h[n].parent # p => f[n].right = h[n].right
  <2>1. /\ f[n].child = g[n].child
        /\ f[n].left = IF g[n].left = g[b].left THEN g[a].left ELSE g[n].left
        /\ f[n].parent = IF g[n].left = g[b].left THEN g[a].parent ELSE g[n].parent
        /\ f[n].right = IF n = z THEN g[b].left ELSE g[n].right
    BY <1>1, <1>4, <1>9, <1>13 DEF Continued
  <2>2. /\ n # p => g[n].child = h[n].child
        /\ h[n].left \in C => g[n].parent = p
        /\ h[n].left \notin C => g[n].left = h[n].left /\ g[n].parent = h[n].parent
        /\ h[n].left \notin C /\ h[n].parent # p => g[n].right = h[n].right
    BY DEF Attached
  <2>3. g[n].parent # p => n # z
    BY <1>13
  <2>. QED BY <1>2, <2>1, <2>2, <2>3
<1>. DEFINE D == C \cup {h[b].left}
<1>17. \A n \in 1 .. Len(h) :
          /\ n # p => f[n].child = h[n].child
          /\ h[n].left \in D => f[n].parent = p
          /\ h[n].left \notin D => f[n].left = h[n].left /\ f[n].parent = h[n].parent
          /\ h[n].left \notin D /\ h[n].parent # p => f[n].right = h[n].right
  BY <1>16
<1>. HIDE DEF D
<1>18. Attached(h, f, D, p, s \o l)
  BY <1>5, <1>10, <1>12, <1>15, <1>17 DEF Attached, x
<1>. QED BY <1>18 DEF f, l, D

\* What the recursion of MakeFamily defines.
Grows(h, p, cs, k, u) ==
    u = [i \in 1 .. k |->
          IF i = 1 THEN MakeChild(h, p, cs[1]) ELSE MakeSibling(u[i - 1], cs[i - 1], cs[i])]

LEMMA GrowsExist ==
    ASSUME NEW h, NEW p, NEW cs, NEW n \in Nat
    PROVE  \E u : Grows(h, p, cs, n, u)
<1>. DEFINE T == {k \in Nat : \E u : Grows(h, p, cs, k, u)}
<1>1. 0 \in T
  <2>1. 1 .. 0 = {}
    OBVIOUS
  <2>2. Grows(h, p, cs, 0, [i \in 1 .. 0 |-> h])
    BY <2>1 DEF Grows
  <2>. QED BY <2>2
<1>2. ASSUME NEW k \in T PROVE k + 1 \in T
  <2>1. PICK u : Grows(h, p, cs, k, u)
    OBVIOUS
  <2>. DEFINE x == IF k = 0 THEN MakeChild(h, p, cs[1]) ELSE MakeSibling(u[k], cs[k], cs[k + 1])
              v == [i \in 1 .. k + 1 |-> IF i <= k THEN u[i] ELSE x]
  <2>2. ASSUME NEW i \in 1 .. k + 1
        PROVE  v[i] = IF i = 1 THEN MakeChild(h, p, cs[1])
                      ELSE MakeSibling(v[i - 1], cs[i - 1], cs[i])
    <3>1. i \in Int /\ k \in Nat
      OBVIOUS
    <3>2. CASE i <= k
      <4>1. i \in 1 .. k /\ v[i] = u[i]
        BY <3>1, <3>2
      <4>2. u[i] = IF i = 1 THEN MakeChild(h, p, cs[1])
                   ELSE MakeSibling(u[i - 1], cs[i - 1], cs[i])
        BY <2>1, <4>1 DEF Grows
      <4>3. i # 1 => v[i - 1] = u[i - 1]
        BY <3>1, <3>2, <4>1
      <4>. HIDE DEF v
      <4>. QED BY <4>1, <4>2, <4>3
    <3>3. CASE i = k + 1
      <4>1. v[i] = x /\ (i = 1 <=> k = 0) /\ i - 1 = k
        BY <3>1, <3>3
      <4>2. i # 1 => v[k] = u[k]
        BY <3>1, <3>3
      <4>. HIDE DEF v
      <4>. QED BY <3>3, <4>1, <4>2
    <3>. QED BY <3>1, <3>2, <3>3
  <2>3. v = [i \in 1 .. k + 1 |-> v[i]]
    OBVIOUS
  <2>. HIDE DEF v
  <2>4. Grows(h, p, cs, k + 1, v)
    BY <2>2, <2>3 DEF Grows
  <2>. QED BY <2>4
<1>. HIDE DEF T
<1>3. T = Nat
  BY <1>1, <1>2, Induction DEF T
<1>. QED BY <1>3 DEF T

\* The members of cs stand for lists without a parent, no two the same, and p
\* is in none of them.
Members(h, p, cs) ==
    /\ Len(cs) \in Nat /\ Len(cs) >= 1
    /\ \A i \in 1 .. Len(cs) :
          cs[i] \in 1 .. Len(h) /\ h[cs[i]].parent = Null /\ h[cs[i]].left # h[p].left
    /\ \A i, j \in 1 .. Len(cs) : h[cs[i]].left = h[cs[j]].left => i = j

Begins(h, cs, k) == {h[cs[i]].left : i \in 1 .. k}

Wholes(h, cs) == [i \in 1 .. Len(cs) |-> Whole(h, cs[i])]

LEMMA FamilyAttaches ==
    ASSUME NEW h, Linked(h), NEW p \in 1 .. Len(h), h[p].child = Null, NEW cs, Members(h, p, cs)
    PROVE  Attached(h, MakeFamily(h, p, cs), Begins(h, cs, Len(cs)), p, FlattenSeq(Wholes(h, cs)))
<1>. DEFINE n == Len(cs)  u == CHOOSE v : Grows(h, p, cs, n, v)  w == Wholes(h, cs)
<1>1. n \in Nat /\ n >= 1
  BY DEF Members
<1>2. Grows(h, p, cs, n, u)
  <2>1. \E v : Grows(h, p, cs, n, v)
    BY <1>1, GrowsExist
  <2>. QED BY <2>1
<1>3. MakeFamily(h, p, cs) = u[n]
  BY DEF MakeFamily, Grows
<1>. HIDE DEF u
<1>4. \A i \in 1 .. n : u[i] = IF i = 1 THEN MakeChild(h, p, cs[1])
                               ELSE MakeSibling(u[i - 1], cs[i - 1], cs[i])
  BY <1>2 DEF Grows
<1>5. \A i \in 1 .. n : w[i] = Whole(h, cs[i]) /\ w[i] \in Seq(Nat)
  <2>1. \A i \in 1 .. n : cs[i] \in 1 .. Len(h)
    BY DEF Members
  <2>2. \A i \in 1 .. n : Whole(h, cs[i]) \in Seq(Nat)
    BY <2>1, WholeShape DEF Siblings
  <2>. QED BY <2>2 DEF Wholes
<1>6. Len(w) = n
  <2>1. w = [i \in 1 .. n |-> w[i]]
    BY DEF Wholes
  <2>2. w \in [1 .. n -> Seq(Nat)]
    BY <1>5, <2>1
  <2>. QED BY <1>1, <2>2, AsSeq
<1>. HIDE DEF w
<1>7. PICK f : /\ FlattenSeq(w) = f[n]
               /\ \A i \in 1 .. n : f[i] = IF i = 1 THEN w[i] ELSE f[i - 1] \o w[i]
  BY <1>1, <1>6, FlattenShape
<1>. DEFINE T == {k \in Nat : k + 1 <= n => Attached(h, u[k + 1], Begins(h, cs, k + 1), p, f[k + 1])}
<1>8. 0 \in T
  <2>. DEFINE c == cs[1]
  <2>1. 1 \in 1 .. n /\ 0 + 1 = 1
    BY <1>1
  <2>2. c \in 1 .. Len(h) /\ h[c].parent = Null /\ h[c].left # h[p].left
    BY <2>1 DEF Members
  <2>3. u[1] = MakeChild(h, p, c) /\ f[1] = Whole(h, c) /\ Whole(h, c) \in Seq(Nat)
    BY <1>4, <1>5, <1>7, <2>1
  <2>4. Begins(h, cs, 1) = {h[c].left}
    <3>1. 1 .. 1 = {1}
      OBVIOUS
    <3>. QED BY <3>1 DEF Begins
  <2>. HIDE DEF c
  <2>5. Kids(h, p) \o Whole(h, c) = Whole(h, c)
    BY <2>3, ConcatEmptySeq DEF Kids
  <2>6. Attached(h, u[1], Begins(h, cs, 1), p, f[1])
    BY <2>2, <2>3, <2>4, <2>5, MakeChildAttaches
  <2>. QED BY <2>1, <2>6
<1>9. ASSUME NEW k \in T PROVE k + 1 \in T
  <2>1. ASSUME (k + 1) + 1 <= n
        PROVE  Attached(h, u[(k + 1) + 1], Begins(h, cs, (k + 1) + 1), p, f[(k + 1) + 1])
    <3>. DEFINE i == k + 1  j == i + 1  a == cs[i]  b == cs[j]  C == Begins(h, cs, i)
    <3>1. k \in Nat /\ i \in 1 .. n /\ j \in 1 .. n /\ j # 1 /\ j - 1 = i /\ i <= n
      BY <1>1, <2>1
    <3>2. Attached(h, u[i], C, p, f[i])
      BY <3>1
    <3>. HIDE DEF i
    <3>3. u[j] = MakeSibling(u[i], a, b) /\ f[j] = f[i] \o Whole(h, b)
      BY <1>4, <1>5, <1>7, <3>1
    <3>4. a \in 1 .. Len(h) /\ b \in 1 .. Len(h) /\ h[b].parent = Null
      BY <3>1 DEF Members
    <3>5. h[a].left \in C
      <4>1. i \in 1 .. i
        BY <3>1
      <4>. QED BY <4>1 DEF Begins
    <3>6. h[b].left \notin C
      <4>1. ASSUME NEW x \in 1 .. i, h[b].left = h[cs[x]].left PROVE FALSE
        <5>1. x \in 1 .. n /\ x # j
          BY <3>1
        <5>. QED BY <3>1, <4>1, <5>1 DEF Members
      <4>. QED BY <4>1 DEF Begins
    <3>7. C \cup {h[b].left} = Begins(h, cs, j)
      <4>1. 1 .. j = 1 .. i \cup {j}
        BY <3>1
      <4>. HIDE DEF j
      <4>. QED BY <4>1 DEF Begins
    <3>. HIDE DEF a, b, C, j
    <3>8. Attached(h, MakeSibling(u[i], a, b), C \cup {h[b].left}, p, f[i] \o Whole(h, b))
      BY <3>2, <3>4, <3>5, <3>6, SiblingAttaches
    <3>. QED BY <3>3, <3>7, <3>8 DEF i, j
  <2>. QED BY <2>1
<1>. HIDE DEF T
<1>10. T = Nat
  BY <1>8, <1>9, Induction DEF T
<1>11. n - 1 \in T /\ (n - 1) + 1 = n
  BY <1>1, <1>10
<1>. QED BY <1>3, <1>7, <1>11 DEF T, w

\* t is the tree every node stands for, and r ranks the nodes below their parents.
Reading(h, t) == \A n \in 1 .. Len(h) : t[n] = [label |-> n, kids |-> ForestOf(t, Kids(h, n))]
Ranked(h, r) ==
    \A n \in 1 .. Len(h) :
       r[n] \in Nat /\ r[n] >= 1 /\ (h[n].parent # Null => r[n] < r[h[n].parent])

\* What the recursion of Forests defines.
Layer(h, k, below) ==
    [n \in DOMAIN h \cup {Null} |->
       IF n = Null \/ k = 0 THEN <<>>
       ELSE LET c == Chain(h, n) IN
            [i \in DOMAIN c |-> [label |-> c[i], kids |-> below[h[c[i]].child]]]]
Layers(h, k, u) == u = [j \in 0 .. k |-> Layer(h, j, u[j - 1])]

LEMMA LayersExist ==
    ASSUME NEW h, NEW k \in Nat
    PROVE  \E u : Layers(h, k, u)
<1>. DEFINE T == {j \in Nat : \E u : Layers(h, j, u)}
<1>. DEFINE z == Layer(h, 0, h)
<1>1. ASSUME NEW w PROVE Layer(h, 0, w) = z
  BY DEF Layer
<1>2. 0 \in T
  <2>. DEFINE v == [j \in 0 .. 0 |-> z]
  <2>1. \A j \in 0 .. 0 : v[j] = Layer(h, j, v[j - 1])
    <3>1. ASSUME NEW j \in 0 .. 0 PROVE v[j] = Layer(h, j, v[j - 1])
      <4>1. j = 0 /\ v[j] = z
        OBVIOUS
      <4>. HIDE DEF v, z
      <4>. QED BY <1>1, <4>1
    <3>. QED BY <3>1
  <2>2. v = [j \in 0 .. 0 |-> v[j]]
    OBVIOUS
  <2>. HIDE DEF v
  <2>3. Layers(h, 0, v)
    BY <2>1, <2>2 DEF Layers
  <2>. QED BY <2>3
<1>3. ASSUME NEW m \in T PROVE m + 1 \in T
  <2>1. PICK u : Layers(h, m, u)
    OBVIOUS
  <2>. DEFINE x == Layer(h, m + 1, u[m])
              v == [j \in 0 .. m + 1 |-> IF j <= m THEN u[j] ELSE x]
  <2>2. ASSUME NEW j \in 0 .. m + 1 PROVE v[j] = Layer(h, j, v[j - 1])
    <3>1. j \in Int /\ m \in Nat
      OBVIOUS
    <3>2. CASE j = 0
      <4>1. v[j] = u[j] /\ j \in 0 .. m
        BY <3>1, <3>2
      <4>2. u[j] = Layer(h, j, u[j - 1])
        BY <2>1, <4>1 DEF Layers
      <4>. HIDE DEF v, z
      <4>. QED BY <1>1, <3>2, <4>1, <4>2
    <3>3. CASE j # 0 /\ j <= m
      <4>1. v[j] = u[j] /\ j \in 0 .. m /\ v[j - 1] = u[j - 1]
        BY <3>1, <3>3
      <4>2. u[j] = Layer(h, j, u[j - 1])
        BY <2>1, <4>1 DEF Layers
      <4>. HIDE DEF v
      <4>. QED BY <4>1, <4>2
    <3>4. CASE j = m + 1
      <4>1. v[j] = x /\ v[j - 1] = u[m]
        BY <3>1, <3>4
      <4>. HIDE DEF v
      <4>. QED BY <3>4, <4>1
    <3>. QED BY <3>1, <3>2, <3>3, <3>4
  <2>3. v = [j \in 0 .. m + 1 |-> v[j]]
    OBVIOUS
  <2>. HIDE DEF v
  <2>4. Layers(h, m + 1, v)
    BY <2>2, <2>3 DEF Layers
  <2>. QED BY <2>4
<1>. HIDE DEF T
<1>4. T = Nat
  BY <1>2, <1>3, Induction DEF T
<1>. QED BY <1>4 DEF T

LEMMA ForestsRead ==
    ASSUME NEW h, Linked(h), NEW t, Reading(h, t), NEW r, Ranked(h, r), NEW vs \in Seq(ValueRec),
           \A i \in 1 .. Len(vs) :
              /\ vs[i].node \in 1 .. Len(h)
              /\ \A n \in 1 .. Len(h) : h[n].left = h[vs[i].node].left => r[n] <= Len(h)
    PROVE  Forests(h, vs) = [i \in 1 .. Len(vs) |-> ForestOf(t, Whole(h, vs[i].node))]
<1>. DEFINE N == Len(h)  u == CHOOSE w : Layers(h, N, w)
<1>1. h \in Seq(NodeRec) /\ N \in Nat /\ DOMAIN h = 1 .. N /\ DOMAIN vs = 1 .. Len(vs)
  BY LenProperties DEF Linked
<1>2. Layers(h, N, u)
  <2>1. \E w : Layers(h, N, w)
    BY <1>1, LayersExist
  <2>. QED BY <2>1
<1>3. Forests(h, vs) = [i \in DOMAIN vs |-> u[N][h[vs[i].node].left]]
  BY DEF Forests, Layers, Layer
<1>. HIDE DEF u
<1>4. ASSUME NEW k \in 0 .. N, NEW n \in 1 .. N, k # 0
      PROVE  LET c == Chain(h, n) IN
             u[k][n] = [i \in DOMAIN c |-> [label |-> c[i], kids |-> u[k - 1][h[c[i]].child]]]
  <2>1. u[k] = Layer(h, k, u[k - 1])
    BY <1>2 DEF Layers
  <2>2. n # Null /\ n \in DOMAIN h \cup {Null}
    BY <1>1 DEF Null
  <2>. QED BY <1>4, <2>1, <2>2 DEF Layer
<1>5. ASSUME NEW k \in 0 .. N PROVE u[k][Null] = <<>>
  BY <1>2 DEF Layers, Layer
\* The list beginning at n, when k layers are enough for its trees.
<1>. DEFINE Low(k, n) == h[n].left = n /\ \A m \in 1 .. N : h[m].left = n => r[m] <= k
            T == {k \in Nat : k <= N =>
                    \A n \in 1 .. N : Low(k, n) => u[k][n] = ForestOf(t, Whole(h, n))}
<1>6. 0 \in T
  <2>1. ASSUME NEW n \in 1 .. N PROVE ~Low(0, n)
    BY DEF Ranked
  <2>. QED BY <2>1
<1>7. ASSUME NEW k \in T PROVE k + 1 \in T
  <2>1. ASSUME k + 1 <= N, NEW n \in 1 .. N, Low(k + 1, n)
        PROVE  u[k + 1][n] = ForestOf(t, Whole(h, n))
    <3>. DEFINE l == Whole(h, n)
    <3>1. /\ Siblings(h, l) /\ \A i \in 1 .. Len(l) : l[i] \in 1 .. N /\ h[l[i]].left = n
          /\ DOMAIN l = 1 .. Len(l)
      <4>1. Siblings(h, l) /\ l[1] = n
        BY <2>1, WholeShape
      <4>. QED BY <4>1, LenProperties DEF Siblings
    <3>2. Chain(h, n) = l
      BY <2>1 DEF Whole
    <3>3. k \in Nat /\ k + 1 \in 0 .. N /\ k + 1 # 0 /\ (k + 1) - 1 = k /\ k \in 0 .. N /\ k <= N
      BY <1>1, <2>1
    <3>4. u[k + 1][n] = [i \in DOMAIN l |-> [label |-> l[i], kids |-> u[k][h[l[i]].child]]]
      BY <1>4, <3>2, <3>3
    <3>. HIDE DEF l
    <3>5. ASSUME NEW i \in 1 .. Len(l)
          PROVE  [label |-> l[i], kids |-> u[k][h[l[i]].child]] = t[l[i]]
      <4>. DEFINE p == l[i]  d == h[p].child
      <4>1. p \in 1 .. N /\ h[p].left = n /\ r[p] <= k + 1
        BY <2>1, <3>1
      <4>2. t[p] = [label |-> p, kids |-> ForestOf(t, Kids(h, p))]
        BY <4>1 DEF Reading
      <4>. HIDE DEF p
      <4>3. CASE d = Null
        <5>1. Kids(h, p) = <<>> /\ u[k][d] = <<>>
          BY <1>5, <3>3, <4>3 DEF Kids
        <5>2. ForestOf(t, <<>>) = <<>>
          BY DEF ForestOf
        <5>. QED BY <4>2, <5>1, <5>2 DEF p
      <4>4. CASE d # Null
        <5>1. d \in 1 .. N /\ h[d].parent = p /\ h[d].left = d
          BY <4>1, <4>4 DEF Linked, ChildAgrees
        <5>2. ASSUME NEW m \in 1 .. N, h[m].left = d PROVE r[m] <= k
          <6>1. h[m].parent = p
            <7>. HIDE DEF d
            <7>1. h[m].left = h[d].left
              BY <5>1, <5>2
            <7>2. \A x \in 1 .. Len(h) : h[x].left = h[d].left => h[x].parent = h[d].parent
              BY <5>1, WholeShape
            <7>. QED BY <5>1, <7>1, <7>2
          <6>2. p # Null
            BY <4>1, <1>1 DEF Null
          <6>3. r[m] \in Nat /\ r[p] \in Nat /\ r[m] < r[p]
            BY <4>1, <6>1, <6>2 DEF Ranked
          <6>. QED BY <3>3, <4>1, <6>3
        <5>3. Low(k, d)
          BY <5>1, <5>2
        <5>4. u[k][d] = ForestOf(t, Whole(h, d))
          BY <3>3, <5>1, <5>3
        <5>5. Kids(h, p) = Whole(h, d)
          BY <4>4 DEF Kids
        <5>. HIDE DEF d
        <5>. QED BY <4>2, <5>4, <5>5 DEF p, d
      <4>. QED BY <4>3, <4>4
    <3>6. u[k + 1][n] = ForestOf(t, l)
      BY <3>1, <3>4, <3>5 DEF ForestOf
    <3>. QED BY <3>6 DEF l
  <2>. HIDE DEF Low
  <2>. QED BY <2>1
<1>. HIDE DEF T
<1>8. T = Nat
  BY <1>6, <1>7, Induction DEF T
<1>9. ASSUME NEW i \in 1 .. Len(vs)
      PROVE  u[N][h[vs[i].node].left] = ForestOf(t, Whole(h, vs[i].node))
  <2>. DEFINE n == vs[i].node  x == h[n].left  l == Whole(h, n)
  <2>1. n \in 1 .. N /\ \A m \in 1 .. N : h[m].left = x => r[m] <= N
    OBVIOUS
  <2>2. Siblings(h, l) /\ l[1] = x /\ x \in 1 .. N /\ 1 \in 1 .. Len(l)
    <3>1. Siblings(h, l) /\ l[1] = x /\ x \in 1 .. N /\ Len(l) \in 1 .. Len(l)
      BY <2>1, WholeShape
    <3>. QED BY <3>1
  <2>3. h[x].left = x
    BY <2>2 DEF Siblings
  <2>4. Whole(h, x) = Whole(h, n)
    BY <2>3 DEF Whole
  <2>. HIDE DEF x, n
  <2>5. Low(N, x)
    BY <2>1, <2>3
  <2>6. N \in T /\ N <= N
    BY <1>1, <1>8
  <2>. HIDE DEF Low
  <2>7. u[N][x] = ForestOf(t, Whole(h, x))
    BY <2>2, <2>5, <2>6 DEF T
  <2>. QED BY <2>4, <2>7 DEF n, x
<1>. HIDE DEF T, Low, N
<1>. QED BY <1>1, <1>3, <1>9

\* A node without siblings.
Alone(h, n) == h[n].left = n /\ h[n].right = Null

LEMMA AloneWhole ==
    ASSUME NEW h, Linked(h), NEW n \in 1 .. Len(h), Alone(h, n)
    PROVE  Whole(h, n) = <<n>>
<1>. DEFINE l == Whole(h, n)
<1>1. Siblings(h, l) /\ l[1] = n
  BY WholeShape DEF Alone
<1>2. l \in Seq(Nat) /\ Len(l) \in Nat /\ 1 \in 1 .. Len(l) /\ Len(h) \in Nat
  BY <1>1, LenProperties DEF Siblings, Linked
<1>. DEFINE m == Len(l)
<1>. HIDE DEF l
<1>3. m = 1
  <2>. HIDE DEF m
  <2>1. ASSUME m # 1 PROVE FALSE
    <3>1. m \in Nat /\ 1 \in 1 .. m
      BY <1>2 DEF m
    <3>2. 2 \in 1 .. m /\ 1 + 1 = 2
      BY <2>1, <3>1
    <3>3. h[l[1]].right = (IF 1 = m THEN Null ELSE l[1 + 1]) /\ l[2] \in 1 .. Len(h)
      BY <1>1, <3>1, <3>2 DEF Siblings, m
    <3>. QED BY <1>1, <1>2, <2>1, <3>2, <3>3 DEF Alone, Null
  <2>. QED BY <2>1
<1>4. n \in Nat
  BY <1>2
<1>5. <<n>> \in Seq(Nat) /\ Len(<<n>>) = 1 /\ <<n>>[1] = n
  BY <1>4
<1>6. \A i \in 1 .. Len(l) : l[i] = <<n>>[i]
  BY <1>1, <1>3, <1>5
<1>7. l = <<n>>
  BY <1>2, <1>3, <1>5, <1>6, SeqEqual
<1>. QED BY <1>7 DEF l

\* The semantic values stand for lists without a parent, no two the same; what
\* is no list is a single node.
Rooted(h, vs) ==
    /\ vs \in Seq(ValueRec)
    /\ \A i \in 1 .. Len(vs) :
          /\ vs[i].node \in 1 .. Len(h) /\ h[vs[i].node].parent = Null
          /\ ~vs[i].list => Alone(h, vs[i].node)
    /\ \A i, j \in 1 .. Len(vs) : h[vs[i].node].left = h[vs[j].node].left => i = j

\* The ranks of all values together are no more than the nodes: the list of the
\* i-th lies below off[i], and the lists before it below off[i - 1].
Budget(h, vs, rank, off) ==
    /\ off \in [0 .. Len(vs) -> Nat] /\ off[Len(vs)] <= Len(h)
    /\ \A i \in 1 .. Len(vs), n \in 1 .. Len(h) :
          h[n].left = h[vs[i].node].left => rank[n] + off[i - 1] <= off[i]

LEMMA BudgetGrows ==
    ASSUME NEW h, NEW vs, Rooted(h, vs), NEW rank, Ranked(h, rank), NEW off, Budget(h, vs, rank, off)
    PROVE  /\ \A i \in 1 .. Len(vs) : off[i - 1] + 1 <= off[i]
           /\ \A i, j \in 0 .. Len(vs) : i <= j => off[i] <= off[j]
<1>. DEFINE m == Len(vs)
<1>1. m \in Nat /\ off \in [0 .. m -> Nat]
  BY LenProperties DEF Rooted, Budget
<1>2. \A i \in 1 .. m : off[i - 1] + 1 <= off[i]
  <2>1. ASSUME NEW i \in 1 .. m PROVE off[i - 1] + 1 <= off[i]
    <3>. DEFINE n == vs[i].node
    <3>1. n \in 1 .. Len(h)
      BY DEF Rooted
    <3>2. rank[n] + off[i - 1] <= off[i]
      BY <3>1 DEF Budget
    <3>3. rank[n] \in Nat /\ rank[n] >= 1
      BY <3>1 DEF Ranked
    <3>4. off[i] \in Nat /\ off[i - 1] \in Nat
      BY <1>1
    <3>. HIDE DEF n
    <3>. QED BY <3>2, <3>3, <3>4
  <2>. QED BY <2>1
<1>. HIDE DEF m
<1>. DEFINE T == {d \in Nat : \A i \in 0 .. m : i + d <= m => off[i] <= off[i + d]}
<1>3. 0 \in T
  <2>1. \A i \in 0 .. m : i + 0 = i /\ off[i] \in Nat
    BY <1>1
  <2>. QED BY <2>1
<1>4. ASSUME NEW d \in T PROVE d + 1 \in T
  <2>1. ASSUME NEW i \in 0 .. m, i + (d + 1) <= m PROVE off[i] <= off[i + (d + 1)]
    <3>. DEFINE x == i + d  y == i + (d + 1)
    <3>1. x \in 0 .. m /\ x <= m /\ y \in 1 .. m /\ y - 1 = x /\ d \in Nat
      BY <1>1, <2>1
    <3>2. off[i] <= off[x]
      BY <3>1
    <3>. HIDE DEF x, y
    <3>3. off[x] + 1 <= off[y]
      BY <1>2, <3>1
    <3>4. off[i] \in Nat /\ off[x] \in Nat /\ off[y] \in Nat
      BY <1>1, <3>1
    <3>5. off[i] <= off[y]
      BY <3>2, <3>3, <3>4
    <3>. QED BY <3>5 DEF y
  <2>. QED BY <2>1
<1>. HIDE DEF T
<1>5. T = Nat
  BY <1>3, <1>4, Induction DEF T
<1>6. ASSUME NEW i \in 0 .. m, NEW j \in 0 .. m, i <= j PROVE off[i] <= off[j]
  <2>1. j - i \in T /\ i + (j - i) = j /\ j <= m
    BY <1>1, <1>5, <1>6
  <2>. QED BY <2>1 DEF T
<1>. QED BY <1>2, <1>6 DEF m

Parsed(t, rank, off) ==
    /\ Linked(nodes) /\ Rooted(nodes, values)
    /\ Reading(nodes, t) /\ Ranked(nodes, rank) /\ Budget(nodes, values, rank, off)
    /\ forests = [i \in 1 .. Len(values) |-> ForestOf(t, Whole(nodes, values[i].node))]
AstInv == \E t, rank, off : Parsed(t, rank, off)

LEMMA SameForest ==
    ASSUME NEW t, NEW u, NEW l, \A i \in 1 .. Len(l) : t[l[i]] = u[l[i]]
    PROVE  ForestOf(t, l) = ForestOf(u, l)
BY DEF ForestOf

\* A production leaves the list of n alone and its result x is in another list.
Spared(g, x, n) ==
    /\ g[x].left # nodes[n].left
    /\ \A m \in 1 .. Len(nodes) : nodes[m].left = nodes[n].left =>
          g[m].left = nodes[m].left /\ g[m].parent = Null /\ g[m].right = nodes[m].right

LEMMA SparedStays ==
    ASSUME Linked(nodes), NEW g, Linked(g), Len(nodes) <= Len(g), NEW x,
           NEW n \in 1 .. Len(nodes), Spared(g, x, n)
    PROVE  Whole(g, n) = Whole(nodes, n)
<1>. DEFINE l == Whole(nodes, n)
<1>1. Siblings(nodes, l) /\ l[1] = nodes[n].left /\ \E i \in 1 .. Len(l) : l[i] = n
  BY WholeShape
<1>. HIDE DEF l
<1>2. Len(nodes) \in Nat /\ Len(g) \in Nat
  BY LenProperties DEF Linked
<1>3. AlikeIn(nodes, g, l[1], Null)
  BY <1>1, <1>2 DEF Spared, AlikeIn
<1>4. Siblings(g, l) /\ g \in Seq(NodeRec)
  BY <1>1, <1>3, ListKept DEF Linked
<1>5. Whole(g, n) = l
  BY <1>1, <1>4, WholeIs
<1>. QED BY <1>5 DEF l

\* A reduction of k values to the list of x, in the heap g with the trees u and
\* the ranks above, for which b new nodes make room.
Reducible(t, rank, off, k, g, x, u, above, b) ==
    /\ k \in Nat /\ k <= Len(values) /\ x \in 1 .. Len(g)
    /\ Linked(g) /\ Len(nodes) <= Len(g) /\ g[x].parent = Null
    /\ Reading(g, u) /\ Ranked(g, above)
    /\ \A j \in 1 .. Len(values) - k :
          /\ Spared(g, x, values[j].node)
          /\ \A n \in 1 .. Len(nodes) :
                nodes[n].left = nodes[values[j].node].left => u[n] = t[n] /\ above[n] = rank[n]
    /\ b \in Nat /\ Len(nodes) + b <= Len(g)
    /\ \A n \in 1 .. Len(g) : g[n].left = g[x].left =>
          above[n] + off[Len(values) - k] <= off[Len(values)] + b

LEMMA ReduceStep ==
    ASSUME NEW t, NEW rank, NEW off, Parsed(t, rank, off), NEW k, NEW g, NEW x, NEW u, NEW above,
           NEW b, Reducible(t, rank, off, k, g, x, u, above, b),
           NEW many \in BOOLEAN, ~many => Alone(g, x), Reduce(k, g, Value(x, many)),
           forests' = Forests(nodes', values')
    PROVE  AstInv' /\ Trees!Reduce(k, ForestOf(u, Whole(g, x)))
<1>0. /\ k \in Nat /\ k <= Len(values) /\ x \in 1 .. Len(g)
      /\ Linked(g) /\ Len(nodes) <= Len(g) /\ g[x].parent = Null
      /\ Reading(g, u) /\ Ranked(g, above)
      /\ \A j \in 1 .. Len(values) - k : Spared(g, x, values[j].node)
      /\ \A j \in 1 .. Len(values) - k : \A n \in 1 .. Len(nodes) :
            nodes[n].left = nodes[values[j].node].left => u[n] = t[n] /\ above[n] = rank[n]
      /\ b \in Nat /\ Len(nodes) + b <= Len(g)
      /\ \A n \in 1 .. Len(g) : g[n].left = g[x].left =>
            above[n] + off[Len(values) - k] <= off[Len(values)] + b
  BY DEF Reducible
<1>. USE <1>0
<1>. DEFINE n == Len(values)  m == n - k  vs == SubSeq(values, 1, m)  v == Value(x, many)
<1>1. /\ n \in Nat /\ m \in Nat /\ Len(nodes) \in Nat /\ Len(g) \in Nat /\ values \in Seq(ValueRec)
      /\ m <= n /\ off \in [0 .. n -> Nat]
  BY LenProperties DEF Parsed, Linked, Rooted, Budget
<1>2. nodes' = g /\ values' = Append(vs, v)
  BY DEF Reduce
<1>3. v \in ValueRec /\ v.node = x /\ v.list = many
  BY <1>1 DEF Value, ValueRec
<1>. HIDE DEF v
<1>4. vs \in Seq(ValueRec) /\ Len(vs) = m /\ \A i \in 1 .. m : vs[i] = values[i]
  <2>1. \A i \in 1 .. m : values[i] \in ValueRec
    <3>1. \A i \in 1 .. m : i \in 1 .. Len(values)
      BY <1>1
    <3>. QED BY <1>1, <3>1, ElementOfSeq
  <2>2. /\ vs \in Seq(ValueRec) /\ Len(vs) = IF 1 <= m THEN m - 1 + 1 ELSE 0
        /\ \A i \in 1 .. m - 1 + 1 : vs[i] = values[1 + i - 1]
    BY <1>1, <2>1, SubSeqProperties
  <2>. HIDE DEF vs, m
  <2>3. Len(vs) = m /\ m - 1 + 1 = m /\ \A i \in 1 .. m : 1 + i - 1 = i
    BY <1>1, <2>2
  <2>. QED BY <2>2, <2>3
<1>. HIDE DEF vs
<1>5. /\ values' \in Seq(ValueRec) /\ Len(values') = m + 1
      /\ \A i \in 1 .. m : values'[i] = values[i]
      /\ values'[m + 1] = v
  <2>1. values' = Append(vs, v) /\ vs \in Seq(ValueRec) /\ v \in ValueRec /\ Len(vs) = m
    BY <1>2, <1>3, <1>4
  <2>. HIDE DEF m
  <2>2. /\ values' \in Seq(ValueRec) /\ Len(values') = m + 1
        /\ \A i \in 1 .. m : values'[i] = vs[i]
        /\ values'[m + 1] = v
    BY <2>1, AppendProperties
  <2>. QED BY <1>4, <2>2
<1>6. ASSUME NEW i \in 1 .. m
      PROVE  LET y == values[i].node IN
             /\ y \in 1 .. Len(g) /\ y \in 1 .. Len(nodes) /\ nodes[y].parent = Null
             /\ g[y].left = nodes[y].left /\ g[y].parent = Null /\ g[y].right = nodes[y].right
             /\ g[x].left # nodes[y].left /\ Spared(g, x, y)
             /\ i \in 1 .. n /\ (~values[i].list => Alone(nodes, y))
  <2>. DEFINE y == values[i].node
  <2>1. i \in 1 .. n /\ Spared(g, x, y)
    BY <1>1
  <2>2. /\ y \in 1 .. Len(nodes) /\ nodes[y].parent = Null
        /\ ~values[i].list => Alone(nodes, y)
    BY <2>1 DEF Parsed, Rooted
  <2>. HIDE DEF y, m, n
  <2>3. /\ g[x].left # nodes[y].left /\ y \in 1 .. Len(g)
        /\ g[y].left = nodes[y].left /\ g[y].parent = Null /\ g[y].right = nodes[y].right
    BY <1>1, <2>1, <2>2 DEF Spared
  <2>. QED BY <2>1, <2>2, <2>3 DEF y
<1>7. 1 .. m + 1 = 1 .. m \cup {m + 1} /\ m + 1 \notin 1 .. m
  <2>1. m \in Nat
    BY <1>1
  <2>. HIDE DEF m
  <2>. QED BY <2>1
<1>. HIDE DEF m, n
<1>8. Rooted(g, values')
  <2>1. ASSUME NEW i \in 1 .. m + 1
        PROVE  /\ values'[i].node \in 1 .. Len(g) /\ g[values'[i].node].parent = Null
               /\ ~values'[i].list => Alone(g, values'[i].node)
    <3>1. CASE i \in 1 .. m
      <4>1. values'[i] = values[i]
        BY <1>5, <3>1
      <4>. DEFINE y == values[i].node
      <4>2. /\ y \in 1 .. Len(g) /\ g[y].parent = Null
            /\ g[y].left = nodes[y].left /\ g[y].right = nodes[y].right
            /\ ~values[i].list => Alone(nodes, y)
        BY <1>6, <3>1
      <4>. QED BY <4>1, <4>2 DEF Alone
    <3>2. CASE i = m + 1
      BY <1>3, <1>5, <3>2
    <3>. QED BY <1>7, <3>1, <3>2
  <2>2. ASSUME NEW i \in 1 .. m + 1, NEW j \in 1 .. m + 1,
               g[values'[i].node].left = g[values'[j].node].left
        PROVE  i = j
    <3>1. CASE i \in 1 .. m /\ j \in 1 .. m
      <4>1. nodes[values[i].node].left = nodes[values[j].node].left
        BY <1>5, <1>6, <2>2, <3>1
      <4>. QED BY <1>6, <3>1, <4>1 DEF Parsed, Rooted, n
    <3>2. CASE i \in 1 .. m /\ j = m + 1
      <4>1. g[x].left # g[values[i].node].left
        BY <1>6, <3>2
      <4>2. values'[i] = values[i] /\ values'[j].node = x
        BY <1>3, <1>5, <3>2
      <4>. QED BY <2>2, <4>1, <4>2
    <3>3. CASE j \in 1 .. m /\ i = m + 1
      <4>1. g[x].left # g[values[j].node].left
        BY <1>6, <3>3
      <4>2. values'[j] = values[j] /\ values'[i].node = x
        BY <1>3, <1>5, <3>3
      <4>. QED BY <2>2, <4>1, <4>2
    <3>. QED BY <1>7, <3>1, <3>2, <3>3
  <2>. QED BY <1>5, <2>1, <2>2 DEF Rooted
<1>9. ASSUME NEW i \in 1 .. m
      PROVE  LET y == values[i].node IN
             /\ Whole(g, y) = Whole(nodes, y)
             /\ ForestOf(u, Whole(g, y)) = forests[i]
             /\ \A z \in 1 .. Len(g) : g[z].left = g[y].left => above[z] + off[i - 1] <= off[i]
  <2>. DEFINE y == values[i].node  l == Whole(nodes, y)
  <2>1. /\ y \in 1 .. Len(nodes) /\ y \in 1 .. Len(g) /\ Spared(g, x, y) /\ i \in 1 .. n
        /\ g[y].left = nodes[y].left
    BY <1>6
  <2>2. \A z \in 1 .. Len(nodes) :
           nodes[z].left = nodes[y].left => u[z] = t[z] /\ above[z] = rank[z]
    BY DEF m, n
  <2>3. forests[i] = ForestOf(t, l)
    BY <2>1 DEF Parsed, n
  <2>. HIDE DEF y
  <2>4. Whole(g, y) = l
    BY <2>1, SparedStays DEF Parsed
  <2>5. /\ Siblings(nodes, l) /\ l[1] = nodes[y].left
        /\ \A z \in 1 .. Len(nodes) :
              nodes[z].left = nodes[y].left <=> \E j \in 1 .. Len(l) : l[j] = z
    BY <2>1, WholeShape DEF Parsed
  <2>6. \A z \in 1 .. Len(g) :
           g[z].left = g[y].left <=> \E j \in 1 .. Len(l) : l[j] = z
    <3>1. LET w == Whole(g, y) IN
          \A z \in 1 .. Len(g) : g[z].left = g[y].left <=> \E j \in 1 .. Len(w) : w[j] = z
      BY <2>1, WholeShape
    <3>. QED BY <2>4, <3>1
  <2>. HIDE DEF l
  <2>7. \A j \in 1 .. Len(l) : l[j] \in 1 .. Len(nodes) /\ nodes[l[j]].left = nodes[y].left
    BY <2>5 DEF Siblings
  <2>8. ForestOf(u, l) = forests[i]
    <3>1. \A j \in 1 .. Len(l) : u[l[j]] = t[l[j]]
      BY <2>2, <2>7
    <3>. QED BY <2>3, <3>1, SameForest
  <2>9. ASSUME NEW z \in 1 .. Len(g), g[z].left = g[y].left
        PROVE  above[z] + off[i - 1] <= off[i]
    <3>1. z \in 1 .. Len(nodes) /\ nodes[z].left = nodes[y].left
      <4>1. PICK j \in 1 .. Len(l) : l[j] = z
        BY <2>6, <2>9
      <4>. QED BY <2>7, <4>1
    <3>2. rank[z] + off[i - 1] <= off[i]
      BY <2>1, <3>1 DEF Parsed, Budget, n, y
    <3>. QED BY <2>2, <3>1, <3>2
  <2>. QED BY <2>4, <2>8, <2>9 DEF y, l
<1>. DEFINE new == [i \in 0 .. m + 1 |-> IF i <= m THEN off[i] ELSE off[n] + b]
<1>10. Budget(g, values', above, new)
  <2>1. /\ new \in [0 .. m + 1 -> Nat] /\ new[m + 1] = off[n] + b
        /\ \A i \in 0 .. m : new[i] = off[i]
    BY <1>1
  <2>. HIDE DEF new
  <2>2. new[m + 1] <= Len(g)
    <3>1. off[n] <= Len(nodes) /\ off[n] \in Nat
      BY <1>1 DEF Parsed, Budget, n
    <3>. QED BY <1>1, <2>1, <3>1
  <2>3. ASSUME NEW i \in 1 .. m + 1, NEW z \in 1 .. Len(g), g[z].left = g[values'[i].node].left
        PROVE  above[z] + new[i - 1] <= new[i]
    <3>1. CASE i \in 1 .. m
      <4>1. new[i] = off[i] /\ new[i - 1] = off[i - 1]
        <5>1. i \in 0 .. m /\ i - 1 \in 0 .. m
          BY <1>1, <3>1
        <5>. QED BY <2>1, <5>1
      <4>. QED BY <1>5, <1>9, <2>3, <3>1, <4>1
    <3>2. CASE i = m + 1
      <4>1. new[i - 1] = off[m] /\ g[z].left = g[x].left
        <5>1. i - 1 = m /\ m \in 0 .. m
          BY <1>1, <3>2
        <5>. QED BY <1>3, <1>5, <2>1, <2>3, <3>2, <5>1
      <4>2. above[z] + off[m] <= off[n] + b
        BY <4>1 DEF m, n
      <4>. QED BY <2>1, <3>2, <4>1, <4>2
    <3>. QED BY <1>7, <3>1, <3>2
  <2>. QED BY <1>5, <2>1, <2>2, <2>3 DEF Budget
<1>. HIDE DEF new
<1>. DEFINE F == [i \in 1 .. m + 1 |-> ForestOf(u, Whole(g, values'[i].node))]
<1>11. Forests(g, values') = F
  <2>1. ASSUME NEW i \in 1 .. Len(values'), NEW z \in 1 .. Len(g),
               g[z].left = g[values'[i].node].left
        PROVE  above[z] <= Len(g)
    <3>1. above[z] + new[i - 1] <= new[i]
      BY <1>10, <2>1 DEF Budget
    <3>2. new[i] <= new[m + 1]
      <4>1. i \in 0 .. m + 1 /\ m + 1 \in 0 .. m + 1 /\ i <= m + 1
        BY <1>1, <1>5
      <4>. QED BY <1>5, <1>8, <1>10, <4>1, BudgetGrows
    <3>3. new[m + 1] <= Len(g) /\ new \in [0 .. m + 1 -> Nat]
      BY <1>5, <1>10 DEF Budget
    <3>4. new[i] \in Nat /\ new[i - 1] \in Nat /\ new[m + 1] \in Nat
      <4>1. i \in 0 .. m + 1 /\ i - 1 \in 0 .. m + 1 /\ m + 1 \in 0 .. m + 1
        BY <1>1, <1>5
      <4>. QED BY <3>3, <4>1
    <3>5. above[z] \in Nat
      BY DEF Ranked
    <3>. DEFINE c == above[z]  d == new[i - 1]  e == new[i]  f == new[m + 1]  G == Len(g)
    <3>6. c + d <= e /\ e <= f /\ f <= G /\ c \in Nat /\ d \in Nat /\ e \in Nat /\ f \in Nat /\ G \in Nat
      BY <1>1, <3>1, <3>2, <3>3, <3>4, <3>5
    <3>. HIDE DEF c, d, e, f, G
    <3>7. c <= G
      BY <3>6
    <3>. QED BY <3>7 DEF c, G
  <2>2. \A i \in 1 .. Len(values') :
           /\ values'[i].node \in 1 .. Len(g)
           /\ \A z \in 1 .. Len(g) : g[z].left = g[values'[i].node].left => above[z] <= Len(g)
    BY <1>8, <2>1 DEF Rooted
  <2>. DEFINE ws == values'
  <2>3. ws \in Seq(ValueRec)
    BY <1>5
  <2>4. Len(ws) = m + 1
    BY <1>5
  <2>. HIDE DEF ws
  <2>5. Forests(g, ws) = [i \in 1 .. Len(ws) |-> ForestOf(u, Whole(g, ws[i].node))]
    BY <2>2, <2>3, ForestsRead DEF ws
  <2>. QED BY <2>4, <2>5 DEF ws
<1>12. forests' = F
  BY <1>2, <1>11
<1>13. AstInv'
  <2>1. /\ Linked(nodes') /\ Rooted(nodes', values') /\ Reading(nodes', u) /\ Ranked(nodes', above)
        /\ Budget(nodes', values', above, new)
        /\ forests' = [i \in 1 .. Len(values') |-> ForestOf(u, Whole(nodes', values'[i].node))]
    BY <1>2, <1>5, <1>8, <1>10, <1>12
  <2>2. \E tt, rr, oo :
        /\ Linked(nodes') /\ Rooted(nodes', values') /\ Reading(nodes', tt) /\ Ranked(nodes', rr)
        /\ Budget(nodes', values', rr, oo)
        /\ forests' = [i \in 1 .. Len(values') |-> ForestOf(tt, Whole(nodes', values'[i].node))]
    BY <2>1
  <2>. QED BY <2>2 DEF AstInv, Parsed
<1>14. Trees!Reduce(k, ForestOf(u, Whole(g, x)))
  <2>. DEFINE f == ForestOf(u, Whole(g, x))  S == {forests[i] : i \in 1 .. n} \cup {F[i] : i \in 1 .. m + 1} \cup {f}
              rest == SubSeq(forests, 1, m)
  <2>1. forests = [i \in 1 .. n |-> forests[i]] /\ F = [i \in 1 .. m + 1 |-> F[i]]
    BY DEF Parsed, n
  <2>2. F[m + 1] = f
    <3>1. m + 1 \in 1 .. m + 1
      BY <1>7
    <3>. QED BY <1>3, <1>5, <3>1
  <2>3. \A i \in 1 .. m : F[i] = forests[i]
    BY <1>5, <1>7, <1>9
  <2>. HIDE DEF f, F
  <2>4. forests \in [1 .. n -> S] /\ F \in [1 .. m + 1 -> S] /\ f \in S
    BY <2>1
  <2>. HIDE DEF S
  <2>5. /\ forests \in Seq(S) /\ Len(forests) = n
        /\ F \in Seq(S) /\ Len(F) = m + 1
    <3>1. m + 1 \in Nat
      BY <1>1
    <3>. QED BY <1>1, <2>4, <3>1, AsSeq
  <2>6. rest \in Seq(S) /\ Len(rest) = m /\ \A i \in 1 .. m : rest[i] = forests[i]
    <3>1. \A i \in 1 .. m : forests[i] \in S
      BY <1>6, <2>4
    <3>2. /\ rest \in Seq(S) /\ Len(rest) = IF 1 <= m THEN m - 1 + 1 ELSE 0
          /\ \A i \in 1 .. m - 1 + 1 : rest[i] = forests[1 + i - 1]
      BY <1>1, <3>1, SubSeqProperties
    <3>. HIDE DEF rest
    <3>3. Len(rest) = m /\ m - 1 + 1 = m /\ \A i \in 1 .. m : 1 + i - 1 = i
      BY <1>1, <3>2
    <3>. QED BY <3>2, <3>3
  <2>. HIDE DEF rest
  <2>7. /\ Append(rest, f) \in Seq(S) /\ Len(Append(rest, f)) = m + 1
        /\ \A i \in 1 .. m : Append(rest, f)[i] = rest[i]
        /\ Append(rest, f)[m + 1] = f
    BY <2>4, <2>6, AppendProperties
  <2>8. F = Append(rest, f)
    <3>1. \A i \in 1 .. m + 1 : F[i] = Append(rest, f)[i]
      BY <1>7, <2>2, <2>3, <2>6, <2>7
    <3>. QED BY <2>5, <2>7, <3>1, SeqEqual
  <2>9. Trees!size = n
    BY <2>5 DEF Trees!size
  <2>10. Trees!Rest(k) = rest /\ n >= k
    BY <2>9, <1>1 DEF Trees!Rest, rest, m, n
  <2>. QED BY <1>12, <2>8, <2>9, <2>10 DEF Trees!Reduce, f
<1>. QED BY <1>13, <1>14

\* h is the heap with newer nodes behind the old ones.
Grown(h) ==
    /\ Linked(h) /\ Len(nodes) <= Len(h)
    /\ \A n \in 1 .. Len(nodes) : h[n] = nodes[n]

LEMMA AllocatedGrows ==
    ASSUME Linked(nodes), NEW k \in Nat
    PROVE  /\ Grown(Allocated(k)) /\ Len(Allocated(k)) = Len(nodes) + k
           /\ \A i \in 1 .. k : Allocated(k)[Len(nodes) + i] = Fresh(Len(nodes) + i)
<1>. DEFINE h == Allocated(k)  m == Len(nodes)  new == [i \in 1 .. k |-> Fresh(m + i)]
<1>1. nodes \in Seq(NodeRec) /\ m \in Nat
  BY LenProperties DEF Linked
<1>2. new \in Seq(NodeRec) /\ Len(new) = k
  <2>1. \A i \in 1 .. k : Fresh(m + i) \in NodeRec
    BY <1>1 DEF Fresh, NodeRec, Null
  <2>. HIDE DEF m
  <2>2. new \in [1 .. k -> NodeRec]
    BY <2>1
  <2>. HIDE DEF new
  <2>. QED BY <2>2, AsSeq
<1>3. h = nodes \o new
  BY DEF Allocated
<1>. HIDE DEF h, new
<1>4. /\ h \in Seq(NodeRec) /\ Len(h) = m + k
      /\ \A n \in 1 .. m + k : h[n] = IF n <= m THEN nodes[n] ELSE new[n - m]
  BY <1>1, <1>2, <1>3, ConcatProperties
<1>5. \A n \in 1 .. m : h[n] = nodes[n] /\ n \in 1 .. Len(h)
  BY <1>1, <1>4
<1>6. ASSUME NEW i \in 1 .. k PROVE h[m + i] = Fresh(m + i) /\ m + i \in 1 .. Len(h)
  <2>1. m + i \in 1 .. m + k /\ ~(m + i <= m) /\ (m + i) - m = i
    BY <1>1
  <2>. QED BY <1>4, <2>1 DEF new
<1>7. ASSUME NEW n \in 1 .. m
      PROVE  InList(h, n) /\ ChildAgrees(h, n) /\ ParentAgrees(h, n)
  <2>. DEFINE l == Whole(nodes, n)  q == nodes[n].parent
  <2>1. /\ Siblings(nodes, l) /\ l[1] = nodes[n].left
        /\ \A x \in 1 .. m : nodes[x].left = nodes[n].left => nodes[x].parent = q
        /\ \E i \in 1 .. Len(l) : l[i] = n
    BY WholeShape
  <2>. HIDE DEF l
  <2>2. AlikeIn(nodes, h, l[1], q)
    BY <1>5, <2>1 DEF AlikeIn
  <2>3. Siblings(h, l)
    BY <2>1, <2>2, ListKept
  <2>4. InList(h, n)
    BY <2>1, <2>3 DEF InList
  <2>5. h[n] = nodes[n] /\ ChildAgrees(nodes, n) /\ ParentAgrees(nodes, n)
    BY <1>5 DEF Linked
  <2>6. ChildAgrees(h, n) /\ ParentAgrees(h, n)
    BY <1>5, <2>5 DEF ChildAgrees, ParentAgrees
  <2>. QED BY <2>4, <2>6
<1>8. ASSUME NEW i \in 1 .. k
      PROVE  InList(h, m + i) /\ ChildAgrees(h, m + i) /\ ParentAgrees(h, m + i)
  <2>. DEFINE n == m + i
  <2>1. n \in 1 .. Len(h) /\ h[n] = Fresh(n)
    <3>1. h[m + i] = Fresh(m + i) /\ m + i \in 1 .. Len(h)
      BY <1>6
    <3>. QED BY <3>1
  <2>9. n \in Nat
    BY <1>1
  <2>. HIDE DEF n
  <2>2. h[n].child = Null /\ h[n].right = Null /\ h[n].left = n /\ h[n].parent = Null
    BY <2>1 DEF Fresh
  <2>3. <<n>> \in Seq(Nat) /\ Len(<<n>>) = 1 /\ <<n>>[1] = n
    BY <2>9
  <2>. DEFINE l == <<n>>
  <2>4. 1 .. Len(l) = {1}
    BY <2>3
  <2>. HIDE DEF l
  <2>5. Siblings(h, l)
    BY <2>1, <2>2, <2>3, <2>4 DEF Siblings, l
  <2>6. InList(h, n)
    BY <2>3, <2>4, <2>5 DEF InList, l
  <2>. QED BY <2>2, <2>6 DEF ChildAgrees, ParentAgrees, n
<1>9. ASSUME NEW n \in 1 .. Len(h)
      PROVE  InList(h, n) /\ ChildAgrees(h, n) /\ ParentAgrees(h, n)
  <2>1. CASE n <= m
    <3>1. n \in 1 .. m
      BY <1>1, <2>1
    <3>. QED BY <1>7, <3>1
  <2>2. CASE n > m
    <3>1. n - m \in 1 .. k /\ m + (n - m) = n
      BY <1>1, <1>4, <2>2
    <3>2. PICK i \in 1 .. k : m + i = n
      BY <3>1
    <3>. QED BY <1>8, <3>2
  <2>. QED BY <1>1, <1>4, <2>1, <2>2
<1>10. Linked(h)
  BY <1>4, <1>9 DEF Linked
<1>11. Grown(h)
  BY <1>1, <1>4, <1>5, <1>10 DEF Grown
<1>12. \A i \in 1 .. k : h[m + i] = Fresh(m + i)
  BY <1>6
<1>. HIDE DEF m
<1>13. Len(h) = m + k
  BY <1>4
<1>. QED BY <1>11, <1>12, <1>13 DEF h, m

LEMMA OldLists ==
    ASSUME Linked(nodes), NEW h, Grown(h), NEW n \in 1 .. Len(nodes)
    PROVE  Whole(h, n) = Whole(nodes, n) /\ n \in 1 .. Len(h)
<1>. DEFINE l == Whole(nodes, n)
<1>1. /\ Siblings(nodes, l) /\ l[1] = nodes[n].left /\ \E i \in 1 .. Len(l) : l[i] = n
      /\ \A x \in 1 .. Len(nodes) : nodes[x].left = nodes[n].left => nodes[x].parent = nodes[n].parent
  BY WholeShape
<1>. HIDE DEF l
<1>2. Len(nodes) \in Nat /\ Len(h) \in Nat
  BY LenProperties DEF Grown, Linked
<1>3. \A x \in 1 .. Len(nodes) : x \in 1 .. Len(h) /\ h[x] = nodes[x]
  BY <1>2 DEF Grown
<1>4. AlikeIn(nodes, h, l[1], nodes[n].parent)
  BY <1>1, <1>3 DEF AlikeIn
<1>5. Siblings(h, l) /\ h \in Seq(NodeRec)
  BY <1>1, <1>4, ListKept DEF Grown, Linked
<1>6. Whole(h, n) = l
  BY <1>1, <1>5, WholeIs
<1>. QED BY <1>3, <1>6 DEF l

\* The trees and the ranks of the old nodes, with those of the nodes of h.
Continues(t, rank, h, t1, r1) ==
    /\ Grown(h) /\ Reading(h, t1) /\ Ranked(h, r1)
    /\ \A n \in 1 .. Len(nodes) : t1[n] = t[n] /\ r1[n] = rank[n]

LeafTree(n) == [label |-> n, kids |-> <<>>]
MoreTrees(t, h) == [n \in 1 .. Len(h) |-> IF n <= Len(nodes) THEN t[n] ELSE LeafTree(n)]
MoreRanks(rank, h) == [n \in 1 .. Len(h) |-> IF n <= Len(nodes) THEN rank[n] ELSE 1]

LEMMA NewNodes ==
    ASSUME NEW t, NEW rank, NEW off, Parsed(t, rank, off), NEW m \in Nat
    PROVE  LET h == Allocated(m) IN
           /\ Continues(t, rank, h, MoreTrees(t, h), MoreRanks(rank, h))
           /\ Len(h) = Len(nodes) + m
           /\ \A n \in 1 .. Len(nodes) :
                 n \in 1 .. Len(h) /\ h[n] = nodes[n] /\ nodes[n].left \in 1 .. Len(nodes)
           /\ \A x \in 1 .. Len(h) : x \notin 1 .. Len(nodes) =>
                 /\ Alone(h, x) /\ h[x].child = Null /\ h[x].parent = Null
                 /\ MoreTrees(t, h)[x] = LeafTree(x) /\ MoreRanks(rank, h)[x] = 1
<1>. DEFINE h == Allocated(m)  N == Len(nodes)  tt == MoreTrees(t, h)  rr == MoreRanks(rank, h)
<1>1. Grown(h) /\ Len(h) = N + m /\ \A i \in 1 .. m : h[N + i] = Fresh(N + i)
  BY AllocatedGrows DEF Parsed
<1>2. N \in Nat
  BY LenProperties DEF Parsed, Linked
<1>. HIDE DEF h
<1>3. tt = [n \in 1 .. N + m |-> IF n <= N THEN t[n] ELSE LeafTree(n)]
      /\ rr = [n \in 1 .. N + m |-> IF n <= N THEN rank[n] ELSE 1]
  BY <1>1 DEF MoreTrees, MoreRanks
<1>. HIDE DEF N, tt, rr
<1>4. ASSUME NEW n \in 1 .. N
      PROVE  n \in 1 .. Len(h) /\ h[n] = nodes[n] /\ nodes[n].left \in 1 .. N /\ tt[n] = t[n] /\ rr[n] = rank[n]
  <2>1. n \in 1 .. N + m /\ n <= N
    BY <1>2
  <2>2. nodes[n].left \in 1 .. N
    BY WholeShape DEF Parsed, N
  <2>. QED BY <1>1, <1>3, <2>1, <2>2 DEF Grown, N
<1>5. ASSUME NEW i \in 1 .. m
      PROVE  LET x == N + i IN
             /\ x \in 1 .. Len(h) /\ Alone(h, x) /\ h[x].child = Null /\ h[x].parent = Null
             /\ tt[x] = LeafTree(x) /\ rr[x] = 1
  <2>. DEFINE x == N + i
  <2>1. x \in 1 .. N + m /\ ~(x <= N) /\ h[x] = Fresh(x)
    BY <1>1, <1>2
  <2>. HIDE DEF x
  <2>2. Alone(h, x) /\ h[x].child = Null /\ h[x].parent = Null
    BY <2>1 DEF Fresh, Alone
  <2>. QED BY <1>1, <1>3, <2>1, <2>2 DEF x
<1>6. ASSUME NEW n \in 1 .. Len(h), n \notin 1 .. N
      PROVE  Alone(h, n) /\ h[n].child = Null /\ h[n].parent = Null /\ tt[n] = LeafTree(n) /\ rr[n] = 1
  <2>1. n - N \in 1 .. m /\ N + (n - N) = n
    BY <1>1, <1>2, <1>6
  <2>2. PICK i \in 1 .. m : N + i = n
    BY <2>1
  <2>. QED BY <1>5, <2>2
<1>7. ASSUME NEW n \in 1 .. Len(h)
      PROVE  tt[n] = [label |-> n, kids |-> ForestOf(tt, Kids(h, n))]
  <2>1. CASE n \notin 1 .. N
    <3>1. Kids(h, n) = <<>> /\ tt[n] = LeafTree(n) /\ ForestOf(tt, <<>>) = <<>>
      BY <1>6, <2>1 DEF Kids, ForestOf
    <3>. QED BY <3>1 DEF LeafTree
  <2>2. CASE n \in 1 .. N
    <3>. DEFINE c == nodes[n].child  l == Kids(nodes, n)
    <3>1. h[n].child = c /\ (c # Null => c \in 1 .. N)
      BY <1>4, <2>2 DEF Parsed, Linked, ChildAgrees, N
    <3>2. Kids(h, n) = l
      <4>. HIDE DEF c
      <4>1. c # Null => Whole(h, c) = Whole(nodes, c)
        BY <1>1, <3>1, OldLists DEF Parsed, N
      <4>. QED BY <3>1, <4>1 DEF Kids, c
    <3>3. \A i \in 1 .. Len(l) : l[i] \in 1 .. N
      <4>1. c = Null => l = <<>>
        BY DEF Kids
      <4>2. c # Null => l = Whole(nodes, c)
        BY DEF Kids
      <4>3. ASSUME c # Null PROVE Siblings(nodes, l)
        <5>. HIDE DEF c
        <5>. QED BY <3>1, <4>2, <4>3, WholeShape DEF Parsed, N
      <4>. HIDE DEF c, l
      <4>4. \A i \in 1 .. Len(<<>>) : <<>>[i] \in 1 .. N
        OBVIOUS
      <4>. QED BY <4>1, <4>3, <4>4 DEF Siblings, N
    <3>4. t[n] = [label |-> n, kids |-> ForestOf(t, l)]
      BY <2>2 DEF Parsed, Reading, N
    <3>. HIDE DEF l
    <3>5. ForestOf(t, l) = ForestOf(tt, l)
      <4>1. \A i \in 1 .. Len(l) : t[l[i]] = tt[l[i]]
        BY <1>4, <3>3
      <4>. QED BY <4>1, SameForest
    <3>. QED BY <1>4, <2>2, <3>2, <3>4, <3>5
  <2>. QED BY <2>1, <2>2
<1>8. ASSUME NEW n \in 1 .. Len(h)
      PROVE  rr[n] \in Nat /\ rr[n] >= 1 /\ (h[n].parent # Null => rr[n] < rr[h[n].parent])
  <2>1. CASE n \notin 1 .. N
    BY <1>6, <2>1
  <2>2. CASE n \in 1 .. N
    <3>. DEFINE q == nodes[n].parent
    <3>1. /\ rank[n] \in Nat /\ rank[n] >= 1 /\ (q # Null => rank[n] < rank[q])
      BY <2>2 DEF Parsed, Ranked, N
    <3>2. h[n].parent = q /\ (q # Null => q \in 1 .. N)
      BY <1>4, <2>2 DEF Parsed, Linked, ParentAgrees, N
    <3>3. rr[n] = rank[n]
      BY <1>4, <2>2
    <3>4. q # Null => rr[q] = rank[q]
      BY <1>4, <3>2
    <3>. QED BY <3>1, <3>2, <3>3, <3>4
  <2>. QED BY <2>1, <2>2
<1>9. Continues(t, rank, h, tt, rr)
  BY <1>1, <1>4, <1>7, <1>8 DEF Continues, Reading, Ranked, N
<1>10. Len(h) = N + m
  BY <1>1
<1>. QED BY <1>4, <1>6, <1>9, <1>10 DEF h, N, tt, rr

LEMMA ArgsShape ==
    ASSUME NEW t, NEW rank, NEW off, Parsed(t, rank, off), NEW k \in Nat, k <= Len(values)
    PROVE  /\ Len(Args(k)) = k /\ Args(k) \in Seq(Nat)
           /\ \A i \in 1 .. k : /\ Args(k)[i] \in 1 .. Len(nodes)
                                /\ nodes[Args(k)[i]].parent = Null
           /\ \A i, j \in 1 .. k : nodes[Args(k)[i]].left = nodes[Args(k)[j]].left => i = j
           /\ \A j \in 1 .. Len(values) - k, i \in 1 .. k :
                 nodes[values[j].node].left # nodes[Args(k)[i]].left
           /\ \A i \in 1 .. k :
                 ~values[(Len(values) - k) + i].list => Alone(nodes, Args(k)[i])
<1>. DEFINE n == Len(values)  a == Args(k)
<1>1. n \in Nat /\ k <= n /\ Len(nodes) \in Nat
  BY LenProperties DEF Parsed, Linked, Rooted
<1>. HIDE DEF n
<1>2. \A i \in 1 .. k : (n - k) + i \in 1 .. n
  BY <1>1
<1>3. \A i \in 1 .. k : a[i] = values[(n - k) + i].node
  <2>1. \A i \in 1 .. k : (n - k) + i = n - k + i
    BY <1>1
  <2>. QED BY <2>1 DEF Args, n
<1>4. a = [i \in 1 .. k |-> a[i]]
  BY DEF Args
<1>. HIDE DEF a
<1>5. ASSUME NEW i \in 1 .. k
      PROVE  /\ a[i] \in 1 .. Len(nodes) /\ nodes[a[i]].parent = Null
             /\ ~values[(n - k) + i].list => Alone(nodes, a[i])
  <2>1. (n - k) + i \in 1 .. Len(values) /\ a[i] = values[(n - k) + i].node
    BY <1>2, <1>3 DEF n
  <2>. QED BY <2>1 DEF Parsed, Rooted
<1>6. Len(a) = k /\ a \in Seq(Nat)
  <2>1. a \in [1 .. k -> Nat]
    BY <1>1, <1>4, <1>5
  <2>. QED BY <2>1, AsSeq
<1>7. ASSUME NEW i \in 1 .. k, NEW j \in 1 .. k, nodes[a[i]].left = nodes[a[j]].left
      PROVE  i = j
  <2>1. (n - k) + i = (n - k) + j
    BY <1>2, <1>3, <1>7 DEF Parsed, Rooted, n
  <2>. QED BY <1>1, <2>1
<1>8. ASSUME NEW j \in 1 .. n - k, NEW i \in 1 .. k
      PROVE  nodes[values[j].node].left # nodes[a[i]].left
  <2>1. j \in 1 .. n /\ j # (n - k) + i
    BY <1>1
  <2>. QED BY <1>2, <1>3, <2>1 DEF Parsed, Rooted, n
<1>. QED BY <1>5, <1>6, <1>7, <1>8 DEF a, n

\* What the arguments stand for: the top values of the abstract stack.
LEMMA ArgsForests ==
    ASSUME NEW t, NEW rank, NEW off, Parsed(t, rank, off), NEW k \in Nat, k <= Len(values)
    PROVE  /\ Trees!Top(k) = [i \in 1 .. k |-> ForestOf(t, Whole(nodes, Args(k)[i]))]
           /\ Len(Trees!Top(k)) = k /\ Trees!size = Len(values)
<1>. DEFINE n == Len(values)  a == Args(k)
            F == [i \in 1 .. k |-> ForestOf(t, Whole(nodes, a[i]))]
            S == {forests[i] : i \in 1 .. n} \cup {F[i] : i \in 1 .. k}
<1>1. n \in Nat /\ k <= n
  BY LenProperties DEF Parsed, Rooted
<1>2. forests = [i \in 1 .. n |-> ForestOf(t, Whole(nodes, values[i].node))]
  BY DEF Parsed
<1>. HIDE DEF n
<1>3. \A i \in 1 .. k : (n - k) + i \in 1 .. n /\ (n - k) + i = n - k + i
  BY <1>1
<1>4. \A i \in 1 .. k : a[i] = values[(n - k) + i].node
  BY <1>3 DEF Args, n
<1>. HIDE DEF a
<1>5. \A i \in 1 .. k : F[i] = forests[(n - k) + i]
  BY <1>2, <1>3, <1>4
<1>. HIDE DEF F
<1>6. forests \in [1 .. n -> S] /\ F \in [1 .. k -> S]
  BY <1>2 DEF F
<1>. HIDE DEF S
<1>7. forests \in Seq(S) /\ Len(forests) = n /\ F \in Seq(S) /\ Len(F) = k
  BY <1>1, <1>6, AsSeq
<1>. DEFINE m == (n - k) + 1  top == SubSeq(forests, m, n)
<1>8. Trees!size = n /\ Trees!Top(k) = top
  <2>1. n - k + 1 = m
    BY <1>1
  <2>. QED BY <1>7, <2>1 DEF Trees!size, Trees!Top
<1>9. m \in Nat /\ m >= 1 /\ \A i \in m .. n : i \in 1 .. n
  BY <1>1
<1>10. IF m <= n THEN (n - m) + 1 = k ELSE k = 0
  BY <1>1
<1>11. /\ top \in Seq(S) /\ Len(top) = (IF m <= n THEN n - m + 1 ELSE 0)
       /\ \A i \in 1 .. n - m + 1 : top[i] = forests[m + i - 1]
  <2>1. \A i \in m .. n : forests[i] \in S
    BY <1>6, <1>9
  <2>. HIDE DEF m
  <2>. QED BY <1>1, <1>7, <1>9, <2>1, SubSeqProperties
<1>. HIDE DEF top
<1>12. Len(top) = k /\ \A i \in 1 .. k : top[i] = forests[(n - k) + i]
  <2>1. n - m + 1 = (n - m) + 1 /\ \A i \in 1 .. k : m + i - 1 = (n - k) + i
    BY <1>1
  <2>2. (n - m) + 1 = k
    BY <1>1
  <2>. HIDE DEF m
  <2>. QED BY <1>10, <1>11, <2>1, <2>2
<1>. HIDE DEF m
<1>13. top = F
  BY <1>5, <1>7, <1>11, <1>12, SeqEqual
<1>. QED BY <1>8, <1>12, <1>13 DEF F, a, n

LEMMA ArgsFit ==
    ASSUME NEW t, NEW rank, NEW off, Parsed(t, rank, off), NEW k \in Nat, k <= Len(values),
           NEW i \in 1 .. k, NEW x \in 1 .. Len(nodes), nodes[x].left = nodes[Args(k)[i]].left
    PROVE  /\ rank[x] + off[Len(values) - k] <= off[Len(values)]
           /\ k >= 2 => (rank[x] + off[Len(values) - k]) + 1 <= off[Len(values)]
           /\ off[Len(values) - k] \in Nat /\ off[Len(values)] \in Nat
           /\ off[Len(values) - k] <= off[Len(values)]
<1>. DEFINE n == Len(values)  m == n - k  y == m + i
<1>1. n \in Nat /\ k <= n /\ off \in [0 .. n -> Nat]
  BY LenProperties DEF Parsed, Rooted, Budget
<1>2. y \in 1 .. n /\ Args(k)[i] = values[y].node
  <2>1. n - k + i = m + i /\ m + i \in 1 .. n
    BY <1>1
  <2>. QED BY <2>1 DEF Args
<1>3. /\ m \in 0 .. n /\ n \in 0 .. n /\ y \in 0 .. n /\ y - 1 \in 0 .. n /\ m <= y - 1 /\ y <= n /\ m <= n
      /\ k >= 2 => (m + 1 \in 1 .. n /\ m + 1 <= y - 1) \/ (n - 1 \in 0 .. n /\ n \in 1 .. n /\ y <= n - 1)
  BY <1>1
<1>. HIDE DEF m, n, y
<1>4. rank[x] + off[y - 1] <= off[y] /\ rank[x] \in Nat
  BY <1>2 DEF Parsed, Budget, Ranked, n
<1>5. /\ \A j \in 1 .. n : off[j - 1] + 1 <= off[j]
      /\ \A j, l \in 0 .. n : j <= l => off[j] <= off[l]
  BY BudgetGrows DEF Parsed, n
<1>6. \A j \in 0 .. n : off[j] \in Nat
  BY <1>1
<1>7. off[m] <= off[y - 1] /\ off[y] <= off[n] /\ off[m] <= off[n]
      /\ off[m] \in Nat /\ off[y - 1] \in Nat /\ off[y] \in Nat /\ off[n] \in Nat
  BY <1>3, <1>5, <1>6
<1>8. rank[x] + off[m] <= off[n]
  BY <1>4, <1>7
<1>9. ASSUME k >= 2 PROVE (rank[x] + off[m]) + 1 <= off[n]
  <2>1. CASE m + 1 \in 1 .. n /\ m + 1 <= y - 1
    <3>1. off[m] + 1 <= off[m + 1]
      <4>1. (m + 1) - 1 = m
        BY <1>1, <1>3
      <4>. QED BY <1>5, <2>1, <4>1
    <3>2. off[m + 1] <= off[y - 1] /\ off[m + 1] \in Nat
      <4>1. m + 1 \in 0 .. n
        BY <1>1, <2>1
      <4>. QED BY <1>3, <1>5, <1>6, <2>1, <4>1
    <3>. DEFINE A == rank[x]  B == off[m]  D == off[m + 1]  E == off[y - 1]  F == off[y]  G == off[n]
    <3>3. /\ A + E <= F /\ F <= G /\ B + 1 <= D /\ D <= E
          /\ A \in Nat /\ B \in Nat /\ D \in Nat /\ E \in Nat /\ F \in Nat /\ G \in Nat
      BY <1>4, <1>7, <3>1, <3>2
    <3>. HIDE DEF A, B, D, E, F, G
    <3>4. (A + B) + 1 <= G
      BY <3>3
    <3>. QED BY <3>4 DEF A, B, G
  <2>2. CASE n - 1 \in 0 .. n /\ n \in 1 .. n /\ y <= n - 1
    <3>1. off[n - 1] + 1 <= off[n] /\ off[y] <= off[n - 1] /\ off[n - 1] \in Nat
      BY <1>3, <1>5, <1>6, <2>2
    <3>. DEFINE A == rank[x]  B == off[m]  D == off[n - 1]  E == off[y - 1]  F == off[y]  G == off[n]
    <3>2. /\ A + E <= F /\ F <= D /\ D + 1 <= G /\ B <= E
          /\ A \in Nat /\ B \in Nat /\ D \in Nat /\ E \in Nat /\ F \in Nat /\ G \in Nat
      BY <1>4, <1>7, <3>1
    <3>. HIDE DEF A, B, D, E, F, G
    <3>3. (A + B) + 1 <= G
      BY <3>2
    <3>. QED BY <3>3 DEF A, B, G
  <2>. QED BY <1>3, <1>9, <2>1, <2>2
<1>. QED BY <1>7, <1>8, <1>9 DEF m, n

\* p collects the lists of C, in the heap h with the trees t1 and the ranks r1, as
\* the nodes s below it, for which b new nodes make room.
Collects(t, rank, off, k, h, t1, r1, p, g, C, s, b) ==
    /\ k \in Nat /\ k <= Len(values) /\ Continues(t, rank, h, t1, r1)
    /\ p \in 1 .. Len(h) /\ h[p].parent = Null /\ Alone(h, p)
    /\ Attached(h, g, C, p, s) /\ h[p].left \notin C
    /\ \A j \in 1 .. Len(values) - k :
          nodes[values[j].node].left \notin C /\ nodes[values[j].node].left # h[p].left
    /\ b \in Nat /\ Len(nodes) + b <= Len(h)
    /\ r1[p] + off[Len(values) - k] <= off[Len(values)] + b
    /\ \A n \in 1 .. Len(h) : h[n].left \in C =>
          (r1[n] + off[Len(values) - k]) + 1 <= off[Len(values)] + b

\* What that leaves: the trees u and the ranks above of g.
Collected(t, rank, off, k, h, t1, r1, p, g, s, b, u, above) ==
    /\ Linked(g) /\ Len(g) = Len(h) /\ Len(nodes) <= Len(g) /\ Len(nodes) + b <= Len(g)
    /\ p \in 1 .. Len(g) /\ g[p].left = p /\ Alone(g, p) /\ g[p].parent = Null
    /\ Reading(g, u) /\ Ranked(g, above)
    /\ u[p] = [label |-> p, kids |-> ForestOf(t1, s)]
    /\ above[p] + off[Len(values) - k] <= off[Len(values)] + b
    /\ \A n \in 1 .. Len(h) : n # p => u[n] = t1[n] /\ above[n] = r1[n]
    /\ \A j \in 1 .. Len(values) - k :
          /\ values[j].node \in 1 .. Len(nodes) /\ Spared(g, p, values[j].node)
          /\ \A n \in 1 .. Len(nodes) :
                nodes[n].left = nodes[values[j].node].left => u[n] = t[n] /\ above[n] = rank[n]

LEMMA AttachedReads ==
    ASSUME NEW t, NEW rank, NEW off, Parsed(t, rank, off),
           NEW k, NEW h, NEW t1, NEW r1, NEW p, NEW g, NEW C, NEW s, NEW b,
           Collects(t, rank, off, k, h, t1, r1, p, g, C, s, b)
    PROVE  \E u, above : Collected(t, rank, off, k, h, t1, r1, p, g, s, b, u, above)
<1>0. /\ k \in Nat /\ k <= Len(values) /\ Continues(t, rank, h, t1, r1)
      /\ p \in 1 .. Len(h) /\ h[p].parent = Null /\ Alone(h, p)
      /\ Attached(h, g, C, p, s) /\ h[p].left \notin C
      /\ \A j \in 1 .. Len(values) - k :
            nodes[values[j].node].left \notin C /\ nodes[values[j].node].left # h[p].left
      /\ b \in Nat /\ Len(nodes) + b <= Len(h)
      /\ r1[p] + off[Len(values) - k] <= off[Len(values)] + b
      /\ \A n \in 1 .. Len(h) : h[n].left \in C =>
            (r1[n] + off[Len(values) - k]) + 1 <= off[Len(values)] + b
  BY DEF Collects
<1>. USE <1>0
<1>. DEFINE N == Len(h)  low == off[Len(values) - k]  high == off[Len(values)] + b
            f == [label |-> p, kids |-> ForestOf(t1, s)]
            u == [n \in 1 .. N |-> IF n = p THEN f ELSE t1[n]]
            above == [n \in 1 .. N |-> IF n = p THEN high - low ELSE r1[n]]
<1>1. /\ Linked(g) /\ Len(g) = N /\ Linked(h) /\ N \in Nat /\ Len(nodes) <= N /\ Len(nodes) \in Nat
      /\ p \in Nat /\ p # Null
  BY LenProperties DEF Attached, Continues, Grown, Linked, Parsed, Null
<1>2. low \in Nat /\ high \in Nat /\ off[Len(values)] \in Nat
  <2>1. Len(values) \in 0 .. Len(values) /\ Len(values) - k \in 0 .. Len(values)
    BY LenProperties DEF Parsed, Rooted
  <2>2. off \in [0 .. Len(values) -> Nat]
    BY DEF Parsed, Budget
  <2>3. low \in Nat /\ off[Len(values)] \in Nat /\ b \in Nat
    BY <1>0, <2>1, <2>2
  <2>. DEFINE A == off[Len(values)]
  <2>4. A \in Nat /\ b \in Nat /\ high = A + b
    BY <2>3
  <2>. HIDE DEF A, low, high
  <2>5. high \in Nat
    BY <2>4
  <2>. QED BY <2>3, <2>4, <2>5 DEF A
<1>3. \A n \in 1 .. N : r1[n] \in Nat /\ r1[n] >= 1 /\ (h[n].parent # Null => r1[n] < r1[h[n].parent])
  BY DEF Continues, Ranked
<1>4. r1[p] + low <= high /\ \A n \in 1 .. N : h[n].left \in C => (r1[n] + low) + 1 <= high
  OBVIOUS
<1>5. /\ \A n \in 1 .. N : n # p => u[n] = t1[n] /\ above[n] = r1[n]
      /\ u[p] = f /\ above[p] = high - low
  OBVIOUS
<1>. HIDE DEF N, low, high, f, u, above
<1>6. /\ high - low \in Nat /\ high - low >= r1[p] /\ high - low >= 1
      /\ \A n \in 1 .. N : h[n].left \in C => r1[n] < high - low
  <2>1. high - low \in Nat /\ high - low >= r1[p] /\ high - low >= 1
    <3>. DEFINE R == r1[p]
    <3>1. R \in Nat /\ R >= 1 /\ R + low <= high
      BY <1>3, <1>4 DEF N
    <3>. HIDE DEF R
    <3>2. high - low \in Nat /\ high - low >= R /\ high - low >= 1
      BY <1>2, <3>1
    <3>. QED BY <3>2 DEF R
  <2>2. ASSUME NEW n \in 1 .. N, h[n].left \in C PROVE r1[n] < high - low
    <3>1. r1[n] \in Nat /\ (r1[n] + low) + 1 <= high
      BY <1>3, <1>4, <2>2
    <3>. QED BY <1>2, <3>1
  <2>. QED BY <2>1, <2>2
<1>7. /\ Siblings(g, s) /\ g[p].child = s[1] /\ g[s[1]].parent = p
      /\ \A n \in 1 .. N :
            /\ n # p => g[n].child = h[n].child
            /\ h[n].left \in C => g[n].parent = p
            /\ h[n].left \notin C => g[n].left = h[n].left /\ g[n].parent = h[n].parent
            /\ h[n].left \notin C /\ h[n].parent # p => g[n].right = h[n].right
  BY DEF Attached, N
<1>8. g[p].left = p /\ g[p].parent = Null /\ g[p].right = Null /\ Alone(g, p)
  BY <1>1, <1>7 DEF Alone, N
<1>9. \A i \in 1 .. Len(s) : s[i] \in 1 .. N /\ g[s[i]].parent = p /\ s[i] # p
  <2>1. \A i \in 1 .. Len(s) : s[i] \in 1 .. N /\ g[s[i]].parent = p
    BY <1>1, <1>7 DEF Siblings
  <2>. QED BY <1>1, <1>8, <2>1
<1>10. Kids(g, p) = s
  <2>1. 1 \in 1 .. Len(s)
    BY <1>7, LenProperties DEF Siblings
  <2>2. s[1] # Null /\ s[1] \in 1 .. N
    BY <1>1, <1>9, <2>1 DEF Null
  <2>3. Whole(g, s[1]) = s
    BY <1>1, <1>7, <2>1, WholeIs DEF Linked
  <2>. QED BY <1>7, <2>2, <2>3 DEF Kids
<1>11. Reading(g, u)
  <2>1. u[p] = [label |-> p, kids |-> ForestOf(u, Kids(g, p))]
    <3>1. \A i \in 1 .. Len(s) : t1[s[i]] = u[s[i]]
      BY <1>5, <1>9
    <3>2. ForestOf(t1, s) = ForestOf(u, s)
      BY <3>1, SameForest
    <3>. QED BY <1>5, <1>10, <3>2 DEF f
  <2>2. ASSUME NEW n \in 1 .. N, n # p
        PROVE  u[n] = [label |-> n, kids |-> ForestOf(u, Kids(g, n))]
    <3>. DEFINE c == h[n].child  l == Kids(h, n)
    <3>1. t1[n] = [label |-> n, kids |-> ForestOf(t1, l)]
      BY DEF Continues, Reading, N
    <3>2. c # Null => c \in 1 .. N /\ h[c].parent = n /\ h[c].left = c
      BY <1>1 DEF Linked, ChildAgrees, N
    <3>3. g[n].child = c
      BY <1>7, <2>2
    <3>4. CASE c = Null
      <4>1. l = <<>> /\ Kids(g, n) = <<>>
        BY <3>3, <3>4 DEF Kids
      <4>2. ForestOf(u, <<>>) = ForestOf(t1, <<>>)
        BY DEF ForestOf
      <4>. QED BY <1>5, <2>2, <3>1, <4>1, <4>2
    <3>5. CASE c # Null
      <4>. HIDE DEF c
      <4>1. c \in 1 .. N /\ h[c].parent = n /\ h[c].left = c /\ n # Null /\ n \in Nat
        BY <1>1, <3>2, <3>5 DEF Null
      <4>2. h[c].left \notin C
        <5>1. h[c].left \in C => g[c].parent = p
          BY <1>7, <4>1
        <5>2. g[c].parent = n
          <6>1. ChildAgrees(g, n)
            BY <1>1 DEF Linked
          <6>. QED BY <3>3, <3>5, <6>1 DEF ChildAgrees
        <5>. QED BY <2>2, <5>1, <5>2
      <4>3. Whole(g, c) = Whole(h, c)
        BY <1>1, <2>2, <4>1, <4>2, ListStays DEF N
      <4>4. Kids(g, n) = Whole(g, c) /\ l = Whole(h, c)
        BY <3>3, <3>5 DEF Kids, c
      <4>5. Siblings(h, l) /\ l[1] = c
        <5>1. Siblings(h, Whole(h, c)) /\ Whole(h, c)[1] = h[c].left
          BY <1>1, <4>1, WholeShape DEF N
        <5>. QED BY <4>1, <4>4, <5>1
      <4>. HIDE DEF l
      <4>6. ASSUME NEW i \in 1 .. Len(l) PROVE t1[l[i]] = u[l[i]]
        <5>1. l[i] \in 1 .. N /\ h[l[i]].parent = h[l[1]].parent
          BY <4>5 DEF Siblings, N
        <5>2. l[i] # p
          BY <4>1, <4>5, <5>1
        <5>. QED BY <1>5, <5>1, <5>2
      <4>7. ForestOf(t1, l) = ForestOf(u, l)
        BY <4>6 DEF ForestOf
      <4>. QED BY <1>5, <2>2, <3>1, <4>3, <4>4, <4>7
    <3>. QED BY <3>4, <3>5
  <2>. QED BY <1>1, <2>1, <2>2 DEF Reading
<1>12. Ranked(g, above)
  <2>1. ASSUME NEW n \in 1 .. N
        PROVE  above[n] \in Nat /\ above[n] >= 1 /\ (g[n].parent # Null => above[n] < above[g[n].parent])
    <3>1. CASE n = p
      BY <1>5, <1>6, <1>8, <3>1
    <3>2. CASE n # p /\ g[n].parent = p
      <4>1. h[n].left \in C \/ h[n].parent = p
        BY <1>7, <3>2
      <4>2. r1[n] < high - low
        <5>1. ASSUME h[n].parent = p PROVE r1[n] < r1[p] /\ r1[n] \in Nat /\ r1[p] \in Nat
          BY <1>1, <1>3, <5>1 DEF N
        <5>. DEFINE A == r1[n]  B == r1[p]  D == high - low
        <5>2. CASE h[n].left \in C
          BY <1>6, <5>2
        <5>3. CASE h[n].parent = p
          <6>1. A < B /\ A \in Nat /\ B \in Nat /\ D \in Nat /\ D >= B
            BY <1>6, <5>1, <5>3
          <6>. HIDE DEF A, B, D
          <6>2. A < D
            BY <6>1
          <6>. QED BY <6>2 DEF A, D
        <5>. QED BY <4>1, <5>2, <5>3
      <4>. QED BY <1>3, <1>5, <3>2, <4>2
    <3>3. CASE n # p /\ g[n].parent # p
      <4>1. h[n].parent = g[n].parent
        BY <1>7, <3>3
      <4>2. g[n].parent # Null => g[n].parent \in 1 .. N
        BY <1>1 DEF Linked, ParentAgrees
      <4>. QED BY <1>3, <1>5, <3>3, <4>1, <4>2
    <3>. QED BY <3>1, <3>2, <3>3
  <2>. QED BY <1>1, <2>1 DEF Ranked
<1>13. ASSUME NEW j \in 1 .. Len(values) - k
       PROVE  /\ values[j].node \in 1 .. Len(nodes) /\ Spared(g, p, values[j].node)
              /\ \A n \in 1 .. Len(nodes) :
                    nodes[n].left = nodes[values[j].node].left => u[n] = t[n] /\ above[n] = rank[n]
  <2>. DEFINE x == values[j].node
  <2>1. j \in 1 .. Len(values)
    BY LenProperties DEF Parsed, Rooted
  <2>2. x \in 1 .. Len(nodes) /\ nodes[x].parent = Null
    BY <2>1 DEF Parsed, Rooted
  <2>3. nodes[x].left \notin C /\ nodes[x].left # h[p].left
    OBVIOUS
  <2>. HIDE DEF x
  <2>4. ASSUME NEW n \in 1 .. Len(nodes), nodes[n].left = nodes[x].left
        PROVE  /\ g[n].left = nodes[n].left /\ g[n].parent = Null /\ g[n].right = nodes[n].right
               /\ u[n] = t[n] /\ above[n] = rank[n]
    <3>1. n \in 1 .. N /\ h[n] = nodes[n] /\ t1[n] = t[n] /\ r1[n] = rank[n]
      BY <1>1 DEF Continues, Grown
    <3>2. nodes[n].parent = Null
      <4>1. \A y \in 1 .. Len(nodes) : nodes[y].left = nodes[x].left => nodes[y].parent = nodes[x].parent
        BY <2>2, WholeShape DEF Parsed
      <4>. QED BY <2>2, <2>4, <4>1
    <3>3. n # p
      BY <2>3, <2>4, <3>1
    <3>4. h[n].left \notin C /\ h[n].left = nodes[n].left /\ h[n].parent = Null
      BY <2>3, <2>4, <3>1, <3>2
    <3>5. g[n].left = h[n].left /\ g[n].parent = h[n].parent /\ g[n].right = h[n].right
      BY <1>1, <1>7, <3>1, <3>4
    <3>6. u[n] = t1[n] /\ above[n] = r1[n]
      BY <1>5, <3>1, <3>3
    <3>. QED BY <3>1, <3>4, <3>5, <3>6
  <2>5. g[p].left # nodes[x].left
    BY <1>8, <2>3 DEF Alone
  <2>6. Spared(g, p, x)
    BY <2>4, <2>5 DEF Spared
  <2>. QED BY <2>2, <2>4, <2>6 DEF x
<1>14. p \in 1 .. Len(g) /\ Len(nodes) <= Len(g) /\ Len(nodes) + b <= Len(g)
  BY <1>1 DEF N
<1>15. above[p] + off[Len(values) - k] <= off[Len(values)] + b
  <2>1. above[p] + low <= high
    BY <1>2, <1>5, <1>6
  <2>. QED BY <2>1 DEF low, high
<1>16. Collected(t, rank, off, k, h, t1, r1, p, g, s, b, u, above)
  BY <1>1, <1>5, <1>8, <1>11, <1>12, <1>13, <1>14, <1>15 DEF Collected, N, f
<1>. QED BY <1>16

LEMMA AttachedStep ==
    ASSUME NEW t, NEW rank, NEW off, Parsed(t, rank, off),
           NEW k, NEW h, NEW t1, NEW r1, NEW p, NEW g, NEW C, NEW s, NEW b,
           Collects(t, rank, off, k, h, t1, r1, p, g, C, s, b),
           Reduce(k, g, Value(p, FALSE)), forests' = Forests(nodes', values')
    PROVE  AstInv' /\ Trees!Reduce(k, <<[label |-> p, kids |-> ForestOf(t1, s)]>>)
<1>1. PICK u, above : Collected(t, rank, off, k, h, t1, r1, p, g, s, b, u, above)
  BY AttachedReads
<1>2. /\ Linked(g) /\ p \in 1 .. Len(g) /\ Alone(g, p)
      /\ u[p] = [label |-> p, kids |-> ForestOf(t1, s)]
      /\ above[p] + off[Len(values) - k] <= off[Len(values)] + b
  BY <1>1 DEF Collected
<1>3. Whole(g, p) = <<p>>
  BY <1>2, AloneWhole
<1>4. ASSUME NEW n \in 1 .. Len(g), g[n].left = g[p].left PROVE n = p
  <2>1. \E i \in 1 .. Len(Whole(g, p)) : Whole(g, p)[i] = n
    <3>1. \A m \in 1 .. Len(g) : g[m].left = g[p].left <=>
              \E i \in 1 .. Len(Whole(g, p)) : Whole(g, p)[i] = m
      BY <1>2, WholeShape
    <3>. QED BY <1>4, <3>1
  <2>2. Len(<<p>>) = 1 /\ <<p>>[1] = p /\ 1 .. 1 = {1}
    OBVIOUS
  <2>. QED BY <1>3, <2>1, <2>2
<1>5. k \in Nat /\ k <= Len(values) /\ b \in Nat
  BY DEF Collects
<1>6. Reducible(t, rank, off, k, g, p, u, above, b)
  <2>1. \A n \in 1 .. Len(g) : g[n].left = g[p].left =>
           above[n] + off[Len(values) - k] <= off[Len(values)] + b
    BY <1>2, <1>4
  <2>. QED BY <1>1, <1>5, <2>1 DEF Reducible, Collected
<1>7. AstInv' /\ Trees!Reduce(k, ForestOf(u, Whole(g, p)))
  <2>1. FALSE \in BOOLEAN
    OBVIOUS
  <2>. QED BY <1>2, <1>6, <2>1, ReduceStep
<1>8. ForestOf(u, <<p>>) = <<u[p]>>
  BY DEF ForestOf
<1>. QED BY <1>2, <1>3, <1>7, <1>8

LEMMA OldForests ==
    ASSUME Linked(nodes), NEW t, NEW rank, NEW h, NEW t1, NEW r1, Continues(t, rank, h, t1, r1),
           NEW n \in 1 .. Len(nodes)
    PROVE  ForestOf(t1, Whole(h, n)) = ForestOf(t, Whole(nodes, n))
<1>. DEFINE l == Whole(nodes, n)
<1>1. Whole(h, n) = l
  BY OldLists DEF Continues
<1>2. Siblings(nodes, l)
  BY WholeShape
<1>. HIDE DEF l
<1>3. \A i \in 1 .. Len(l) : t1[l[i]] = t[l[i]]
  BY <1>2 DEF Siblings, Continues
<1>4. ForestOf(t1, l) = ForestOf(t, l)
  BY <1>3, SameForest
<1>. QED BY <1>1, <1>4 DEF l

\* What a reduction of the abstract stack leaves.
LEMMA Reduced ==
    ASSUME NEW t, NEW rank, NEW off, Parsed(t, rank, off), NEW k \in Nat, k <= Len(values),
           NEW f, Trees!Reduce(k, f)
    PROVE  /\ Trees!size = Len(values) /\ Trees!size \in Nat /\ Trees!size >= k
           /\ Len(forests') = Trees!size - k + 1
           /\ SubSeq(forests', 1, Trees!size - k) = Trees!Rest(k)
           /\ Trees!Last(forests') = f
<1>. DEFINE n == Len(values)  m == n - k  rest == SubSeq(forests, 1, m)
            S == {forests[i] : i \in 1 .. n} \cup {f}
<1>1. n \in Nat /\ k <= n /\ m \in Nat
  BY LenProperties DEF Parsed, Rooted
<1>2. forests \in [1 .. n -> S]
  BY DEF Parsed
<1>. HIDE DEF n, S
<1>3. forests \in Seq(S) /\ Len(forests) = n
  BY <1>1, <1>2, AsSeq
<1>4. Trees!size = n /\ Trees!Rest(k) = rest
  BY <1>3 DEF Trees!size, Trees!Rest
<1>5. \A i \in 1 .. m : i \in 1 .. n
  BY <1>1
<1>. HIDE DEF m
<1>6. rest \in Seq(S) /\ Len(rest) = m /\ \A i \in 1 .. m : rest[i] = forests[i]
  <2>1. \A i \in 1 .. m : forests[i] \in S
    BY <1>2, <1>5
  <2>2. /\ rest \in Seq(S) /\ Len(rest) = IF 1 <= m THEN m - 1 + 1 ELSE 0
        /\ \A i \in 1 .. m - 1 + 1 : rest[i] = forests[1 + i - 1]
    BY <1>1, <1>3, <2>1, SubSeqProperties
  <2>. HIDE DEF rest
  <2>3. Len(rest) = m /\ m - 1 + 1 = m /\ \A i \in 1 .. m : 1 + i - 1 = i
    BY <1>1, <2>2
  <2>. QED BY <2>2, <2>3
<1>7. forests' = Append(rest, f)
  BY <1>4 DEF Trees!Reduce
<1>. HIDE DEF rest
<1>8. f \in S
  BY DEF S
<1>. DEFINE F == Append(rest, f)
<1>9. F \in Seq(S) /\ Len(F) = m + 1 /\ (\A i \in 1 .. m : F[i] = rest[i]) /\ F[m + 1] = f
  BY <1>6, <1>8, AppendProperties
<1>. HIDE DEF F
<1>10. Trees!Last(F) = f
  BY <1>9 DEF Trees!Last
<1>11. SubSeq(F, 1, m) = rest
  <2>. DEFINE q == SubSeq(F, 1, m)
  <2>1. \A i \in 1 .. m : F[i] \in S
    <3>1. \A i \in 1 .. m : i \in 1 .. Len(F)
      BY <1>1, <1>9
    <3>. QED BY <1>9, <3>1, ElementOfSeq
  <2>2. /\ q \in Seq(S) /\ Len(q) = IF 1 <= m THEN m - 1 + 1 ELSE 0
        /\ \A i \in 1 .. m - 1 + 1 : q[i] = F[1 + i - 1]
    BY <1>1, <1>9, <2>1, SubSeqProperties
  <2>. HIDE DEF q
  <2>3. Len(q) = m /\ m - 1 + 1 = m /\ \A i \in 1 .. m : 1 + i - 1 = i
    BY <1>1, <2>2
  <2>4. \A i \in 1 .. m : q[i] = rest[i]
    BY <1>9, <2>2, <2>3
  <2>5. q = rest
    BY <1>6, <2>2, <2>3, <2>4, SeqEqual
  <2>. QED BY <2>5 DEF q
<1>12. n - k = m /\ m + 1 = n - k + 1
  BY <1>1 DEF m
<1>13. forests' = F
  BY <1>7 DEF F
<1>. QED BY <1>1, <1>4, <1>9, <1>10, <1>11, <1>12, <1>13 DEF n

LEMMA SameOperators ==
    /\ \A q : Trees!FlattenSeq(q) = FlattenSeq(q)
    /\ \A q : Trees!Front(q) = SubSeq(q, 1, Len(q) - 1) /\ Trees!Last(q) = q[Len(q)]
BY DEF FlattenSeq, Trees!FlattenSeq, Trees!Front, Trees!Last

LEMMA ReducedNode ==
    ASSUME NEW t, NEW rank, NEW off, Parsed(t, rank, off), NEW k \in Nat, k <= Len(values),
           NEW x, Trees!Reduce(k, <<x>>)
    PROVE  Trees!Node(k, x.kids)
<1>1. Len(<<x>>) = 1 /\ <<x>>[1] = x
  OBVIOUS
<1>2. /\ Trees!size = Len(values) /\ Trees!size \in Nat /\ Trees!size >= k
      /\ Len(forests') = Trees!size - k + 1
      /\ SubSeq(forests', 1, Trees!size - k) = Trees!Rest(k)
      /\ Trees!Last(forests') = <<x>>
  BY Reduced
<1>. QED BY <1>1, <1>2 DEF Trees!Node

LEMMA TerminalStep ==
    ASSUME NEW t, NEW rank, NEW off, Parsed(t, rank, off), Terminal, forests' = Forests(nodes', values')
    PROVE  AstInv' /\ Trees!Terminal
<1>. DEFINE h == Allocated(1)  p == newNode  t1 == MoreTrees(t, h)  r1 == MoreRanks(rank, h)
            L == Len(values)
<1>1. /\ L \in Nat /\ 0 \in Nat /\ 0 <= L /\ L - 0 = L /\ Len(nodes) \in Nat
      /\ 1 \in 1 .. 1 /\ 1 \in Nat /\ p = Len(nodes) + 1
  BY LenProperties DEF Parsed, Rooted, Linked, newNode
<1>2. /\ Continues(t, rank, h, t1, r1) /\ Len(h) = Len(nodes) + 1
      /\ \A n \in 1 .. Len(nodes) :
            n \in 1 .. Len(h) /\ h[n] = nodes[n] /\ nodes[n].left \in 1 .. Len(nodes)
  BY <1>1, NewNodes
<1>3. /\ p \in 1 .. Len(h) /\ Alone(h, p) /\ h[p].child = Null /\ h[p].parent = Null
      /\ t1[p] = LeafTree(p) /\ r1[p] = 1
  <2>1. \A x \in 1 .. Len(h) : x \notin 1 .. Len(nodes) =>
           /\ Alone(h, x) /\ h[x].child = Null /\ h[x].parent = Null
           /\ t1[x] = LeafTree(x) /\ r1[x] = 1
    BY NewNodes
  <2>. HIDE DEF h, p, t1, r1
  <2>2. p \in 1 .. Len(h) /\ p \notin 1 .. Len(nodes)
    BY <1>1, <1>2
  <2>. QED BY <2>1, <2>2
<1>4. \A j \in 1 .. L :
         values[j].node \in 1 .. Len(nodes) /\ nodes[values[j].node].parent = Null
  BY DEF Parsed, Rooted
<1>5. Reduce(0, h, Value(p, FALSE)) /\ FALSE \in BOOLEAN
  BY DEF Terminal
<1>6. off[L] \in Nat
  BY <1>1 DEF Parsed, Budget
<1>. HIDE DEF h, p, t1, r1
<1>7. \A n \in 1 .. Len(nodes) : nodes[n].left # p /\ n # p
  BY <1>1, <1>2
<1>8. Linked(h) /\ Reading(h, t1) /\ Ranked(h, r1)
      /\ \A n \in 1 .. Len(nodes) : t1[n] = t[n] /\ r1[n] = rank[n]
  BY <1>2 DEF Continues, Grown
<1>9. ASSUME NEW j \in 1 .. L PROVE Spared(h, p, values[j].node)
  <2>. DEFINE x == values[j].node
  <2>1. x \in 1 .. Len(nodes) /\ nodes[x].parent = Null
    BY <1>4
  <2>. HIDE DEF x
  <2>2. \A n \in 1 .. Len(nodes) : nodes[n].left = nodes[x].left => nodes[n].parent = Null
    <3>1. \A n \in 1 .. Len(nodes) : nodes[n].left = nodes[x].left => nodes[n].parent = nodes[x].parent
      BY <2>1, WholeShape DEF Parsed
    <3>. QED BY <2>1, <3>1
  <2>3. h[p].left # nodes[x].left
    BY <1>3, <1>7, <2>1 DEF Alone
  <2>4. Spared(h, p, x)
    BY <1>2, <2>2, <2>3 DEF Spared
  <2>. QED BY <2>4 DEF x
<1>10. Whole(h, p) = <<p>>
  BY <1>3, <1>8, AloneWhole
<1>11. \A n \in 1 .. Len(h) : h[n].left = h[p].left => r1[n] + off[L] <= off[L] + 1
  <2>1. ASSUME NEW n \in 1 .. Len(h), h[n].left = h[p].left PROVE r1[n] + off[L] <= off[L] + 1
    <3>1. \E i \in 1 .. Len(Whole(h, p)) : Whole(h, p)[i] = n
      <4>1. \A m \in 1 .. Len(h) : h[m].left = h[p].left <=>
                \E i \in 1 .. Len(Whole(h, p)) : Whole(h, p)[i] = m
        BY <1>3, <1>8, WholeShape
      <4>. QED BY <2>1, <4>1
    <3>2. Len(<<p>>) = 1 /\ <<p>>[1] = p /\ 1 .. 1 = {1}
      OBVIOUS
    <3>3. n = p
      BY <1>10, <3>1, <3>2
    <3>. QED BY <1>3, <1>6, <3>3
  <2>. QED BY <2>1
<1>12. Reducible(t, rank, off, 0, h, p, t1, r1, 1)
  <2>1. Len(nodes) <= Len(h) /\ Len(nodes) + 1 <= Len(h)
    BY <1>1, <1>2
  <2>2. \A j \in 1 .. L - 0 : Spared(h, p, values[j].node)
    BY <1>1, <1>9
  <2>3. \A n \in 1 .. Len(h) : h[n].left = h[p].left => r1[n] + off[L - 0] <= off[L] + 1
    BY <1>1, <1>11
  <2>. HIDE DEF L
  <2>. QED BY <1>1, <1>3, <1>8, <2>1, <2>2, <2>3 DEF Reducible, L
<1>13. AstInv' /\ Trees!Reduce(0, ForestOf(t1, Whole(h, p)))
  BY <1>3, <1>5, <1>12, ReduceStep
<1>14. ForestOf(t1, Whole(h, p)) = <<LeafTree(p)>>
  <2>1. ForestOf(t1, <<p>>) = <<t1[p]>>
    BY DEF ForestOf
  <2>. QED BY <1>3, <1>10, <2>1
<1>15. Trees!Node(0, LeafTree(p).kids)
  BY <1>1, <1>13, <1>14, ReducedNode
<1>16. LeafTree(p).kids = <<>>
  BY DEF LeafTree
<1>. QED BY <1>13, <1>15, <1>16 DEF Trees!Terminal

\* Joining two lists without a parent changes no tree.
LEMMA ContinuedReads ==
    ASSUME NEW h, Linked(h), NEW g, NEW a \in 1 .. Len(h), NEW b \in 1 .. Len(h),
           h[a].left # h[b].left, h[a].parent = Null, h[b].parent = Null, Continued(h, g, a, b),
           NEW u, Reading(h, u), NEW r, Ranked(h, r)
    PROVE  /\ Linked(g) /\ Len(g) = Len(h) /\ Reading(g, u) /\ Ranked(g, r)
           /\ \A n \in 1 .. Len(h) :
                 /\ g[n].parent = h[n].parent
                 /\ g[n].left = IF h[n].left = h[b].left THEN h[a].left ELSE h[n].left
                 /\ h[n].left # h[a].left => g[n].right = h[n].right
<1>1. Linked(g) /\ Len(g) = Len(h) /\ h \in Seq(NodeRec) /\ g \in Seq(NodeRec) /\ Len(h) \in Nat
  BY ContinuedLinked, LenProperties DEF Continued, Linked
<1>2. \A n \in 1 .. Len(h) :
         /\ g[n].child = h[n].child
         /\ g[n].left = IF h[n].left = h[b].left THEN h[a].left ELSE h[n].left
         /\ g[n].parent = IF h[n].left = h[b].left THEN h[a].parent ELSE h[n].parent
         /\ g[n].right = IF n = Last(Whole(h, a)) THEN h[b].left ELSE h[n].right
  BY DEF Continued
<1>3. \A n \in 1 .. Len(h) : h[n].left = h[b].left => h[n].parent = Null
  <2>1. \A n \in 1 .. Len(h) : h[n].left = h[b].left => h[n].parent = h[b].parent
    BY WholeShape
  <2>. QED BY <2>1
<1>4. h[Last(Whole(h, a))].left = h[a].left
  <2>. DEFINE l == Whole(h, a)
  <2>1. Siblings(h, l) /\ l[1] = h[a].left /\ Len(l) \in 1 .. Len(l)
    BY WholeShape
  <2>. HIDE DEF l
  <2>2. h[Last(l)].left = h[a].left
    BY <2>1 DEF Siblings, Last
  <2>. QED BY <2>2 DEF l
<1>5. ASSUME NEW n \in 1 .. Len(h)
      PROVE  /\ g[n].parent = h[n].parent
             /\ g[n].left = IF h[n].left = h[b].left THEN h[a].left ELSE h[n].left
             /\ h[n].left # h[a].left => g[n].right = h[n].right
  BY <1>2, <1>3, <1>4
<1>6. Ranked(g, r)
  BY <1>1, <1>5 DEF Ranked
<1>7. ASSUME NEW n \in 1 .. Len(h) PROVE Kids(g, n) = Kids(h, n)
  <2>. DEFINE c == h[n].child
  <2>1. g[n].child = c
    BY <1>2
  <2>2. CASE c = Null
    BY <2>1, <2>2 DEF Kids
  <2>3. CASE c # Null
    <3>1. c \in 1 .. Len(h) /\ h[c].parent = n /\ n # Null
      BY <1>1, <2>3 DEF Linked, ChildAgrees, Null
    <3>. HIDE DEF c
    <3>2. h[c].left # h[a].left /\ h[c].left # h[b].left
      BY <3>1, ListsDiffer
    <3>. DEFINE l == Whole(h, c)
    <3>3. /\ Siblings(h, l) /\ l[1] = h[c].left /\ \E i \in 1 .. Len(l) : l[i] = c
          /\ \A x \in 1 .. Len(h) : h[x].left = h[c].left => h[x].parent = h[c].parent
      BY <3>1, WholeShape
    <3>. HIDE DEF l
    <3>4. AlikeIn(h, g, l[1], n)
      BY <1>1, <1>5, <3>1, <3>2, <3>3 DEF AlikeIn
    <3>5. Siblings(g, l)
      BY <3>3, <3>4, ListKept
    <3>6. Whole(g, c) = l
      BY <1>1, <3>3, <3>5, WholeIs
    <3>. QED BY <2>1, <2>3, <3>6 DEF Kids, c, l
  <2>. QED BY <2>2, <2>3
<1>8. Reading(g, u)
  BY <1>1, <1>7 DEF Reading
<1>. QED BY <1>1, <1>5, <1>6, <1>8

LEMMA FlattenFew ==
    ASSUME NEW q
    PROVE  /\ Len(q) = 2 => FlattenSeq(q) = q[1] \o q[2]
           /\ Len(q) = 3 => FlattenSeq(q) = (q[1] \o q[2]) \o q[3]
<1>1. ASSUME Len(q) \in {2, 3}
      PROVE  /\ Len(q) = 2 => FlattenSeq(q) = q[1] \o q[2]
             /\ Len(q) = 3 => FlattenSeq(q) = (q[1] \o q[2]) \o q[3]
  <2>. DEFINE m == Len(q)
  <2>1. m \in Nat /\ m >= 1 /\ 1 \in 1 .. m /\ 2 \in 1 .. m /\ (m = 3 => 3 \in 1 .. m)
        /\ 2 - 1 = 1 /\ 3 - 1 = 2
    BY <1>1
  <2>2. PICK f : /\ FlattenSeq(q) = f[m]
                 /\ \A i \in 1 .. m : f[i] = IF i = 1 THEN q[i] ELSE f[i - 1] \o q[i]
    BY <2>1, FlattenShape
  <2>. HIDE DEF m
  <2>3. f[1] = q[1] /\ f[2] = f[1] \o q[2] /\ (m = 3 => f[3] = f[2] \o q[3])
    <3>1. f[1] = q[1]
      BY <2>1, <2>2
    <3>2. ASSUME NEW i \in 1 .. m, NEW j, i # 1, i - 1 = j PROVE f[i] = f[j] \o q[i]
      BY <2>2, <3>2
    <3>3. 2 # 1 /\ 3 # 1
      OBVIOUS
    <3>4. f[2] = f[1] \o q[2]
      BY <2>1, <3>2, <3>3
    <3>5. m = 3 => f[3] = f[2] \o q[3]
      BY <2>1, <3>2, <3>3
    <3>. QED BY <3>1, <3>4, <3>5
  <2>. QED BY <1>1, <2>2, <2>3 DEF m
<1>. QED BY <1>1

LEMMA ListOfStep ==
    ASSUME NEW t, NEW rank, NEW off, Parsed(t, rank, off), ListOf, forests' = Forests(nodes', values')
    PROVE  AstInv' /\ Trees!ListOf
<1>. DEFINE a == Args(2)[1]  b == Args(2)[2]  g == MakeSibling(nodes, a, b)
            v == Whole(nodes, a)  w == Whole(nodes, b)  l == v \o w  r == Last(w)
            L == Len(values)
<1>1. 2 \in Nat /\ 2 <= L /\ 1 \in 1 .. 2 /\ 2 \in 1 .. 2 /\ Len(nodes) \in Nat /\ L \in Nat
      /\ 1 .. 2 = {1, 2}
  BY LenProperties DEF ListOf, Parsed, Rooted, Linked
<1>2. /\ a \in 1 .. Len(nodes) /\ nodes[a].parent = Null
      /\ b \in 1 .. Len(nodes) /\ nodes[b].parent = Null
      /\ nodes[a].left # nodes[b].left
      /\ \A j \in 1 .. L - 2 : /\ nodes[values[j].node].left # nodes[a].left
                               /\ nodes[values[j].node].left # nodes[b].left
  <2>1. /\ \A i \in 1 .. 2 : Args(2)[i] \in 1 .. Len(nodes) /\ nodes[Args(2)[i]].parent = Null
        /\ \A i, j \in 1 .. 2 : nodes[Args(2)[i]].left = nodes[Args(2)[j]].left => i = j
        /\ \A j \in 1 .. L - 2, i \in 1 .. 2 : nodes[values[j].node].left # nodes[Args(2)[i]].left
    BY <1>1, ArgsShape
  <2>2. nodes[a].left # nodes[b].left
    BY <1>1, <2>1
  <2>. QED BY <1>1, <2>1, <2>2
<1>3. Reduce(2, g, Value(r, TRUE))
  BY DEF ListOf
<1>4. /\ Trees!Top(2) = [i \in 1 .. 2 |-> ForestOf(t, Whole(nodes, Args(2)[i]))]
      /\ Len(Trees!Top(2)) = 2 /\ Trees!size = L
  BY <1>1, ArgsForests
<1>5. Trees!Top(2)[1] = ForestOf(t, v) /\ Trees!Top(2)[2] = ForestOf(t, w)
  BY <1>1, <1>4
<1>6. ASSUME NEW x \in 1 .. Len(nodes), nodes[x].left = nodes[a].left \/ nodes[x].left = nodes[b].left
      PROVE  rank[x] + off[L - 2] <= off[L]
  <2>1. PICK i \in 1 .. 2 : nodes[x].left = nodes[Args(2)[i]].left
    BY <1>1, <1>6
  <2>. QED BY <1>1, <2>1, ArgsFit
<1>. HIDE DEF a, b
<1>7. /\ Siblings(nodes, v) /\ v \in Seq(Nat)
      /\ Siblings(nodes, w) /\ Len(w) \in 1 .. Len(w) /\ w[1] = nodes[b].left /\ w \in Seq(Nat)
  <2>1. Siblings(nodes, v)
    BY <1>2, WholeShape DEF Parsed
  <2>2. Siblings(nodes, w) /\ Len(w) \in 1 .. Len(w) /\ w[1] = nodes[b].left
    BY <1>2, WholeShape DEF Parsed
  <2>. QED BY <2>1, <2>2 DEF Siblings
<1>8. r = w[Len(w)]
  BY DEF Last
<1>9. r \in 1 .. Len(nodes) /\ nodes[r].left = nodes[b].left
  BY <1>7, <1>8 DEF Siblings
<1>10. Continued(nodes, g, a, b)
  BY <1>2, MakeSiblingContinues DEF Parsed
<1>. HIDE DEF g
<1>11. Siblings(g, l)
  BY <1>2, <1>10, JoinedList DEF Parsed
<1>12. \E i \in 1 .. Len(l) : l[i] = r
  <2>. HIDE DEF v, w, r
  <2>. DEFINE m == Len(v)  n == Len(w)
  <2>1. m \in Nat /\ n \in Nat /\ n >= 1
    BY <1>7, LenProperties
  <2>2. /\ Len(l) = m + n
        /\ \A i \in 1 .. m + n : l[i] = IF i <= m THEN v[i] ELSE w[i - m]
    BY <1>7, ConcatProperties
  <2>. HIDE DEF l, m
  <2>3. r = w[n]
    BY <1>8
  <2>. HIDE DEF n
  <2>4. m + n \in 1 .. m + n /\ ~(m + n <= m) /\ (m + n) - m = n
    BY <2>1
  <2>. QED BY <2>2, <2>3, <2>4
<1>. HIDE DEF v, w, r, l
<1>13. /\ Linked(g) /\ Len(g) = Len(nodes) /\ Reading(g, t) /\ Ranked(g, rank)
       /\ \A n \in 1 .. Len(nodes) :
             /\ g[n].parent = nodes[n].parent
             /\ g[n].left = IF nodes[n].left = nodes[b].left THEN nodes[a].left ELSE nodes[n].left
             /\ nodes[n].left # nodes[a].left => g[n].right = nodes[n].right
  BY <1>2, <1>10, ContinuedReads DEF Parsed
<1>14. Whole(g, r) = l
  <2>1. g \in Seq(NodeRec)
    BY <1>13 DEF Linked
  <2>2. PICK i \in 1 .. Len(l) : l[i] = r
    BY <1>12
  <2>. QED BY <1>11, <2>1, <2>2, WholeIs
<1>15. g[r].left = nodes[a].left /\ g[r].parent = Null
  <2>1. nodes[r].parent = Null
    <3>1. \A n \in 1 .. Len(nodes) : nodes[n].left = nodes[b].left => nodes[n].parent = nodes[b].parent
      BY <1>2, WholeShape DEF Parsed
    <3>. QED BY <1>2, <1>9, <3>1
  <2>. QED BY <1>9, <1>13, <2>1
<1>16. ASSUME NEW j \in 1 .. L - 2 PROVE Spared(g, r, values[j].node)
  <2>. DEFINE x == values[j].node
  <2>1. j \in 1 .. L
    BY <1>1
  <2>2. x \in 1 .. Len(nodes) /\ nodes[x].parent = Null
    BY <2>1 DEF Parsed, Rooted
  <2>3. nodes[x].left # nodes[a].left /\ nodes[x].left # nodes[b].left
    BY <1>2
  <2>. HIDE DEF x
  <2>4. \A n \in 1 .. Len(nodes) : nodes[n].left = nodes[x].left => nodes[n].parent = nodes[x].parent
    BY <2>2, WholeShape DEF Parsed
  <2>5. Spared(g, r, x)
    BY <1>13, <1>15, <2>2, <2>3, <2>4 DEF Spared
  <2>. QED BY <2>5 DEF x
<1>17. off[L] \in Nat
  BY <1>1 DEF Parsed, Budget
<1>18. Reducible(t, rank, off, 2, g, r, t, rank, 0)
  <2>1. \A n \in 1 .. Len(g) : g[n].left = g[r].left => rank[n] + off[L - 2] <= off[L] + 0
    <3>1. off[L] + 0 = off[L]
      BY <1>17
    <3>2. ASSUME NEW n \in 1 .. Len(g), g[n].left = g[r].left
          PROVE  nodes[n].left = nodes[a].left \/ nodes[n].left = nodes[b].left
      BY <1>13, <1>15, <3>2
    <3>. QED BY <1>6, <1>13, <3>1, <3>2
  <2>2. Len(nodes) + 0 <= Len(g) /\ Len(nodes) <= Len(g) /\ 0 \in Nat /\ r \in 1 .. Len(g)
    BY <1>1, <1>9, <1>13
  <2>. QED BY <1>1, <1>13, <1>15, <1>16, <2>1, <2>2 DEF Reducible, L
<1>19. AstInv' /\ Trees!Reduce(2, ForestOf(t, Whole(g, r)))
  <2>1. TRUE \in BOOLEAN /\ (~TRUE => Alone(g, r))
    OBVIOUS
  <2>. QED BY <1>3, <1>18, <2>1, ReduceStep
<1>20. ForestOf(t, Whole(g, r)) = Trees!FlattenSeq(Trees!Top(2))
  <2>1. ForestOf(t, l) = ForestOf(t, v) \o ForestOf(t, w)
    BY <1>7, ForestConcat DEF l
  <2>2. FlattenSeq(Trees!Top(2)) = Trees!Top(2)[1] \o Trees!Top(2)[2]
    BY <1>4, FlattenFew
  <2>. QED BY <1>5, <1>14, <2>1, <2>2, SameOperators
<1>. QED BY <1>19, <1>20 DEF Trees!ListOf

LEMMA OldMembers ==
    ASSUME Linked(nodes), NEW h, Grown(h), NEW x \in 1 .. Len(nodes),
           NEW n \in 1 .. Len(h), h[n].left = nodes[x].left
    PROVE  n \in 1 .. Len(nodes) /\ nodes[n].left = nodes[x].left
<1>. DEFINE l == Whole(nodes, x)
<1>1. Siblings(nodes, l) /\ l[1] = nodes[x].left
  BY WholeShape
<1>2. Whole(h, x) = l /\ x \in 1 .. Len(h) /\ h[x] = nodes[x] /\ Linked(h)
  BY OldLists DEF Grown
<1>. HIDE DEF l
<1>3. \A m \in 1 .. Len(h) : h[m].left = h[x].left <=>
         \E i \in 1 .. Len(Whole(h, x)) : Whole(h, x)[i] = m
  BY <1>2, WholeShape
<1>4. PICK i \in 1 .. Len(l) : l[i] = n
  BY <1>2, <1>3
<1>. QED BY <1>1, <1>4 DEF Siblings

\* The first new node.
LEMMA NewNode ==
    ASSUME NEW t, NEW rank, NEW off, Parsed(t, rank, off), NEW m \in Nat, m >= 1
    PROVE  LET h == Allocated(m) IN
           /\ newNode = Len(nodes) + 1 /\ newNode \in 1 .. Len(h) /\ Alone(h, newNode)
           /\ h[newNode].child = Null /\ h[newNode].parent = Null
           /\ MoreTrees(t, h)[newNode] = LeafTree(newNode) /\ MoreRanks(rank, h)[newNode] = 1
           /\ h[newNode].left = newNode
           /\ \A n \in 1 .. Len(nodes) : nodes[n].left # newNode
<1>. DEFINE h == Allocated(m)  t1 == MoreTrees(t, h)  r1 == MoreRanks(rank, h)  p == newNode
<1>1. Len(nodes) \in Nat /\ p = Len(nodes) + 1
  BY LenProperties DEF Parsed, Linked, newNode
<1>2. \A x \in 1 .. Len(h) : x \notin 1 .. Len(nodes) =>
         /\ Alone(h, x) /\ h[x].child = Null /\ h[x].parent = Null
         /\ t1[x] = LeafTree(x) /\ r1[x] = 1
  BY NewNodes
<1>6. Len(h) = Len(nodes) + m /\ \A n \in 1 .. Len(nodes) : nodes[n].left \in 1 .. Len(nodes)
  BY NewNodes
<1>. HIDE DEF h, t1, r1, p
<1>3. /\ p \in 1 .. Len(h) /\ Alone(h, p) /\ h[p].child = Null /\ h[p].parent = Null
      /\ t1[p] = LeafTree(p) /\ r1[p] = 1
  <2>1. p \in 1 .. Len(h) /\ p \notin 1 .. Len(nodes)
    BY <1>1, <1>6
  <2>. QED BY <1>2, <2>1
<1>4. h[p].left = p
  BY <1>3 DEF Alone
<1>5. \A n \in 1 .. Len(nodes) : nodes[n].left # p
  BY <1>1, <1>6
<1>. QED BY <1>1, <1>3, <1>4, <1>5 DEF h, t1, r1, p

LEMMA FamilyStep ==
    ASSUME NEW t, NEW rank, NEW off, Parsed(t, rank, off), NEW k \in Nat, k >= 1, Family(k),
           forests' = Forests(nodes', values')
    PROVE  AstInv' /\ Trees!Family(k)
<1>. DEFINE h == Allocated(1)  p == newNode  t1 == MoreTrees(t, h)  r1 == MoreRanks(rank, h)
            cs == Args(k)  g == MakeFamily(h, p, cs)  L == Len(values)
            C == Begins(h, cs, k)  w == Wholes(h, cs)  s == FlattenSeq(w)
            top == [i \in 1 .. k |-> ForestOf(t, Whole(nodes, cs[i]))]
<1>1. L \in Nat /\ k <= L /\ Len(nodes) \in Nat /\ k \in 1 .. k
  BY LenProperties DEF Family, Parsed, Rooted, Linked
<1>2. /\ Len(cs) = k
      /\ \A i \in 1 .. k : cs[i] \in 1 .. Len(nodes) /\ nodes[cs[i]].parent = Null
      /\ \A i, j \in 1 .. k : nodes[cs[i]].left = nodes[cs[j]].left => i = j
      /\ \A j \in 1 .. L - k, i \in 1 .. k : nodes[values[j].node].left # nodes[cs[i]].left
  BY <1>1, ArgsShape
<1>3. /\ Continues(t, rank, h, t1, r1) /\ Len(h) = Len(nodes) + 1
      /\ \A n \in 1 .. Len(nodes) :
            n \in 1 .. Len(h) /\ h[n] = nodes[n] /\ nodes[n].left \in 1 .. Len(nodes)
  BY NewNodes
<1>4. /\ p \in 1 .. Len(h) /\ Alone(h, p) /\ h[p].child = Null /\ h[p].parent = Null
      /\ r1[p] = 1 /\ h[p].left = p /\ \A n \in 1 .. Len(nodes) : nodes[n].left # p
  BY NewNode
<1>5. Reduce(k, g, Value(p, FALSE))
  BY DEF Family
<1>6. ASSUME NEW i \in 1 .. k, NEW x \in 1 .. Len(nodes), nodes[x].left = nodes[cs[i]].left
      PROVE  rank[x] + off[L - k] <= off[L]
  BY <1>1, <1>6, ArgsFit
<1>7. Trees!Top(k) = top /\ Trees!size = L
  BY <1>1, ArgsForests
<1>8. off[L - k] \in Nat /\ off[L] \in Nat /\ off[L - k] <= off[L]
  <2>1. cs[k] \in 1 .. Len(nodes) /\ nodes[cs[k]].left = nodes[cs[k]].left
    BY <1>1, <1>2
  <2>. QED BY <1>1, <2>1, ArgsFit
<1>. HIDE DEF h, p, cs, t1, r1
<1>9. Grown(h) /\ Linked(h) /\ Linked(nodes) /\ \A n \in 1 .. Len(nodes) : r1[n] = rank[n]
  BY <1>3 DEF Continues, Grown, Parsed
<1>10. Members(h, p, cs)
  BY <1>2, <1>3, <1>4 DEF Members
<1>11. Attached(h, g, C, p, s)
  <2>1. Attached(h, g, Begins(h, cs, Len(cs)), p, s)
    BY <1>4, <1>9, <1>10, FamilyAttaches
  <2>. QED BY <1>2, <2>1
<1>12. ASSUME NEW j \in 1 .. L - k
       PROVE  nodes[values[j].node].left \notin C /\ nodes[values[j].node].left # h[p].left
  <2>1. j \in 1 .. L
    BY <1>1
  <2>2. values[j].node \in 1 .. Len(nodes)
    BY <2>1 DEF Parsed, Rooted
  <2>. DEFINE x == values[j].node
  <2>3. /\ h[p].left = p /\ nodes[x].left # p
        /\ \A i \in 1 .. k : nodes[x].left # nodes[cs[i]].left /\ h[cs[i]] = nodes[cs[i]]
    BY <1>2, <1>3, <1>4, <2>2
  <2>. QED BY <2>3 DEF Begins
<1>13. h[p].left \notin C
  BY <1>2, <1>3, <1>4 DEF Begins
<1>14. ASSUME NEW n \in 1 .. Len(h), h[n].left \in C
       PROVE  (r1[n] + off[L - k]) + 1 <= off[L] + 1
  <2>1. PICK i \in 1 .. k : h[n].left = h[cs[i]].left
    BY <1>14 DEF Begins
  <2>2. h[n].left = nodes[cs[i]].left /\ cs[i] \in 1 .. Len(nodes)
    BY <1>2, <1>3, <2>1
  <2>3. n \in 1 .. Len(nodes) /\ nodes[n].left = nodes[cs[i]].left
    BY <1>9, <2>2, OldMembers
  <2>4. rank[n] + off[L - k] <= off[L] /\ r1[n] = rank[n] /\ rank[n] \in Nat
    BY <1>6, <1>9, <2>3 DEF Parsed, Ranked
  <2>. QED BY <1>8, <2>4
<1>15. Collects(t, rank, off, k, h, t1, r1, p, g, C, s, 1)
  <2>1. r1[p] + off[L - k] <= off[L] + 1
    BY <1>4, <1>8
  <2>2. Len(nodes) + 1 <= Len(h) /\ 1 \in Nat
    BY <1>1, <1>3
  <2>. HIDE DEF g, C, s
  <2>. QED BY <1>1, <1>3, <1>4, <1>11, <1>12, <1>13, <1>14, <2>1, <2>2 DEF Collects
<1>16. AstInv' /\ Trees!Reduce(k, <<[label |-> p, kids |-> ForestOf(t1, s)]>>)
  <2>. HIDE DEF g, C, s
  <2>. QED BY <1>5, <1>15, AttachedStep
<1>17. ForestOf(t1, s) = FlattenSeq(top)
  <2>1. w \in [1 .. k -> Seq(Nat)] /\ \A i \in 1 .. k : w[i] = Whole(h, cs[i])
    <3>1. \A i \in 1 .. k : cs[i] \in 1 .. Len(h)
      BY <1>2, <1>3
    <3>2. \A i \in 1 .. k : Whole(h, cs[i]) \in Seq(Nat)
      BY <1>9, <3>1, WholeShape DEF Siblings
    <3>. QED BY <1>2, <3>2 DEF Wholes
  <2>. HIDE DEF w
  <2>2. ForestOf(t1, FlattenSeq(w)) = FlattenSeq([i \in 1 .. k |-> ForestOf(t1, w[i])])
    BY <2>1, FlattenForests
  <2>3. \A i \in 1 .. k : ForestOf(t1, w[i]) = ForestOf(t, Whole(nodes, cs[i]))
    BY <1>2, <1>3, <1>9, <2>1, OldForests
  <2>4. [i \in 1 .. k |-> ForestOf(t1, w[i])] = top
    BY <2>3
  <2>. HIDE DEF top
  <2>. QED BY <2>2, <2>4
<1>. DEFINE tree == [label |-> p, kids |-> ForestOf(t1, s)]
<1>18. tree.kids = ForestOf(t1, s)
  OBVIOUS
<1>. HIDE DEF tree, top, s
<1>19. Trees!Node(k, tree.kids)
  BY <1>1, <1>16, ReducedNode DEF tree
<1>20. tree.kids = Trees!FlattenSeq(Trees!Top(k))
  BY <1>7, <1>17, <1>18, SameOperators
<1>. QED BY <1>1, <1>7, <1>16, <1>19, <1>20 DEF Trees!Family

LEMMA WrapStep ==
    ASSUME NEW t, NEW rank, NEW off, Parsed(t, rank, off), Wrap, forests' = Forests(nodes', values')
    PROVE  AstInv' /\ Trees!Family(1)
<1>. DEFINE h == Allocated(1)  cs == Args(1)
<1>1. 1 \in Nat /\ 1 <= Len(values) /\ 1 \in 1 .. 1 /\ 1 >= 1
  <2>1. values # <<>> /\ values \in Seq(ValueRec)
    BY DEF Wrap, Parsed, Rooted
  <2>. QED BY <2>1
<1>2. Len(cs) = 1
  BY <1>1, ArgsShape
<1>. DEFINE u == CHOOSE v : Grows(h, newNode, cs, 1, v)
<1>3. Grows(h, newNode, cs, 1, u)
  <2>1. \E v : Grows(h, newNode, cs, 1, v)
    BY <1>1, GrowsExist
  <2>. QED BY <2>1
<1>4. MakeFamily(h, newNode, cs) = u[1]
  BY <1>2 DEF MakeFamily, Grows
<1>. HIDE DEF u
<1>5. u[1] = MakeChild(h, newNode, cs[1])
  BY <1>1, <1>3 DEF Grows
<1>6. Family(1)
  BY <1>1, <1>4, <1>5 DEF Wrap, Family
<1>. QED BY <1>1, <1>6, FamilyStep

LEMMA OperatorStep ==
    ASSUME NEW t, NEW rank, NEW off, Parsed(t, rank, off), Operator,
           forests' = Forests(nodes', values')
    PROVE  AstInv' /\ Trees!Operator
<1>. DEFINE a == Args(3)  p == a[2]  x == a[1]  y == a[3]  cs == <<x, y>>
            g == MakeFamily(nodes, p, cs)  C == Begins(nodes, cs, 2)
            L == Len(values)  w == Wholes(nodes, cs)  s == FlattenSeq(w)
<1>1. /\ 3 \in Nat /\ 3 <= Len(values) /\ 1 \in 1 .. 3 /\ 2 \in 1 .. 3 /\ 3 \in 1 .. 3
      /\ 1 .. 3 = {1, 2, 3} /\ L \in Nat /\ Len(nodes) \in Nat /\ 3 >= 2
  BY LenProperties DEF Operator, Parsed, Rooted, Linked
<1>2. /\ \A i \in 1 .. 3 : a[i] \in 1 .. Len(nodes) /\ nodes[a[i]].parent = Null
      /\ \A i, j \in 1 .. 3 : nodes[a[i]].left = nodes[a[j]].left => i = j
      /\ \A j \in 1 .. L - 3, i \in 1 .. 3 :
            nodes[values[j].node].left # nodes[a[i]].left
      /\ \A i \in 1 .. 3 : ~values[(L - 3) + i].list => Alone(nodes, a[i])
  BY <1>1, ArgsShape
<1>3. Reduce(3, g, Value(p, FALSE)) /\ nodes[p].child = Null
  BY DEF Operator
<1>4. Continues(t, rank, nodes, t, rank) /\ Linked(nodes)
  BY <1>1 DEF Grown, Parsed, Continues
<1>5. Alone(nodes, p)
  <2>1. ~values[(L - 3) + 2].list
    <3>1. (L - 3) + 2 \in L - 3 + 1 .. L
      BY <1>1
    <3>. QED BY <3>1 DEF Operator, Single
  <2>. QED BY <1>1, <1>2, <2>1
<1>6. ASSUME NEW i \in 1 .. 3, NEW n \in 1 .. Len(nodes), nodes[n].left = nodes[a[i]].left
      PROVE  /\ (rank[n] + off[L - 3]) + 1 <= off[L] /\ rank[n] + off[L - 3] <= off[L]
             /\ off[L - 3] \in Nat /\ off[L] \in Nat
  BY <1>1, <1>6, ArgsFit
<1>7. /\ Trees!Top(3) = [i \in 1 .. 3 |-> ForestOf(t, Whole(nodes, a[i]))]
      /\ Trees!size = L
  BY <1>1, ArgsForests
<1>8. /\ Trees!Top(3)[1] = ForestOf(t, Whole(nodes, x))
      /\ Trees!Top(3)[2] = ForestOf(t, Whole(nodes, p))
      /\ Trees!Top(3)[3] = ForestOf(t, Whole(nodes, y))
  BY <1>1, <1>7
<1>. HIDE DEF a
<1>9. /\ p \in 1 .. Len(nodes) /\ nodes[p].parent = Null
      /\ x \in 1 .. Len(nodes) /\ nodes[x].parent = Null
      /\ y \in 1 .. Len(nodes) /\ nodes[y].parent = Null
  BY <1>1, <1>2
<1>10. Len(cs) = 2 /\ cs[1] = x /\ cs[2] = y /\ 1 .. 2 = {1, 2}
  OBVIOUS
<1>11. /\ nodes[x].left # nodes[y].left /\ nodes[x].left # nodes[p].left
       /\ nodes[y].left # nodes[p].left
  BY <1>1, <1>2
<1>12. \A j \in 1 .. L - 3 : /\ nodes[values[j].node].left # nodes[x].left
                             /\ nodes[values[j].node].left # nodes[y].left
                             /\ nodes[values[j].node].left # nodes[p].left
  BY <1>1, <1>2
<1>13. /\ rank[p] + off[L - 3] <= off[L] /\ off[L - 3] \in Nat /\ off[L] \in Nat
       /\ \A n \in 1 .. Len(nodes) : nodes[n].left \in {nodes[x].left, nodes[y].left} =>
             (rank[n] + off[L - 3]) + 1 <= off[L]
  BY <1>1, <1>6, <1>9
<1>. HIDE DEF p, x, y, cs
<1>14. Members(nodes, p, cs)
  BY <1>9, <1>10, <1>11 DEF Members
<1>15. C = {nodes[x].left, nodes[y].left}
  BY <1>10 DEF Begins
<1>16. Attached(nodes, g, C, p, s)
  <2>1. Attached(nodes, g, Begins(nodes, cs, Len(cs)), p, s)
    BY <1>3, <1>4, <1>9, <1>14, FamilyAttaches
  <2>. QED BY <1>10, <2>1
<1>. HIDE DEF g, C, s
<1>17. Collects(t, rank, off, 3, nodes, t, rank, p, g, C, s, 0)
  <2>1. Len(nodes) + 0 <= Len(nodes) /\ 0 \in Nat /\ off[L] + 0 = off[L]
    BY <1>1, <1>13
  <2>2. nodes[p].left \notin C
    BY <1>11, <1>15
  <2>3. \A j \in 1 .. L - 3 :
           nodes[values[j].node].left \notin C /\ nodes[values[j].node].left # nodes[p].left
    BY <1>12, <1>15
  <2>4. \A n \in 1 .. Len(nodes) : nodes[n].left \in C =>
           (rank[n] + off[L - 3]) + 1 <= off[L] + 0
    BY <1>13, <1>15, <2>1
  <2>. QED BY <1>1, <1>4, <1>5, <1>9, <1>13, <1>16, <2>1, <2>2, <2>3, <2>4 DEF Collects
<1>18. AstInv' /\ Trees!Reduce(3, <<[label |-> p, kids |-> ForestOf(t, s)]>>)
  BY <1>3, <1>17, AttachedStep
<1>19. ForestOf(t, s) = ForestOf(t, Whole(nodes, x)) \o ForestOf(t, Whole(nodes, y))
  <2>1. /\ Whole(nodes, x) \in Seq(Nat) /\ Whole(nodes, y) \in Seq(Nat)
    BY <1>4, <1>9, WholeShape DEF Siblings
  <2>2. Len(w) = 2 /\ w[1] = Whole(nodes, x) /\ w[2] = Whole(nodes, y)
    <3>1. w = [i \in 1 .. 2 |-> Whole(nodes, cs[i])]
      BY <1>10 DEF Wholes
    <3>. DEFINE S == {Whole(nodes, cs[i]) : i \in 1 .. 2}
    <3>2. w \in [1 .. 2 -> S]
      BY <3>1
    <3>. HIDE DEF w, S
    <3>3. Len(w) = 2
      BY <3>2, AsSeq
    <3>. QED BY <1>10, <3>1, <3>3
  <2>. HIDE DEF w
  <2>3. s = Whole(nodes, x) \o Whole(nodes, y)
    BY <2>2, FlattenFew DEF s
  <2>. QED BY <2>1, <2>3, ForestConcat
<1>20. Trees!Top(3)[2][1] = [label |-> p, kids |-> ForestOf(t, Kids(nodes, p))]
  <2>1. Whole(nodes, p) = <<p>>
    BY <1>4, <1>5, <1>9, AloneWhole
  <2>2. ForestOf(t, <<p>>) = <<t[p]>>
    BY DEF ForestOf
  <2>3. t[p] = [label |-> p, kids |-> ForestOf(t, Kids(nodes, p))]
    BY <1>9 DEF Parsed, Reading
  <2>. QED BY <1>8, <2>1, <2>2, <2>3
<1>21. [Trees!Top(3)[2][1] EXCEPT !.kids = Trees!Top(3)[1] \o Trees!Top(3)[3]]
          = [label |-> p, kids |-> ForestOf(t, s)]
  <2>. DEFINE T == Trees!Top(3)[2][1]  K == ForestOf(t, Kids(nodes, p))
              F == Trees!Top(3)[1] \o Trees!Top(3)[3]  G == ForestOf(t, s)
  <2>1. T = [label |-> p, kids |-> K] /\ F = G
    BY <1>8, <1>19, <1>20
  <2>. HIDE DEF T, K, F, G
  <2>2. [T EXCEPT !.kids = F] = [label |-> p, kids |-> G]
    BY <2>1
  <2>. QED BY <2>2 DEF T, F, G
<1>. QED BY <1>1, <1>7, <1>18, <1>21 DEF Trees!Operator

LEMMA ForestEnds ==
    ASSUME NEW u, NEW l \in Seq(Nat), NEW e \in Nat
    PROVE  LET K == ForestOf(u, l \o <<e>>) IN
           K # <<>> /\ Trees!Front(K) = ForestOf(u, l) /\ Trees!Last(K) = u[e]
<1>. DEFINE m == Len(l)  q == l \o <<e>>  K == ForestOf(u, q)  F == ForestOf(u, l)
            S == {K[i] : i \in 1 .. m + 1} \cup {F[i] : i \in 1 .. m}
<1>1. m \in Nat /\ <<e>> \in Seq(Nat) /\ Len(<<e>>) = 1 /\ <<e>>[1] = e
  BY LenProperties
<1>2. Len(q) = m + 1 /\ \A i \in 1 .. m + 1 : q[i] = IF i <= m THEN l[i] ELSE <<e>>[i - m]
  BY <1>1, ConcatProperties
<1>3. K = [i \in 1 .. m + 1 |-> u[q[i]]] /\ F = [i \in 1 .. m |-> u[l[i]]]
  BY <1>2 DEF ForestOf
<1>. HIDE DEF K, F, q, m
<1>4. K \in [1 .. m + 1 -> S] /\ F \in [1 .. m -> S]
  BY <1>3
<1>. HIDE DEF S
<1>5. K \in Seq(S) /\ Len(K) = m + 1 /\ F \in Seq(S) /\ Len(F) = m
  <2>1. m + 1 \in Nat
    BY <1>1
  <2>. QED BY <1>1, <1>4, <2>1, AsSeq
<1>6. K[m + 1] = u[e]
  <2>1. m + 1 \in 1 .. m + 1 /\ ~(m + 1 <= m) /\ (m + 1) - m = 1
    BY <1>1
  <2>. QED BY <1>1, <1>2, <1>3, <2>1
<1>7. K # <<>>
  <2>1. Len(K) # 0
    BY <1>1, <1>5
  <2>. QED BY <2>1
<1>8. ASSUME NEW i \in 1 .. m PROVE K[i] = F[i] /\ K[i] \in S
  <2>1. i \in 1 .. m + 1 /\ i <= m
    BY <1>1
  <2>. QED BY <1>2, <1>3, <1>4, <2>1
<1>9. SubSeq(K, 1, m) = F
  <2>. DEFINE r == SubSeq(K, 1, m)
  <2>1. /\ r \in Seq(S) /\ Len(r) = IF 1 <= m THEN m - 1 + 1 ELSE 0
        /\ \A i \in 1 .. m - 1 + 1 : r[i] = K[1 + i - 1]
    BY <1>1, <1>5, <1>8, SubSeqProperties
  <2>. HIDE DEF r
  <2>2. Len(r) = m /\ m - 1 + 1 = m /\ \A i \in 1 .. m : 1 + i - 1 = i
    BY <1>1, <2>1
  <2>3. \A i \in 1 .. m : r[i] = F[i]
    BY <1>8, <2>1, <2>2
  <2>4. r = F
    BY <1>5, <2>1, <2>2, <2>3, SeqEqual
  <2>. QED BY <2>4 DEF r
<1>10. (m + 1) - 1 = m
  BY <1>1
<1>. QED BY <1>5, <1>6, <1>7, <1>9, <1>10, SameOperators DEF K, F, q

LEMMA AttachedKids ==
    ASSUME NEW h, NEW g, NEW C, NEW p, NEW s, Attached(h, g, C, p, s)
    PROVE  Kids(g, p) = s
<1>1. Siblings(g, s) /\ g \in Seq(NodeRec) /\ g[p].child = s[1]
  BY DEF Attached, Linked
<1>2. 1 \in 1 .. Len(s)
  BY <1>1, LenProperties DEF Siblings
<1>3. s[1] # Null
  BY <1>1, <1>2 DEF Siblings, Null
<1>4. Whole(g, s[1]) = s
  BY <1>1, <1>2, WholeIs
<1>. QED BY <1>1, <1>3, <1>4 DEF Kids

LEMMA FunctionDeclStep ==
    ASSUME NEW t, NEW rank, NEW off, Parsed(t, rank, off), FunctionDecl,
           forests' = Forests(nodes', values')
    PROVE  AstInv' /\ Trees!Function
<1>. DEFINE a == Args(3)  p == a[1]  b == a[2]  c == a[3]  L == Len(values)
            f == MakeChild(nodes, p, b)  g == MakeChild(f, p, c)
            C == {nodes[b].left, nodes[c].left}
            k == Kids(nodes, p)  v == Whole(nodes, b)  w == Whole(nodes, c)
            q == k \o v  s == q \o w
<1>1. /\ 3 \in Nat /\ 3 <= L /\ 1 \in 1 .. 3 /\ 2 \in 1 .. 3 /\ 3 \in 1 .. 3
      /\ 1 .. 3 = {1, 2, 3} /\ L \in Nat /\ Len(nodes) \in Nat /\ 3 >= 2
  BY LenProperties DEF FunctionDecl, Parsed, Rooted, Linked
<1>2. /\ \A i \in 1 .. 3 : a[i] \in 1 .. Len(nodes) /\ nodes[a[i]].parent = Null
      /\ \A i, j \in 1 .. 3 : nodes[a[i]].left = nodes[a[j]].left => i = j
      /\ \A j \in 1 .. L - 3, i \in 1 .. 3 :
            nodes[values[j].node].left # nodes[a[i]].left
      /\ \A i \in 1 .. 3 : ~values[(L - 3) + i].list => Alone(nodes, a[i])
  BY <1>1, ArgsShape
<1>3. Reduce(3, g, Value(p, FALSE))
  BY DEF FunctionDecl
<1>4. Continues(t, rank, nodes, t, rank) /\ Linked(nodes)
  BY <1>1 DEF Grown, Parsed, Continues
<1>5. Alone(nodes, p)
  <2>1. ~values[(L - 3) + 1].list
    <3>1. (L - 3) + 1 \in L - 3 + 1 .. L
      BY <1>1
    <3>. QED BY <3>1 DEF FunctionDecl, Single
  <2>. QED BY <1>1, <1>2, <2>1
<1>6. ASSUME NEW i \in 1 .. 3, NEW n \in 1 .. Len(nodes), nodes[n].left = nodes[a[i]].left
      PROVE  /\ (rank[n] + off[L - 3]) + 1 <= off[L] /\ rank[n] + off[L - 3] <= off[L]
             /\ off[L - 3] \in Nat /\ off[L] \in Nat
  BY <1>1, <1>6, ArgsFit
<1>7. /\ Trees!Top(3) = [i \in 1 .. 3 |-> ForestOf(t, Whole(nodes, a[i]))]
      /\ Trees!size = L
  BY <1>1, ArgsForests
<1>8. /\ Trees!Top(3)[1] = ForestOf(t, Whole(nodes, p))
      /\ Trees!Top(3)[2] = ForestOf(t, v) /\ Trees!Top(3)[3] = ForestOf(t, w)
  BY <1>1, <1>7
<1>. HIDE DEF a
<1>9. /\ p \in 1 .. Len(nodes) /\ nodes[p].parent = Null
      /\ b \in 1 .. Len(nodes) /\ nodes[b].parent = Null
      /\ c \in 1 .. Len(nodes) /\ nodes[c].parent = Null
  BY <1>1, <1>2
<1>10. /\ nodes[p].left # nodes[b].left /\ nodes[p].left # nodes[c].left
       /\ nodes[b].left # nodes[c].left
  BY <1>1, <1>2
<1>11. \A j \in 1 .. L - 3 : /\ nodes[values[j].node].left # nodes[p].left
                             /\ nodes[values[j].node].left # nodes[b].left
                             /\ nodes[values[j].node].left # nodes[c].left
  BY <1>1, <1>2
<1>12. /\ rank[p] + off[L - 3] <= off[L] /\ off[L - 3] \in Nat /\ off[L] \in Nat
       /\ \A n \in 1 .. Len(nodes) : nodes[n].left \in {nodes[b].left, nodes[c].left} =>
             (rank[n] + off[L - 3]) + 1 <= off[L]
  BY <1>1, <1>6, <1>9
<1>. HIDE DEF p, b, c
<1>13. Attached(nodes, f, {nodes[b].left}, p, q)
  BY <1>4, <1>9, <1>10, MakeChildAttaches
<1>14. k \in Seq(Nat) /\ v \in Seq(Nat) /\ w \in Seq(Nat) /\ q \in Seq(Nat)
  <2>1. v \in Seq(Nat) /\ w \in Seq(Nat)
    BY <1>4, <1>9, WholeShape DEF Siblings
  <2>2. k \in Seq(Nat)
    <3>1. nodes[p].child # Null => nodes[p].child \in 1 .. Len(nodes)
      BY <1>4, <1>9 DEF Linked, ChildAgrees
    <3>2. nodes[p].child # Null => Whole(nodes, nodes[p].child) \in Seq(Nat)
      BY <1>4, <3>1, WholeShape DEF Siblings
    <3>3. <<>> \in Seq(Nat)
      OBVIOUS
    <3>. QED BY <3>2, <3>3 DEF Kids
  <2>. QED BY <2>1, <2>2, ConcatProperties
<1>. HIDE DEF f, q
<1>15. /\ Linked(f) /\ Len(f) = Len(nodes) /\ Kids(f, p) = q
       /\ f[p].left = nodes[p].left /\ f[c].left = nodes[c].left /\ f[c].parent = Null
  <2>1. Kids(f, p) = q
    BY <1>13, AttachedKids
  <2>. QED BY <1>9, <1>10, <1>13, <2>1 DEF Attached
<1>16. Whole(f, c) = w
  <2>1. nodes[c].left \notin {nodes[b].left} /\ nodes[c].parent # p
    BY <1>9, <1>10 DEF Null
  <2>. QED BY <1>4, <1>9, <1>13, <2>1, ListStays
<1>17. Attached(f, g, {f[c].left}, p, s)
  BY <1>9, <1>10, <1>15, <1>16, MakeChildAttaches
<1>. HIDE DEF g, s
<1>18. ASSUME NEW n \in 1 .. Len(nodes)
       PROVE  /\ n # p => g[n].child = nodes[n].child
              /\ nodes[n].left \in C => g[n].parent = p
              /\ nodes[n].left \notin C => /\ g[n].left = nodes[n].left
                                           /\ g[n].parent = nodes[n].parent
              /\ nodes[n].left \notin C /\ nodes[n].parent # p => g[n].right = nodes[n].right
  <2>1. /\ n # p => f[n].child = nodes[n].child
        /\ nodes[n].left = nodes[b].left => f[n].parent = p
        /\ nodes[n].left # nodes[b].left => /\ f[n].left = nodes[n].left
                                            /\ f[n].parent = nodes[n].parent
        /\ nodes[n].left # nodes[b].left /\ nodes[n].parent # p => f[n].right = nodes[n].right
    BY <1>13 DEF Attached
  <2>2. /\ n # p => g[n].child = f[n].child
        /\ f[n].left = nodes[c].left => g[n].parent = p
        /\ f[n].left # nodes[c].left => g[n].left = f[n].left /\ g[n].parent = f[n].parent
        /\ f[n].left # nodes[c].left /\ f[n].parent # p => g[n].right = f[n].right
    BY <1>15, <1>17 DEF Attached
  <2>. QED BY <2>1, <2>2
<1>19. Attached(nodes, g, C, p, s)
  <2>1. /\ Linked(g) /\ Len(g) = Len(nodes)
        /\ Siblings(g, s) /\ g[p].child = s[1] /\ g[s[1]].parent = p
    BY <1>15, <1>17 DEF Attached
  <2>. HIDE DEF C
  <2>. QED BY <1>18, <2>1 DEF Attached
<1>20. /\ nodes[p].left \notin C
       /\ \A j \in 1 .. L - 3 :
             nodes[values[j].node].left \notin C /\ nodes[values[j].node].left # nodes[p].left
       /\ \A n \in 1 .. Len(nodes) : nodes[n].left \in C =>
             (rank[n] + off[L - 3]) + 1 <= off[L] + 0
  <2>1. off[L] + 0 = off[L]
    BY <1>12
  <2>. QED BY <1>10, <1>11, <1>12, <2>1
<1>. HIDE DEF C
<1>21. Collects(t, rank, off, 3, nodes, t, rank, p, g, C, s, 0)
  <2>1. Len(nodes) + 0 <= Len(nodes) /\ 0 \in Nat /\ off[L] + 0 = off[L]
    BY <1>1, <1>12
  <2>. QED BY <1>1, <1>4, <1>5, <1>9, <1>12, <1>19, <1>20, <2>1 DEF Collects
<1>22. AstInv' /\ Trees!Reduce(3, <<[label |-> p, kids |-> ForestOf(t, s)]>>)
  BY <1>3, <1>21, AttachedStep
<1>23. ForestOf(t, s) = (ForestOf(t, k) \o ForestOf(t, v)) \o ForestOf(t, w)
  <2>1. ForestOf(t, q) = ForestOf(t, k) \o ForestOf(t, v)
    BY <1>14, ForestConcat DEF q
  <2>2. ForestOf(t, s) = ForestOf(t, q) \o ForestOf(t, w)
    BY <1>14, ForestConcat DEF s
  <2>. QED BY <2>1, <2>2
<1>24. Trees!Top(3)[1][1] = [label |-> p, kids |-> ForestOf(t, k)]
  <2>1. Whole(nodes, p) = <<p>>
    BY <1>4, <1>5, <1>9, AloneWhole
  <2>2. ForestOf(t, <<p>>) = <<t[p]>>
    BY DEF ForestOf
  <2>3. t[p] = [label |-> p, kids |-> ForestOf(t, k)]
    BY <1>9 DEF Parsed, Reading
  <2>. QED BY <1>8, <2>1, <2>2, <2>3
<1>25. [Trees!Top(3)[1][1] EXCEPT !.kids = @ \o Trees!Top(3)[2] \o Trees!Top(3)[3]]
          = [label |-> p, kids |-> ForestOf(t, s)]
  <2>. DEFINE T == Trees!Top(3)[1][1]  K == ForestOf(t, k)  G == ForestOf(t, s)
              A == Trees!Top(3)[2]  B == Trees!Top(3)[3]
  <2>1. T = [label |-> p, kids |-> K] /\ (K \o A) \o B = G
    BY <1>8, <1>23, <1>24
  <2>. HIDE DEF T, K, G, A, B
  <2>3. T.kids = K
    BY <2>1
  <2>4. [T EXCEPT !.kids = @ \o A \o B] = [T EXCEPT !.kids = (K \o A) \o B]
    BY <2>3
  <2>5. [T EXCEPT !.kids = G] = [label |-> p, kids |-> G]
    BY <2>1
  <2>2. [T EXCEPT !.kids = @ \o A \o B] = [label |-> p, kids |-> G]
    BY <2>1, <2>4, <2>5
  <2>. QED BY <2>2 DEF T, G, A, B
<1>. QED BY <1>1, <1>7, <1>22, <1>25 DEF Trees!Function

LEMMA IfThenStep ==
    ASSUME NEW t, NEW rank, NEW off, Parsed(t, rank, off), IfThen,
           forests' = Forests(nodes', values')
    PROVE  AstInv' /\ Trees!IfThen
<1>. DEFINE h == Allocated(2)  p == newNode  a == Args(2)  e == newNode + 1
            t1 == MoreTrees(t, h)  r1 == MoreRanks(rank, h)  L == Len(values)
            cs == Append(a, e)  g == MakeFamily(h, p, cs)  C == Begins(h, cs, 3)
            m == Wholes(h, cs)  s == FlattenSeq(m)
            x == a[1]  y == a[2]  v == Whole(h, x)  w == Whole(h, y)
<1>1. /\ 2 \in Nat /\ 2 <= L /\ 2 >= 1 /\ Len(nodes) \in Nat /\ L \in Nat
      /\ 1 \in 1 .. 2 /\ 2 \in 1 .. 2 /\ 1 .. 3 = {1, 2, 3} /\ 2 >= 2
  BY LenProperties DEF IfThen, Parsed, Rooted, Linked
<1>2. /\ a \in Seq(Nat) /\ Len(a) = 2
      /\ \A i \in 1 .. 2 : a[i] \in 1 .. Len(nodes) /\ nodes[a[i]].parent = Null
      /\ \A i, j \in 1 .. 2 : nodes[a[i]].left = nodes[a[j]].left => i = j
      /\ \A j \in 1 .. L - 2, i \in 1 .. 2 : nodes[values[j].node].left # nodes[a[i]].left
  BY <1>1, ArgsShape
<1>3. /\ Continues(t, rank, h, t1, r1) /\ Len(h) = Len(nodes) + 2
      /\ \A n \in 1 .. Len(nodes) :
            n \in 1 .. Len(h) /\ h[n] = nodes[n] /\ nodes[n].left \in 1 .. Len(nodes)
  BY <1>1, NewNodes
<1>4. \A n \in 1 .. Len(h) : n \notin 1 .. Len(nodes) =>
         /\ Alone(h, n) /\ h[n].child = Null /\ h[n].parent = Null
         /\ t1[n] = LeafTree(n) /\ r1[n] = 1
  BY <1>1, NewNodes
<1>5. Reduce(2, g, Value(p, FALSE))
  BY DEF IfThen
<1>6. ASSUME NEW i \in 1 .. 2, NEW n \in 1 .. Len(nodes), nodes[n].left = nodes[a[i]].left
      PROVE  /\ rank[n] + off[L - 2] <= off[L]
             /\ off[L - 2] \in Nat /\ off[L] \in Nat /\ off[L - 2] <= off[L]
  BY <1>1, <1>6, ArgsFit
<1>7. /\ Trees!Top(2) = [i \in 1 .. 2 |-> ForestOf(t, Whole(nodes, a[i]))]
      /\ Len(Trees!Top(2)) = 2 /\ Trees!size = L
  BY <1>1, ArgsForests
<1>8. e = Len(nodes) + 2 /\ p = Len(nodes) + 1 /\ e \in Nat /\ e # p
  BY <1>1 DEF newNode
<1>9. /\ Trees!Top(2)[1] = ForestOf(t, Whole(nodes, x))
      /\ Trees!Top(2)[2] = ForestOf(t, Whole(nodes, y))
  BY <1>1, <1>7
<1>. HIDE DEF h, p, a, e, t1, r1
<1>10. /\ p \in 1 .. Len(h) /\ p \notin 1 .. Len(nodes)
       /\ e \in 1 .. Len(h) /\ e \notin 1 .. Len(nodes)
  BY <1>1, <1>3, <1>8
<1>11. /\ Alone(h, p) /\ h[p].child = Null /\ h[p].parent = Null /\ r1[p] = 1 /\ h[p].left = p
       /\ Alone(h, e) /\ h[e].child = Null /\ h[e].parent = Null /\ r1[e] = 1 /\ h[e].left = e
       /\ t1[e] = LeafTree(e)
  BY <1>4, <1>10 DEF Alone
<1>12. \A n \in 1 .. Len(nodes) : nodes[n].left # p /\ nodes[n].left # e
  BY <1>3, <1>10
<1>13. Len(cs) = 3 /\ cs[1] = x /\ cs[2] = y /\ cs[3] = e
  <2>1. Len(cs) = Len(a) + 1 /\ (\A i \in 1 .. Len(a) : cs[i] = a[i]) /\ cs[Len(a) + 1] = e
    <3>1. a \in Seq(Nat) /\ e \in Nat
      BY <1>2, <1>8
    <3>. QED BY <3>1, AppendProperties
  <2>. HIDE DEF cs
  <2>. QED BY <1>1, <1>2, <2>1
<1>14. /\ x \in 1 .. Len(nodes) /\ nodes[x].parent = Null
       /\ y \in 1 .. Len(nodes) /\ nodes[y].parent = Null /\ nodes[x].left # nodes[y].left
       /\ \A j \in 1 .. L - 2 : /\ nodes[values[j].node].left # nodes[x].left
                                /\ nodes[values[j].node].left # nodes[y].left
  BY <1>1, <1>2
<1>15. /\ off[L - 2] \in Nat /\ off[L] \in Nat /\ off[L - 2] <= off[L]
       /\ \A n \in 1 .. Len(nodes) : nodes[n].left \in {nodes[x].left, nodes[y].left} =>
             rank[n] + off[L - 2] <= off[L]
  BY <1>1, <1>6, <1>14
<1>. HIDE DEF cs, x, y
<1>16. /\ h[x].left = nodes[x].left /\ h[y].left = nodes[y].left
       /\ h[x].parent = Null /\ h[y].parent = Null /\ x \in 1 .. Len(h) /\ y \in 1 .. Len(h)
  BY <1>3, <1>14
<1>17. /\ Grown(h) /\ Linked(h) /\ Linked(nodes)
       /\ \A n \in 1 .. Len(nodes) : r1[n] = rank[n]
  BY <1>3 DEF Continues, Grown, Parsed
<1>18. Members(h, p, cs)
  <2>1. \A i \in 1 .. 3 :
           cs[i] \in 1 .. Len(h) /\ h[cs[i]].parent = Null /\ h[cs[i]].left # h[p].left
    <3>1. cs[3] \in 1 .. Len(h) /\ h[cs[3]].parent = Null /\ h[cs[3]].left # h[p].left
      BY <1>8, <1>10, <1>11, <1>13
    <3>2. cs[1] \in 1 .. Len(h) /\ h[cs[1]].parent = Null /\ h[cs[1]].left # h[p].left
      BY <1>11, <1>12, <1>13, <1>14, <1>16
    <3>3. cs[2] \in 1 .. Len(h) /\ h[cs[2]].parent = Null /\ h[cs[2]].left # h[p].left
      BY <1>11, <1>12, <1>13, <1>14, <1>16
    <3>. QED BY <1>1, <3>1, <3>2, <3>3
  <2>2. \A i, j \in 1 .. 3 : h[cs[i]].left = h[cs[j]].left => i = j
    <3>1. h[cs[1]].left # h[cs[2]].left
      BY <1>13, <1>14, <1>16
    <3>2. h[cs[1]].left # h[cs[3]].left /\ h[cs[2]].left # h[cs[3]].left
      BY <1>11, <1>12, <1>13, <1>14, <1>16
    <3>. QED BY <1>1, <3>1, <3>2
  <2>. QED BY <1>13, <2>1, <2>2 DEF Members
<1>19. C = {nodes[x].left, nodes[y].left, e}
  BY <1>1, <1>11, <1>13, <1>16 DEF Begins
<1>20. Attached(h, g, C, p, s)
  <2>1. Attached(h, g, Begins(h, cs, Len(cs)), p, s)
    BY <1>10, <1>11, <1>17, <1>18, FamilyAttaches
  <2>. QED BY <1>13, <2>1
<1>21. ASSUME NEW j \in 1 .. L - 2
       PROVE  nodes[values[j].node].left \notin C /\ nodes[values[j].node].left # h[p].left
  <2>1. j \in 1 .. L
    BY <1>1
  <2>2. values[j].node \in 1 .. Len(nodes)
    BY <2>1 DEF Parsed, Rooted
  <2>. QED BY <1>11, <1>12, <1>14, <1>19, <2>2
<1>22. h[p].left \notin C
  BY <1>8, <1>11, <1>12, <1>14, <1>19
<1>23. ASSUME NEW n \in 1 .. Len(h), h[n].left \in C
       PROVE  (r1[n] + off[L - 2]) + 1 <= off[L] + 2
  <2>1. CASE n \in 1 .. Len(nodes)
    <3>1. nodes[n].left \in {nodes[x].left, nodes[y].left}
      BY <1>3, <1>12, <1>19, <1>23, <2>1
    <3>2. rank[n] + off[L - 2] <= off[L] /\ r1[n] = rank[n] /\ rank[n] \in Nat
      BY <1>15, <1>17, <2>1, <3>1 DEF Parsed, Ranked
    <3>. QED BY <1>15, <3>2
  <2>2. CASE n \notin 1 .. Len(nodes)
    <3>1. r1[n] = 1
      BY <1>4, <2>2
    <3>. QED BY <1>15, <3>1
  <2>. QED BY <2>1, <2>2
<1>. HIDE DEF g, C, s
<1>24. Collects(t, rank, off, 2, h, t1, r1, p, g, C, s, 2)
  <2>1. r1[p] + off[L - 2] <= off[L] + 2
    BY <1>11, <1>15
  <2>2. Len(nodes) + 2 <= Len(h)
    BY <1>1, <1>3
  <2>. QED BY <1>1, <1>3, <1>10, <1>11, <1>20, <1>21, <1>22, <1>23, <2>1, <2>2 DEF Collects
<1>. DEFINE tree == [label |-> p, kids |-> ForestOf(t1, s)]
<1>25. AstInv' /\ Trees!Reduce(2, <<tree>>)
  BY <1>5, <1>24, AttachedStep
<1>26. s = (v \o w) \o <<e>> /\ v \in Seq(Nat) /\ w \in Seq(Nat) /\ v \o w \in Seq(Nat)
  <2>1. v \in Seq(Nat) /\ w \in Seq(Nat)
    BY <1>16, <1>17, WholeShape DEF Siblings
  <2>2. Whole(h, e) = <<e>>
    BY <1>10, <1>11, <1>17, AloneWhole
  <2>3. Len(m) = 3 /\ m[1] = v /\ m[2] = w /\ m[3] = <<e>>
    <3>1. m = [i \in 1 .. 3 |-> Whole(h, cs[i])]
      BY <1>13 DEF Wholes
    <3>. DEFINE S == {Whole(h, cs[i]) : i \in 1 .. 3}
    <3>2. m \in [1 .. 3 -> S]
      BY <3>1
    <3>. HIDE DEF m, S
    <3>3. Len(m) = 3
      BY <3>2, AsSeq
    <3>4. m[1] = Whole(h, cs[1]) /\ m[2] = Whole(h, cs[2]) /\ m[3] = Whole(h, cs[3])
      BY <1>1, <3>1
    <3>. QED BY <1>13, <2>2, <3>3, <3>4
  <2>. HIDE DEF m, v, w
  <2>4. s = (v \o w) \o <<e>>
    BY <2>3, FlattenFew DEF s
  <2>. QED BY <2>1, <2>4, ConcatProperties
<1>27. /\ ForestOf(t1, v) = Trees!Top(2)[1] /\ ForestOf(t1, w) = Trees!Top(2)[2]
  BY <1>3, <1>9, <1>14, <1>17, OldForests
<1>. HIDE DEF v, w
<1>28. ForestOf(t1, v \o w) = Trees!FlattenSeq(Trees!Top(2))
  <2>1. ForestOf(t1, v \o w) = ForestOf(t1, v) \o ForestOf(t1, w)
    BY <1>26, ForestConcat
  <2>2. FlattenSeq(Trees!Top(2)) = Trees!Top(2)[1] \o Trees!Top(2)[2]
    BY <1>7, FlattenFew
  <2>. QED BY <1>27, <2>1, <2>2, SameOperators
<1>. DEFINE K == ForestOf(t1, s)
<1>29. K # <<>> /\ Trees!Front(K) = Trees!FlattenSeq(Trees!Top(2)) /\ Trees!Last(K) = LeafTree(e)
  <2>1. LET J == ForestOf(t1, (v \o w) \o <<e>>) IN
        J # <<>> /\ Trees!Front(J) = ForestOf(t1, v \o w) /\ Trees!Last(J) = t1[e]
    <3>. DEFINE q == v \o w
    <3>1. q \in Seq(Nat)
      BY <1>26
    <3>. HIDE DEF q
    <3>2. LET J == ForestOf(t1, q \o <<e>>) IN
          J # <<>> /\ Trees!Front(J) = ForestOf(t1, q) /\ Trees!Last(J) = t1[e]
      BY <1>8, <3>1, ForestEnds
    <3>. QED BY <3>2 DEF q
  <2>. QED BY <1>11, <1>26, <1>28, <2>1
<1>30. tree.kids = K /\ LeafTree(e).kids = <<>> /\ Len(<<tree>>) = 1 /\ <<tree>>[1] = tree
  BY DEF LeafTree
<1>. HIDE DEF tree, K
<1>31. Trees!Node(2, K) /\ Trees!Last(forests')[1].kids = K
  <2>1. Trees!Node(2, tree.kids)
    BY <1>1, <1>25, ReducedNode
  <2>. QED BY <1>30, <2>1 DEF Trees!Node
<1>. QED BY <1>1, <1>7, <1>25, <1>29, <1>30, <1>31 DEF Trees!IfThen

LEMMA GlobalDeclStep ==
    ASSUME NEW t, NEW rank, NEW off, Parsed(t, rank, off), GlobalDecl,
           forests' = Forests(nodes', values')
    PROVE  AstInv' /\ Trees!GlobalDecl
<1>. DEFINE h == Allocated(1)  p == newNode  a == Args(2)[1]  b == Args(2)[2]
            t1 == MoreTrees(t, h)  r1 == MoreRanks(rank, h)  L == Len(values)
            f == MakeChild(h, p, a)  g == MakeSibling(f, p, b)
            s == Whole(h, a)  C == {h[a].left}  w == Whole(nodes, b)
            tree == [label |-> p, kids |-> ForestOf(t1, s)]
<1>1. /\ 2 \in Nat /\ 2 <= L /\ 1 \in 1 .. 2 /\ 2 \in 1 .. 2 /\ L \in Nat /\ Len(nodes) \in Nat
      /\ 1 \in Nat /\ 1 >= 1 /\ 2 >= 2
  BY LenProperties DEF GlobalDecl, Parsed, Rooted, Linked
<1>2. /\ a \in 1 .. Len(nodes) /\ nodes[a].parent = Null
      /\ b \in 1 .. Len(nodes) /\ nodes[b].parent = Null
      /\ nodes[a].left # nodes[b].left
      /\ \A j \in 1 .. L - 2 : /\ nodes[values[j].node].left # nodes[a].left
                               /\ nodes[values[j].node].left # nodes[b].left
  <2>1. /\ \A i \in 1 .. 2 : Args(2)[i] \in 1 .. Len(nodes) /\ nodes[Args(2)[i]].parent = Null
        /\ \A i, j \in 1 .. 2 : nodes[Args(2)[i]].left = nodes[Args(2)[j]].left => i = j
        /\ \A j \in 1 .. L - 2, i \in 1 .. 2 : nodes[values[j].node].left # nodes[Args(2)[i]].left
    BY <1>1, ArgsShape
  <2>2. nodes[a].left # nodes[b].left
    BY <1>1, <2>1
  <2>. QED BY <1>1, <2>1, <2>2
<1>3. /\ Continues(t, rank, h, t1, r1) /\ Len(h) = Len(nodes) + 1
      /\ \A n \in 1 .. Len(nodes) :
            n \in 1 .. Len(h) /\ h[n] = nodes[n] /\ nodes[n].left \in 1 .. Len(nodes)
  BY <1>1, NewNodes
<1>4. /\ p \in 1 .. Len(h) /\ Alone(h, p) /\ h[p].child = Null /\ h[p].parent = Null
      /\ r1[p] = 1 /\ h[p].left = p /\ p = Len(nodes) + 1
      /\ \A n \in 1 .. Len(nodes) : nodes[n].left # p
  BY <1>1, NewNode
<1>5. Reduce(2, g, Value(b, TRUE))
  BY DEF GlobalDecl
<1>6. ASSUME NEW i \in 1 .. 2, NEW n \in 1 .. Len(nodes), nodes[n].left = nodes[Args(2)[i]].left
      PROVE  /\ rank[n] + off[L - 2] <= off[L]
             /\ off[L - 2] \in Nat /\ off[L] \in Nat /\ off[L - 2] <= off[L]
  BY <1>1, <1>6, ArgsFit
<1>7. /\ off[L - 2] \in Nat /\ off[L] \in Nat /\ off[L - 2] <= off[L]
      /\ \A n \in 1 .. Len(nodes) : nodes[n].left \in {nodes[a].left, nodes[b].left} =>
            rank[n] + off[L - 2] <= off[L]
  BY <1>1, <1>2, <1>6
<1>8. /\ Trees!Top(2) = [i \in 1 .. 2 |-> ForestOf(t, Whole(nodes, Args(2)[i]))]
      /\ Trees!size = L
  BY <1>1, ArgsForests
<1>9. /\ Trees!Top(2)[1] = ForestOf(t, Whole(nodes, a)) /\ Trees!Top(2)[2] = ForestOf(t, w)
  BY <1>1, <1>8
<1>. HIDE DEF h, p, a, b, t1, r1
<1>10. /\ Grown(h) /\ Linked(h) /\ Linked(nodes)
       /\ \A n \in 1 .. Len(nodes) : t1[n] = t[n] /\ r1[n] = rank[n]
  BY <1>3 DEF Continues, Grown, Parsed
<1>11. /\ a \in 1 .. Len(h) /\ h[a] = nodes[a] /\ b \in 1 .. Len(h) /\ h[b] = nodes[b]
  BY <1>2, <1>3
<1>12. Attached(h, f, C, p, s)
  <2>1. s \in Seq(Nat)
    BY <1>10, <1>11, WholeShape DEF Siblings
  <2>2. Kids(h, p) \o s = s
    BY <1>4, <2>1, ConcatEmptySeq DEF Kids
  <2>3. Attached(h, f, C, p, Kids(h, p) \o s)
    BY <1>2, <1>4, <1>10, <1>11, MakeChildAttaches
  <2>. QED BY <2>2, <2>3
<1>13. ASSUME NEW j \in 1 .. L - 2
       PROVE  nodes[values[j].node].left \notin C /\ nodes[values[j].node].left # h[p].left
  <2>1. j \in 1 .. L
    BY <1>1
  <2>2. values[j].node \in 1 .. Len(nodes)
    BY <2>1 DEF Parsed, Rooted
  <2>. QED BY <1>2, <1>4, <1>11, <2>2
<1>14. ASSUME NEW n \in 1 .. Len(h), h[n].left \in C
       PROVE  (r1[n] + off[L - 2]) + 1 <= off[L] + 1
  <2>1. h[n].left = nodes[a].left
    BY <1>11, <1>14
  <2>2. n \in 1 .. Len(nodes) /\ nodes[n].left = nodes[a].left
    BY <1>2, <1>10, <2>1, OldMembers
  <2>3. rank[n] + off[L - 2] <= off[L] /\ r1[n] = rank[n] /\ rank[n] \in Nat
    BY <1>7, <1>10, <2>2 DEF Parsed, Ranked
  <2>. QED BY <1>7, <2>3
<1>15. h[p].left \notin C
  BY <1>2, <1>4, <1>11
<1>16. Collects(t, rank, off, 2, h, t1, r1, p, f, C, s, 1)
  <2>1. r1[p] + off[L - 2] <= off[L] + 1
    BY <1>4, <1>7
  <2>2. Len(nodes) + 1 <= Len(h)
    BY <1>1, <1>3
  <2>. HIDE DEF f, C, s
  <2>. QED BY <1>1, <1>3, <1>4, <1>12, <1>13, <1>14, <1>15, <2>1, <2>2 DEF Collects
<1>17. f[b].left = nodes[b].left /\ f[b].parent = Null /\ Whole(f, b) = w
  <2>1. h[b].left \notin C /\ h[b].parent = Null /\ p # Null
    BY <1>1, <1>2, <1>4, <1>11 DEF Null
  <2>. HIDE DEF C, f, s
  <2>2. Whole(f, b) = Whole(h, b)
    BY <1>10, <1>11, <1>12, <2>1, ListStays
  <2>3. Whole(h, b) = w
    BY <1>2, <1>10, OldLists
  <2>4. f[b].left = h[b].left /\ f[b].parent = h[b].parent
    BY <1>11, <1>12, <2>1 DEF Attached
  <2>. QED BY <1>2, <1>11, <2>2, <2>3, <2>4
<1>. HIDE DEF f, C
<1>18. PICK u, above : Collected(t, rank, off, 2, h, t1, r1, p, f, s, 1, u, above)
  BY <1>16, AttachedReads
<1>19. /\ Linked(f) /\ Len(f) = Len(h) /\ Len(nodes) <= Len(f) /\ Len(nodes) + 1 <= Len(f)
       /\ p \in 1 .. Len(f) /\ f[p].left = p /\ Alone(f, p) /\ f[p].parent = Null
       /\ Reading(f, u) /\ Ranked(f, above) /\ u[p] = tree
       /\ above[p] + off[L - 2] <= off[L] + 1
       /\ \A n \in 1 .. Len(h) : n # p => u[n] = t1[n] /\ above[n] = r1[n]
       /\ \A j \in 1 .. L - 2 :
             /\ values[j].node \in 1 .. Len(nodes) /\ Spared(f, p, values[j].node)
             /\ \A n \in 1 .. Len(nodes) :
                   nodes[n].left = nodes[values[j].node].left => u[n] = t[n] /\ above[n] = rank[n]
  BY <1>18 DEF Collected
<1>. HIDE DEF tree
<1>20. b \in 1 .. Len(f) /\ f[p].left # f[b].left
  BY <1>2, <1>4, <1>11, <1>17, <1>19
<1>21. Continued(f, g, p, b)
  BY <1>19, <1>20, MakeSiblingContinues
<1>. HIDE DEF g
<1>22. /\ Linked(g) /\ Len(g) = Len(f) /\ Reading(g, u) /\ Ranked(g, above)
       /\ \A n \in 1 .. Len(f) :
             /\ g[n].parent = f[n].parent
             /\ g[n].left = IF f[n].left = f[b].left THEN f[p].left ELSE f[n].left
             /\ f[n].left # f[p].left => g[n].right = f[n].right
  <2>1. Linked(f) /\ Reading(f, u) /\ Ranked(f, above) /\ p \in 1 .. Len(f) /\ f[p].parent = Null
    BY <1>19
  <2>2. f[b].parent = Null /\ b \in 1 .. Len(f) /\ f[p].left # f[b].left
    BY <1>17, <1>20
  <2>3. Linked(g) /\ Len(g) = Len(f) /\ Reading(g, u) /\ Ranked(g, above)
    BY <1>21, <2>1, <2>2, ContinuedReads
  <2>4. ASSUME NEW n \in 1 .. Len(f)
        PROVE  /\ g[n].parent = f[n].parent
               /\ g[n].left = IF f[n].left = f[b].left THEN f[p].left ELSE f[n].left
               /\ f[n].left # f[p].left => g[n].right = f[n].right
    <3>1. /\ Linked(g) /\ Len(g) = Len(f) /\ Reading(g, u) /\ Ranked(g, above)
          /\ \A m \in 1 .. Len(f) :
                /\ g[m].parent = f[m].parent
                /\ g[m].left = IF f[m].left = f[b].left THEN f[p].left ELSE f[m].left
                /\ f[m].left # f[p].left => g[m].right = f[m].right
      <4>. HIDE DEF b
      <4>. QED BY <1>21, <2>1, <2>2, ContinuedReads
    <3>. QED BY <3>1
  <2>. QED BY <2>3, <2>4
<1>23. Whole(f, p) = <<p>>
  BY <1>19, AloneWhole
<1>24. Siblings(g, <<p>> \o w)
  <2>1. Siblings(g, Whole(f, p) \o Whole(f, b))
    BY <1>19, <1>20, <1>21, JoinedList
  <2>. QED BY <1>17, <1>23, <2>1
<1>25. g[b].left = p /\ g[b].parent = Null
  BY <1>17, <1>19, <1>20, <1>22
<1>26. Whole(g, b) = <<p>> \o w /\ w \in Seq(Nat)
  <2>. DEFINE l == Whole(g, b)
  <2>1. w \in Seq(Nat)
    BY <1>2, <1>10, WholeShape DEF Siblings
  <2>2. p \in Nat /\ 1 <= Len(<<p>>) /\ <<p>> \in Seq(Nat) /\ <<p>>[1] = p
    BY <1>1, <1>4
  <2>. DEFINE q == <<p>> \o w
  <2>3. q[1] = p /\ q \in Seq(Nat) /\ 1 \in 1 .. Len(q)
    <3>1. q[1] = p /\ q \in Seq(Nat)
      BY <2>1, <2>2, ConcatHead, ConcatProperties
    <3>2. Siblings(g, q)
      BY <1>24
    <3>. HIDE DEF q
    <3>. QED BY <3>1, <3>2, LenProperties DEF Siblings
  <2>4. Siblings(g, q)
    BY <1>24
  <2>. HIDE DEF q
  <2>5. Whole(g, q[1]) = q
    BY <1>22, <2>3, <2>4, WholeIs DEF Linked
  <2>6. g[p].left = p
    BY <1>19, <1>20, <1>22
  <2>7. Whole(g, b) = Whole(g, p)
    BY <1>25, <2>6 DEF Whole
  <2>. QED BY <2>1, <2>3, <2>5, <2>7 DEF q
<1>27. ASSUME NEW j \in 1 .. L - 2 PROVE Spared(g, b, values[j].node)
  <2>. DEFINE x == values[j].node
  <2>1. x \in 1 .. Len(nodes) /\ Spared(f, p, x)
    BY <1>19
  <2>2. nodes[x].left # nodes[b].left
    BY <1>2
  <2>. HIDE DEF x
  <2>3. nodes[x].left # p
    BY <1>4, <2>1
  <2>4. ASSUME NEW n \in 1 .. Len(nodes), nodes[n].left = nodes[x].left
        PROVE  g[n].left = nodes[n].left /\ g[n].parent = Null /\ g[n].right = nodes[n].right
    <3>1. f[n].left = nodes[n].left /\ f[n].parent = Null /\ f[n].right = nodes[n].right
      BY <2>1, <2>4 DEF Spared
    <3>2. n \in 1 .. Len(f)
      BY <1>3, <1>19
    <3>. QED BY <1>17, <1>19, <1>22, <2>2, <2>3, <2>4, <3>1, <3>2
  <2>5. g[b].left # nodes[x].left
    BY <1>25, <2>3
  <2>6. Spared(g, b, x)
    BY <2>4, <2>5 DEF Spared
  <2>. QED BY <2>6 DEF x
<1>28. ASSUME NEW n \in 1 .. Len(g), g[n].left = g[b].left
       PROVE  above[n] + off[L - 2] <= off[L] + 1
  <2>1. n \in 1 .. Len(f) /\ n \in 1 .. Len(h)
    BY <1>19, <1>22
  <2>2. f[n].left = f[p].left \/ f[n].left = f[b].left
    BY <1>19, <1>22, <1>25, <1>28, <2>1
  <2>3. CASE n = p
    BY <1>19, <2>3
  <2>4. CASE n # p /\ f[n].left = f[p].left
    <3>1. \E i \in 1 .. Len(Whole(f, p)) : Whole(f, p)[i] = n
      <4>1. \A m \in 1 .. Len(f) : f[m].left = f[p].left <=>
                \E i \in 1 .. Len(Whole(f, p)) : Whole(f, p)[i] = m
        BY <1>19, WholeShape
      <4>. QED BY <2>1, <2>4, <4>1
    <3>2. Len(<<p>>) = 1 /\ <<p>>[1] = p /\ 1 .. 1 = {1}
      OBVIOUS
    <3>. QED BY <1>23, <2>4, <3>1, <3>2
  <2>5. CASE n # p /\ f[n].left = f[b].left
    <3>1. \E i \in 1 .. Len(Whole(f, b)) : Whole(f, b)[i] = n
      <4>1. \A m \in 1 .. Len(f) : f[m].left = f[b].left <=>
                \E i \in 1 .. Len(Whole(f, b)) : Whole(f, b)[i] = m
        BY <1>19, <1>20, WholeShape
      <4>. QED BY <2>1, <2>5, <4>1
    <3>2. PICK i \in 1 .. Len(w) : w[i] = n
      BY <1>17, <3>1
    <3>3. Siblings(nodes, w) /\ w[1] = nodes[b].left
      BY <1>2, <1>10, WholeShape
    <3>4. n \in 1 .. Len(nodes) /\ nodes[n].left = nodes[b].left
      BY <3>2, <3>3 DEF Siblings
    <3>5. rank[n] + off[L - 2] <= off[L] /\ rank[n] \in Nat /\ above[n] = rank[n]
      BY <1>7, <1>10, <1>19, <2>1, <2>5, <3>4 DEF Parsed, Ranked
    <3>. QED BY <1>7, <3>5
  <2>. QED BY <2>2, <2>3, <2>4, <2>5
<1>29. Reducible(t, rank, off, 2, g, b, u, above, 1)
  <2>1. b \in 1 .. Len(g) /\ Len(nodes) <= Len(g) /\ Len(nodes) + 1 <= Len(g)
    BY <1>19, <1>20, <1>22
  <2>. QED BY <1>1, <1>19, <1>22, <1>25, <1>27, <1>28, <2>1 DEF Reducible
<1>30. AstInv' /\ Trees!Reduce(2, ForestOf(u, Whole(g, b)))
  <2>1. TRUE \in BOOLEAN /\ (~TRUE => Alone(g, b))
    OBVIOUS
  <2>. QED BY <1>5, <1>29, <2>1, ReduceStep
<1>31. ForestOf(u, Whole(g, b)) = <<tree>> \o Trees!Top(2)[2]
  <2>1. ForestOf(u, <<p>> \o w) = ForestOf(u, <<p>>) \o ForestOf(u, w)
    <3>1. <<p>> \in Seq(Nat)
      BY <1>1, <1>4
    <3>. HIDE DEF w
    <3>. QED BY <1>26, <3>1, ForestConcat
  <2>2. ForestOf(u, <<p>>) = <<tree>>
    <3>1. ForestOf(u, <<p>>) = <<u[p]>>
      BY DEF ForestOf
    <3>. QED BY <1>19, <3>1
  <2>3. ForestOf(u, w) = ForestOf(t, w)
    <3>1. Siblings(nodes, w)
      BY <1>2, <1>10, WholeShape
    <3>. HIDE DEF w
    <3>2. \A i \in 1 .. Len(w) : w[i] \in 1 .. Len(nodes)
      BY <3>1 DEF Siblings
    <3>3. \A n \in 1 .. Len(nodes) : n # p /\ n \in 1 .. Len(h)
      BY <1>1, <1>3, <1>4
    <3>4. \A i \in 1 .. Len(w) : u[w[i]] = t[w[i]]
      BY <1>10, <1>19, <3>2, <3>3
    <3>. QED BY <3>4, SameForest
  <2>. QED BY <1>9, <1>26, <2>1, <2>2, <2>3
<1>32. (<<tree>> \o Trees!Top(2)[2])[1] = tree
  <2>. DEFINE F == ForestOf(t, w)  S == {F[i] : i \in 1 .. Len(w)} \cup {tree}
  <2>1. F \in [1 .. Len(w) -> S] /\ Len(w) \in Nat
    BY <1>26, LenProperties DEF ForestOf
  <2>. HIDE DEF F
  <2>2. tree \in S
    OBVIOUS
  <2>. HIDE DEF S
  <2>3. F \in Seq(S)
    BY <2>1, AsSeq
  <2>4. <<tree>> \in Seq(S) /\ Len(<<tree>>) = 1 /\ <<tree>>[1] = tree
    BY <2>2
  <2>5. Len(F) \in Nat /\ 1 \in 1 .. 1 + Len(F) /\ 1 <= 1
    BY <2>3, LenProperties
  <2>6. (<<tree>> \o F)[1] = <<tree>>[1]
    BY <2>3, <2>4, <2>5, ConcatProperties
  <2>. QED BY <1>9, <2>4, <2>6 DEF F
<1>33. Trees!Last(forests')[1] = tree
  <2>1. Trees!Last(forests') = ForestOf(u, Whole(g, b))
    BY <1>1, <1>30, Reduced
  <2>. QED BY <1>31, <1>32, <2>1
<1>34. tree.kids = Trees!Top(2)[1]
  <2>1. ForestOf(t1, s) = ForestOf(t, Whole(nodes, a))
    BY <1>2, <1>3, <1>10, OldForests
  <2>2. tree.kids = ForestOf(t1, s)
    BY DEF tree
  <2>. QED BY <1>9, <2>1, <2>2
<1>. QED BY <1>1, <1>8, <1>30, <1>31, <1>33, <1>34 DEF Trees!GlobalDecl

LEMMA AstStep == ASSUME AstInv, AstNext PROVE AstInv' /\ Trees!NextForest
<1>1. PICK t, rank, off : Parsed(t, rank, off)
  BY DEF AstInv
<1>2. Production /\ forests' = Forests(nodes', values')
  BY DEF AstNext
<1>3. CASE Terminal
  BY <1>1, <1>2, <1>3, TerminalStep DEF Trees!NextForest
<1>4. CASE ListOf
  BY <1>1, <1>2, <1>4, ListOfStep DEF Trees!NextForest
<1>5. CASE Wrap
  <2>1. AstInv' /\ Trees!Family(1)
    BY <1>1, <1>2, <1>5, WrapStep
  <2>. QED BY <2>1 DEF Trees!NextForest
<1>6. CASE Declaration
  <2>1. Family(2) /\ 2 \in Nat /\ 2 >= 1
    BY <1>6 DEF Declaration
  <2>2. AstInv' /\ Trees!Family(2)
    BY <1>1, <1>2, <2>1, FamilyStep
  <2>. QED BY <2>2 DEF Trees!NextForest
<1>7. ASSUME NEW k \in {2, 3, 4}, Statement(k) PROVE AstInv' /\ Trees!NextForest
  <2>1. k \in Nat /\ k >= 1 /\ Family(k) /\ k \in {1, 2, 3, 4}
    BY <1>7 DEF Statement
  <2>2. AstInv' /\ Trees!Family(k)
    BY <1>1, <1>2, <2>1, FamilyStep
  <2>. QED BY <2>1, <2>2 DEF Trees!NextForest
<1>8. CASE Operator
  BY <1>1, <1>2, <1>8, OperatorStep DEF Trees!NextForest
<1>9. CASE IfThen
  BY <1>1, <1>2, <1>9, IfThenStep DEF Trees!NextForest
<1>10. CASE GlobalDecl
  BY <1>1, <1>2, <1>10, GlobalDeclStep DEF Trees!NextForest
<1>11. CASE FunctionDecl
  BY <1>1, <1>2, <1>11, FunctionDeclStep DEF Trees!NextForest
<1>. QED BY <1>2, <1>3, <1>4, <1>5, <1>6, <1>7, <1>8, <1>9, <1>10, <1>11 DEF Production

LEMMA AstStart == AstInit => AstInv
<1>. SUFFICES ASSUME AstInit PROVE AstInv
  OBVIOUS
<1>1. nodes = <<>> /\ values = <<>> /\ forests = <<>> /\ Len(<<>>) = 0 /\ 1 .. 0 = {}
  BY DEF AstInit
<1>2. nodes \in Seq(NodeRec) /\ values \in Seq(ValueRec)
  BY <1>1
<1>. DEFINE off == [i \in 0 .. 0 |-> 0]
<1>3. Budget(nodes, values, <<>>, off)
  BY <1>1 DEF Budget
<1>4. Linked(nodes) /\ Rooted(nodes, values) /\ Reading(nodes, <<>>) /\ Ranked(nodes, <<>>)
  BY <1>1, <1>2 DEF Linked, Rooted, Reading, Ranked
<1>5. forests = [i \in 1 .. Len(values) |-> ForestOf(<<>>, Whole(nodes, values[i].node))]
  BY <1>1
<1>6. Parsed(<<>>, <<>>, off)
  BY <1>3, <1>4, <1>5 DEF Parsed
<1>. QED BY <1>6 DEF AstInv

LEMMA AstInvariant == Spec => []AstInv
<1>1. Init => AstInv
  BY AstStart DEF Init
<1>2. ASSUME AstInv, [Next]_vars PROVE AstInv'
  <2>1. CASE UNCHANGED astVars
    BY <1>2, <2>1 DEF AstInv, Parsed, astVars
  <2>2. CASE AstNext
    BY <2>2, <1>2, AstStep
  <2>. QED BY <1>2, <2>1, <2>2 DEF Next, vars, astVars
<1>. QED BY <1>1, <1>2, PTL DEF Spec

\* Every production combines the trees of its right side in the order of the
\* source, for any program: what the semantic passes walk is the tree of the
\* grammar, however its lists were handed on and linked (parser.y).
THEOREM TreesAreBuilt == Spec => BuildsTrees
<1>1. ASSUME AstInv, [Next]_vars PROVE [Trees!NextForest]_astVars
  <2>1. CASE UNCHANGED astVars
    BY <2>1
  <2>2. CASE AstNext
    BY <2>2, <1>1, AstStep
  <2>. QED BY <1>1, <2>1, <2>2 DEF Next, vars, astVars
<1>. QED BY <1>1, AstInvariant, PTL DEF Spec, BuildsTrees

\* Every pointer of every node agrees with the others, for any program: what
\* makeSibling, makeChild and makeFamily (parser.y) rely on and leave behind.
THEOREM ListsAreLinked == Spec => []WellLinked
<1>1. ASSUME AstInv PROVE WellLinked
  <2>1. DOMAIN nodes = 1 .. Len(nodes) /\ Linked(nodes) /\ Len(nodes) \in Nat
    BY <1>1, LenProperties DEF AstInv, Parsed, Linked
  <2>2. ASSUME NEW n \in 1 .. Len(nodes)
        PROVE  LET s == nodes[n] IN
               /\ n \in ToSet(Whole(nodes, n))
               /\ s.right # Null => /\ nodes[s.right].left = s.left
                                    /\ nodes[s.right].parent = s.parent
               /\ s.child # Null => nodes[s.child].parent = n /\ nodes[s.child].left = s.child
               /\ s.parent # Null => nodes[s.parent].child = s.left
    <3>. DEFINE l == Whole(nodes, n)
    <3>1. Siblings(nodes, l) /\ \E i \in 1 .. Len(l) : l[i] = n
      BY <2>1, WholeShape
    <3>2. PICK i \in 1 .. Len(l) : l[i] = n
      BY <3>1
    <3>3. DOMAIN l = 1 .. Len(l) /\ Len(l) \in Nat
      BY <3>1, LenProperties DEF Siblings
    <3>4. n \in ToSet(l)
      BY <3>2, <3>3 DEF ToSet
    <3>. HIDE DEF l
    <3>5. nodes[n].right # Null => /\ nodes[nodes[n].right].left = nodes[n].left
                                   /\ nodes[nodes[n].right].parent = nodes[n].parent
      <4>1. CASE i = Len(l)
        BY <3>1, <3>2, <4>1 DEF Siblings
      <4>2. CASE i # Len(l)
        <5>1. i + 1 \in 1 .. Len(l)
          <6>. DEFINE m == Len(l)
          <6>1. m \in Nat /\ i \in 1 .. m /\ i # m
            BY <3>3, <4>2
          <6>. HIDE DEF m
          <6>2. i + 1 \in 1 .. m
            BY <6>1
          <6>. QED BY <6>2 DEF m
        <5>2. nodes[l[i]].right = l[i + 1] /\ nodes[l[i]].left = l[1]
              /\ nodes[l[i]].parent = nodes[l[1]].parent
          BY <3>1, <3>2, <4>2 DEF Siblings
        <5>3. nodes[l[i + 1]].left = l[1] /\ nodes[l[i + 1]].parent = nodes[l[1]].parent
          BY <3>1, <5>1 DEF Siblings
        <5>. QED BY <3>2, <5>2, <5>3
      <4>. QED BY <4>1, <4>2
    <3>6. ChildAgrees(nodes, n) /\ ParentAgrees(nodes, n)
      BY <2>1 DEF Linked
    <3>. QED BY <3>4, <3>5, <3>6 DEF l, ChildAgrees, ParentAgrees
  <2>. QED BY <2>1, <2>2 DEF WellLinked
<1>. QED BY <1>1, AstInvariant, PTL
=============================================================================
