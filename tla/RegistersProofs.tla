--------------------------- MODULE RegistersProofs ---------------------------
(***************************************************************************)
(* Lemmas about the register cache: what each operator of Registers does   *)
(* to a machine, and that every one of them keeps the cache right.  They   *)
(* hold for any number of registers and variables and for any word.        *)
(***************************************************************************)
EXTENDS Registers, SequenceTheorems, TLAPS

-----------------------------------------------------------------------------
(* The register pools *)

LEMMA PoolShape ==
    /\ CalleePool \in Seq(Reg) /\ CallerPool \in Seq(Reg)
    /\ Callee \subseteq Reg /\ Caller \subseteq Reg /\ Callee \cap Caller = {}
    /\ \A r \in Callee : \E i \in 1 .. Len(CalleePool) : CalleePool[i] = r
    /\ \A r \in Caller : \E i \in 1 .. Len(CallerPool) : CallerPool[i] = r
    /\ \A i \in 1 .. Len(CalleePool) : CalleePool[i] \in Callee
    /\ \A i \in 1 .. Len(CallerPool) : CallerPool[i] \in Caller
<1>1. /\ DOMAIN CalleePool = 1 .. Len(CalleePool)
      /\ DOMAIN CallerPool = 1 .. Len(CallerPool)
  BY PoolAssumption, LenProperties
<1>2. /\ \A r \in Callee : \E i \in 1 .. Len(CalleePool) : CalleePool[i] = r
      /\ \A r \in Caller : \E i \in 1 .. Len(CallerPool) : CallerPool[i] = r
      /\ \A i \in 1 .. Len(CalleePool) : CalleePool[i] \in Callee
      /\ \A i \in 1 .. Len(CallerPool) : CallerPool[i] \in Caller
  BY <1>1 DEF Callee, Caller, Range
<1>3. /\ Callee \subseteq Reg /\ Caller \subseteq Reg /\ Callee \cap Caller = {}
  BY PoolAssumption DEF Callee, Caller, Reg
<1>4. CalleePool \in Seq(Reg) /\ CallerPool \in Seq(Reg)
  BY PoolAssumption, <1>3, SeqMonotonic DEF Callee, Caller
<1>. QED BY <1>2, <1>3, <1>4

\* The register file is searched register by register, each of them once.
LEMMA AllRegsShape ==
    /\ AllRegs \in Seq(Reg)
    /\ DOMAIN AllRegs = 1 .. Len(AllRegs) /\ Len(AllRegs) \in Nat
    /\ \A i \in DOMAIN AllRegs : AllRegs[i] \in Reg
    /\ \A r \in Reg : \E i \in DOMAIN AllRegs : AllRegs[i] = r
    /\ \A i, j \in DOMAIN AllRegs : AllRegs[i] = AllRegs[j] => i = j
<1>. DEFINE p == Len(CalleePool)  q == Len(CallerPool)
<1>1. p \in Nat /\ q \in Nat
  BY PoolShape, LenProperties
<1>2. /\ AllRegs \in Seq(Reg)
      /\ Len(AllRegs) = p + q
      /\ \A i \in 1 .. p + q :
            AllRegs[i] = IF i <= p THEN CalleePool[i] ELSE CallerPool[i - p]
  BY PoolShape, ConcatProperties DEF AllRegs
<1>3. DOMAIN AllRegs = 1 .. p + q
  BY <1>2, LenProperties
<1>4. /\ \A i, j \in 1 .. p : CalleePool[i] = CalleePool[j] => i = j
      /\ \A i, j \in 1 .. q : CallerPool[i] = CallerPool[j] => i = j
  BY PoolAssumption, PoolShape, LenProperties DEF IsInjective
<1>5. \A i \in DOMAIN AllRegs : AllRegs[i] \in Reg
  BY <1>2, <1>3, ElementOfSeq
<1>6. ASSUME NEW r \in Reg PROVE \E i \in DOMAIN AllRegs : AllRegs[i] = r
  <2>1. CASE r \in Callee
    <3>1. PICK i \in 1 .. p : CalleePool[i] = r
      BY <2>1, PoolShape
    <3>. QED BY <1>1, <1>2, <1>3, <3>1
  <2>2. CASE r \in Caller
    <3>1. PICK i \in 1 .. q : CallerPool[i] = r
      BY <2>2, PoolShape
    <3>2. i + p \in DOMAIN AllRegs /\ ~(i + p <= p) /\ (i + p) - p = i
      BY <1>1, <1>3, <3>1
    <3>. QED BY <1>2, <1>3, <3>1, <3>2
  <2>. QED BY <2>1, <2>2 DEF Reg
<1>7. ASSUME NEW i \in DOMAIN AllRegs, NEW j \in DOMAIN AllRegs, AllRegs[i] = AllRegs[j]
      PROVE  i = j
  <2>1. /\ \A k \in 1 .. p : CalleePool[k] \in Callee
        /\ \A k \in 1 .. q : CallerPool[k] \in Caller
        /\ Callee \cap Caller = {}
    BY PoolShape
  <2>2. CASE i <= p /\ j <= p
    BY <1>1, <1>2, <1>3, <1>4, <1>7, <2>2
  <2>3. CASE ~(i <= p) /\ ~(j <= p)
    <3>1. i - p \in 1 .. q /\ j - p \in 1 .. q
      BY <1>1, <1>3, <2>3
    <3>2. CallerPool[i - p] = CallerPool[j - p]
      BY <1>2, <1>3, <1>7, <2>3
    <3>3. i - p = j - p
      BY <1>4, <3>1, <3>2
    <3>. QED BY <1>1, <1>3, <3>3
  <2>4. CASE i <= p /\ ~(j <= p)
    <3>1. AllRegs[i] \in Callee /\ AllRegs[j] \in Caller
      BY <1>1, <1>2, <1>3, <2>1, <2>4
    <3>. QED BY <1>7, <2>1, <3>1
  <2>5. CASE ~(i <= p) /\ j <= p
    <3>1. AllRegs[j] \in Callee /\ AllRegs[i] \in Caller
      BY <1>1, <1>2, <1>3, <2>1, <2>5
    <3>. QED BY <1>7, <2>1, <3>1
  <2>. QED BY <2>2, <2>3, <2>4, <2>5
<1>. QED BY <1>1, <1>2, <1>3, <1>5, <1>6, <1>7
-----------------------------------------------------------------------------
(* The machine *)

\* Only register r and the memory may differ.
Elsewhere(mm, nn, r) == \A s \in Reg \ {r} : nn.reg[s] = mm.reg[s]

\* Besides, register r is not locked, before and after.
Quietly(mm, nn, r) ==
    Elsewhere(mm, nn, r) /\ ~mm.reg[r].locked /\ ~nn.reg[r].locked

\* No register has variable v.
Uncached(mm, v) == \A r \in Reg : mm.reg[r].var # v

\* Memory has the value of register r as well, if it is that of a variable.
Stored(mm, nn, r) ==
    \A v \in Vars :
        nn.mem[v] = IF v = mm.reg[r].var THEN mm.reg[r].content ELSE mm.mem[v]

LEMMA UpdateShape ==
    ASSUME NEW mm \in Machine, NEW r \in Reg, NEW s \in RegState
    PROVE  /\ [mm EXCEPT !.reg[r] = s] \in Machine
           /\ [mm EXCEPT !.reg[r] = s].mem = mm.mem
           /\ Elsewhere(mm, [mm EXCEPT !.reg[r] = s], r)
           /\ [mm EXCEPT !.reg[r] = s].reg[r] = s
BY DEF Machine, Elsewhere

\* The register is left to what it was for.
SameTarget(s, t) == s.var = t.var /\ s.node = t.node /\ s.locked = t.locked

LEMMA OperandShape ==
    ASSUME NEW mm \in Machine, NEW r \in Reg, NEW c \in Val
    PROVE  /\ Operand(mm, r, c) \in Machine /\ Operand(mm, r, c).mem = mm.mem
           /\ Elsewhere(mm, Operand(mm, r, c), r)
           /\ SameTarget(Operand(mm, r, c).reg[r], mm.reg[r])
           /\ Operand(mm, r, c).reg[r].content = c
           /\ Operand(mm, r, c).reg[r].dirty /\ Operand(mm, r, c).reg[r].modified
BY DEF Operand, Machine, RegState, Elsewhere, SameTarget

LEMMA LoadValueShape ==
    ASSUME NEW mm \in Machine, NEW r \in Reg, NEW c \in Val
    PROVE  /\ LoadValue(mm, r, c) \in Machine /\ LoadValue(mm, r, c).mem = mm.mem
           /\ Elsewhere(mm, LoadValue(mm, r, c), r)
           /\ SameTarget(LoadValue(mm, r, c).reg[r], mm.reg[r])
           /\ LoadValue(mm, r, c).reg[r].content = c
           /\ LoadValue(mm, r, c).reg[r].dirty
           /\ LoadValue(mm, r, c).reg[r].modified <=> mm.reg[r].modified
BY DEF LoadValue, Machine, RegState, Elsewhere, SameTarget

LEMMA LockShape ==
    ASSUME NEW mm \in Machine, NEW r \in Reg, NEW l \in BOOLEAN
    PROVE  /\ Lock(mm, r, l) \in Machine /\ Lock(mm, r, l).mem = mm.mem
           /\ Elsewhere(mm, Lock(mm, r, l), r)
           /\ Lock(mm, r, l).reg[r] = [mm.reg[r] EXCEPT !.locked = l]
BY DEF Lock, Machine, RegState, Elsewhere

LEMMA SetTargetVarShape ==
    ASSUME NEW mm \in Machine, NEW r \in Reg, NEW v \in Vars
    PROVE  /\ SetTargetVar(mm, r, v) \in Machine /\ SetTargetVar(mm, r, v).mem = mm.mem
           /\ Elsewhere(mm, SetTargetVar(mm, r, v), r)
           /\ SetTargetVar(mm, r, v).reg[r] = [mm.reg[r] EXCEPT !.var = v, !.node = 0]
<1>1. 0 \in 0 .. MaxDepth + 1 /\ v \in Vars \cup {NoVar}
  BY MachineAssumption
<1>. QED BY ZenonT(60), <1>1 DEF SetTargetVar, Machine, RegState, Elsewhere

LEMMA StoreShape ==
    ASSUME NEW mm \in Machine, NEW r \in Reg, mm.reg[r].var # NoVar
    PROVE  /\ Store(mm, r) \in Machine /\ Store(mm, r).reg = mm.reg
           /\ Stored(mm, Store(mm, r), r)
<1>1. mm.reg[r].var \in Vars /\ mm.reg[r].content \in Val
  BY DEF Machine, RegState
<1>. QED BY <1>1 DEF Store, Machine, Stored

LEMMA SaveShape ==
    ASSUME NEW mm \in Machine, NEW r \in Reg
    PROVE  /\ Save(mm, r) \in Machine /\ Elsewhere(mm, Save(mm, r), r)
           /\ IF MustStore(mm, r) THEN Stored(mm, Save(mm, r), r)
              ELSE Save(mm, r).mem = mm.mem
           /\ Save(mm, r).reg[r].locked = mm.reg[r].locked
           /\ Save(mm, r).reg[r].var = mm.reg[r].var
           /\ Save(mm, r).reg[r].content = mm.reg[r].content
           /\ mm.reg[r].var # NoVar => ~Save(mm, r).reg[r].modified
<1>1. CASE MustStore(mm, r)
  <2>. DEFINE k == Store(mm, r)
              s == [mm.reg[r] EXCEPT !.dirty = FALSE, !.modified = FALSE]
  <2>1. k \in Machine /\ k.reg = mm.reg /\ Stored(mm, k, r)
    BY <1>1, StoreShape DEF MustStore
  <2>2. Save(mm, r) = [k EXCEPT !.reg[r] = [@ EXCEPT !.dirty = FALSE, !.modified = FALSE]]
    BY <1>1 DEF Save
  <2>3. /\ s \in RegState /\ ~s.modified /\ s.locked = mm.reg[r].locked
        /\ s.var = mm.reg[r].var /\ s.content = mm.reg[r].content
    BY DEF Machine, RegState
  <2>. HIDE DEF k
  <2>4. Save(mm, r) = [k EXCEPT !.reg[r] = s]
    BY <2>1, <2>2
  <2>. HIDE DEF s
  <2>5. LET n == Save(mm, r) IN
        n \in Machine /\ n.mem = k.mem /\ Elsewhere(k, n, r) /\ n.reg[r] = s
    BY <2>1, <2>3, <2>4, UpdateShape
  <2>. QED BY <1>1, <2>1, <2>3, <2>5 DEF Elsewhere, Stored
<1>2. CASE ~MustStore(mm, r)
  BY <1>2 DEF Save, MustStore, Machine, RegState, Elsewhere
<1>. QED BY <1>1, <1>2

LEMMA ClearShape ==
    ASSUME NEW mm \in Machine, NEW r \in Reg
    PROVE  /\ Clear(mm, r) \in Machine /\ Elsewhere(mm, Clear(mm, r), r) /\ Clear(mm, r).mem = mm.mem
           /\ Clear(mm, r).reg[r] = [mm.reg[r] EXCEPT !.dirty = FALSE, !.modified = FALSE,
                                           !.var = NoVar, !.node = 0]
<1>1. 0 \in 0 .. MaxDepth + 1 /\ NoVar \in Vars \cup {NoVar}
  BY MachineAssumption
<1>. QED BY ZenonT(60), <1>1 DEF Clear, Machine, RegState, Elsewhere

LEMMA SetTargetNodeShape ==
    ASSUME NEW mm \in Machine, NEW r \in Reg, NEW i \in 0 .. MaxDepth + 1
    PROVE  /\ SetTargetNode(mm, r, i) \in Machine
           /\ Elsewhere(mm, SetTargetNode(mm, r, i), r)
           /\ Stored(mm, SetTargetNode(mm, r, i), r)
           /\ SetTargetNode(mm, r, i).reg[r].var = NoVar
           /\ SetTargetNode(mm, r, i).reg[r].node = i
           /\ SetTargetNode(mm, r, i).reg[r].locked = mm.reg[r].locked
           /\ SetTargetNode(mm, r, i).reg[r].modified = mm.reg[r].modified
           /\ SetTargetNode(mm, r, i).reg[r].dirty = mm.reg[r].dirty
<1>. DEFINE k == IF mm.reg[r].var # NoVar THEN Store(mm, r) ELSE mm
            s == [mm.reg[r] EXCEPT !.var = NoVar, !.node = i]
<1>1. k \in Machine /\ k.reg = mm.reg /\ Stored(mm, k, r)
  <2>1. NoVar \notin Vars
    BY MachineAssumption
  <2>. QED BY <2>1, StoreShape DEF Stored
<1>2. SetTargetNode(mm, r, i) = [k EXCEPT !.reg[r] = [@ EXCEPT !.var = NoVar, !.node = i]]
  BY DEF SetTargetNode
<1>3. /\ s \in RegState /\ s.var = NoVar /\ s.node = i /\ s.locked = mm.reg[r].locked
      /\ s.modified = mm.reg[r].modified /\ s.dirty = mm.reg[r].dirty
  BY DEF Machine, RegState
<1>. HIDE DEF k
<1>4. SetTargetNode(mm, r, i) = [k EXCEPT !.reg[r] = s]
  BY <1>1, <1>2
<1>. HIDE DEF s
<1>5. LET n == SetTargetNode(mm, r, i) IN
      n \in Machine /\ n.mem = k.mem /\ Elsewhere(k, n, r) /\ n.reg[r] = s
  BY <1>1, <1>3, <1>4, UpdateShape
<1>. QED BY <1>1, <1>3, <1>5 DEF Elsewhere, Stored
-----------------------------------------------------------------------------
(* A right cache *)

\* No variable is in two registers, and only callee registers cache one.
CachedOnce(mm) ==
    /\ \A r, s \in Reg : mm.reg[r].var # NoVar /\ mm.reg[r].var = mm.reg[s].var => r = s
    /\ \A r \in Reg : mm.reg[r].var # NoVar => r \in Callee

\* From e to f nothing but the value of v changes.
OnlyAt(v, e, f) == \A u \in Vars : u # v => f[u] = e[u]

\* Register r holds the value e gives its variable, and so does memory unless
\* the register is modified.
Holds(mm, e, r) ==
    /\ mm.reg[r].content = e[mm.reg[r].var]
    /\ mm.reg[r].modified \/ mm.mem[mm.reg[r].var] = e[mm.reg[r].var]

\* The cache agrees with the values e of the variables, those of X left aside:
\* the declared variables whose new value has not been put in place yet.
Good(mm, e, X) ==
    /\ mm \in Machine
    /\ CachedOnce(mm)
    /\ \A r \in Reg : mm.reg[r].modified => mm.reg[r].dirty
    /\ \A r \in Reg : mm.reg[r].var \in Vars \ X => Holds(mm, e, r)
    /\ \A v \in Vars \ X : (\A r \in Reg : mm.reg[r].var # v) => mm.mem[v] = e[v]

\* A register may forget its variable if memory has the value, or gets it.
LEMMA ForgetKeepsGood ==
    ASSUME NEW mm, NEW nn \in Machine, NEW e, NEW X, NEW r \in Reg,
           Good(mm, e, X), Elsewhere(mm, nn, r),
           nn.reg[r].var = NoVar, nn.reg[r].modified => nn.reg[r].dirty,
           \/ nn.mem = mm.mem /\ (mm.reg[r].var = NoVar \/ ~mm.reg[r].modified)
           \/ Stored(mm, nn, r)
    PROVE  Good(nn, e, X)
<1>. DEFINE w == mm.reg[r].var
<1>0. mm \in Machine /\ w \in Vars \cup {NoVar} /\ NoVar \notin Vars
  BY MachineAssumption DEF Good, Machine, RegState
<1>1. CachedOnce(nn)
  BY DEF Good, CachedOnce, Elsewhere
<1>2. \A s \in Reg : nn.reg[s].modified => nn.reg[s].dirty
  BY DEF Good, Elsewhere
<1>3. \A v \in Vars : v # w => nn.mem[v] = mm.mem[v]
  BY <1>0 DEF Machine, Stored
<1>4. ASSUME NEW s \in Reg, nn.reg[s].var \in Vars \ X PROVE Holds(nn, e, s)
  <2>1. s # r /\ nn.reg[s] = mm.reg[s]
    BY <1>0, <1>4 DEF Elsewhere
  <2>2. mm.reg[s].var # w
    BY <1>0, <1>4, <2>1 DEF Good, CachedOnce
  <2>. QED BY <1>3, <1>4, <2>1, <2>2 DEF Good, Holds
<1>5. ASSUME NEW v \in Vars \ X, \A s \in Reg : nn.reg[s].var # v PROVE nn.mem[v] = e[v]
  <2>1. CASE v = w
    <3>1. Holds(mm, e, r)
      BY <2>1 DEF Good
    <3>. QED BY <1>0, <2>1, <3>1 DEF Holds, Machine, Stored
  <2>2. CASE v # w
    <3>1. \A s \in Reg : mm.reg[s].var # v
      BY <1>5, <2>2 DEF Elsewhere
    <3>. QED BY <1>3, <2>2, <3>1 DEF Good
  <2>. QED BY <2>1, <2>2
<1>. QED BY <1>1, <1>2, <1>4, <1>5 DEF Good

\* A register whose variable memory has may cache another variable instead.
LEMMA CacheKeepsGood ==
    ASSUME NEW mm, NEW nn \in Machine, NEW e, NEW X, NEW v \in Vars, NEW r \in Callee,
           Good(mm, e, X), Elsewhere(mm, nn, r), nn.mem = mm.mem,
           ~mm.reg[r].modified, \A s \in Reg : mm.reg[s].var # v,
           nn.reg[r].var = v, nn.reg[r].modified => nn.reg[r].dirty,
           v \notin X => Holds(nn, e, r)
    PROVE  Good(nn, e, X)
<1>0. /\ mm \in Machine /\ NoVar \notin Vars /\ r \in Reg
      /\ mm.reg[r].var \in Vars \cup {NoVar}
  BY MachineAssumption DEF Good, Machine, RegState, Reg
<1>1. CachedOnce(nn)
  BY <1>0 DEF Good, CachedOnce, Elsewhere
<1>2. \A s \in Reg : nn.reg[s].modified => nn.reg[s].dirty
  BY DEF Good, Elsewhere
<1>3. ASSUME NEW s \in Reg, nn.reg[s].var \in Vars \ X PROVE Holds(nn, e, s)
  <2>1. CASE s = r
    BY <1>3, <2>1
  <2>2. CASE s # r
    <3>1. nn.reg[s] = mm.reg[s]
      BY <2>2 DEF Elsewhere
    <3>. QED BY <1>3, <3>1 DEF Good, Holds
  <2>. QED BY <2>1, <2>2
<1>4. ASSUME NEW u \in Vars \ X, \A s \in Reg : nn.reg[s].var # u PROVE nn.mem[u] = e[u]
  <2>1. CASE u = mm.reg[r].var
    BY <1>0, <2>1 DEF Good, Holds
  <2>2. CASE u # mm.reg[r].var
    <3>1. \A s \in Reg : mm.reg[s].var # u
      BY <1>4, <2>2 DEF Elsewhere
    <3>. QED BY <3>1 DEF Good
  <2>. QED BY <2>1, <2>2
<1>. QED BY <1>1, <1>2, <1>3, <1>4 DEF Good
\* Only the lock of register r may differ.
LockAside(mm, nn, r) ==
    /\ nn.mem = mm.mem /\ Elsewhere(mm, nn, r)
    /\ \A s \in Reg : /\ nn.reg[s].var = mm.reg[s].var
                      /\ nn.reg[s].node = mm.reg[s].node
                      /\ nn.reg[s].content = mm.reg[s].content
                      /\ nn.reg[s].dirty = mm.reg[s].dirty
                      /\ nn.reg[s].modified = mm.reg[s].modified

LEMMA LockKeepsGood ==
    ASSUME NEW mm, NEW e, NEW X, Good(mm, e, X), NEW r \in Reg
    PROVE  /\ Good(Lock(mm, r, TRUE), e, X) /\ LockAside(mm, Lock(mm, r, TRUE), r)
           /\ Lock(mm, r, TRUE).reg[r].locked
           /\ Good(Lock(mm, r, FALSE), e, X) /\ LockAside(mm, Lock(mm, r, FALSE), r)
           /\ ~Lock(mm, r, FALSE).reg[r].locked
<1>1. ASSUME NEW l \in BOOLEAN
      PROVE  /\ Good(Lock(mm, r, l), e, X) /\ LockAside(mm, Lock(mm, r, l), r)
             /\ Lock(mm, r, l).reg[r].locked = l
  <2>. DEFINE n == Lock(mm, r, l)
  <2>1. /\ n \in Machine /\ n.mem = mm.mem /\ Elsewhere(mm, n, r)
        /\ n.reg[r] = [mm.reg[r] EXCEPT !.locked = l] /\ mm.reg[r] \in RegState
    BY LockShape DEF Good, Machine
  <2>. HIDE DEF n
  <2>2. LockAside(mm, n, r) /\ n.reg[r].locked = l
    BY <2>1 DEF Elsewhere, RegState, LockAside
  <2>3. Good(n, e, X)
    BY <2>1, <2>2 DEF Good, CachedOnce, Holds, LockAside
  <2>. QED BY <2>2, <2>3 DEF n
<1>2. TRUE \in BOOLEAN /\ FALSE \in BOOLEAN
  OBVIOUS
<1>. QED BY <1>1, <1>2, Zenon

\* Register r, which has no variable and no lock, gets value c.
Fills(mm, nn, r, c) ==
    /\ Quietly(mm, nn, r) /\ nn.reg[r].var = NoVar
    /\ nn.reg[r].node = mm.reg[r].node /\ nn.reg[r].content = c

LEMMA FillTemp ==
    ASSUME NEW mm, NEW e, NEW X, Good(mm, e, X), NEW r \in Reg,
           mm.reg[r].var = NoVar, ~mm.reg[r].locked, NEW c \in Val
    PROVE  /\ Good(Operand(mm, r, c), e, X) /\ Fills(mm, Operand(mm, r, c), r, c)
           /\ Good(LoadValue(mm, r, c), e, X) /\ Fills(mm, LoadValue(mm, r, c), r, c)
<1>0. mm \in Machine /\ mm.reg[r] \in RegState
  BY DEF Good, Machine
<1>1. Good(Operand(mm, r, c), e, X) /\ Fills(mm, Operand(mm, r, c), r, c)
  <2>. DEFINE n == Operand(mm, r, c)
  <2>1. /\ n \in Machine /\ n.mem = mm.mem /\ Elsewhere(mm, n, r)
        /\ SameTarget(n.reg[r], mm.reg[r]) /\ n.reg[r].content = c /\ n.reg[r].dirty
    BY <1>0, OperandShape
  <2>. HIDE DEF n
  <2>2. /\ n.reg[r].var = NoVar /\ ~n.reg[r].locked /\ n.reg[r].content = c
        /\ n.reg[r].node = mm.reg[r].node /\ n.reg[r].dirty
    BY <2>1 DEF SameTarget
  <2>3. Good(n, e, X)
    BY <2>1, <2>2, ForgetKeepsGood
  <2>. QED BY <2>1, <2>2, <2>3 DEF Fills, Quietly, n
<1>2. Good(LoadValue(mm, r, c), e, X) /\ Fills(mm, LoadValue(mm, r, c), r, c)
  <2>. DEFINE n == LoadValue(mm, r, c)
  <2>1. /\ n \in Machine /\ n.mem = mm.mem /\ Elsewhere(mm, n, r)
        /\ SameTarget(n.reg[r], mm.reg[r]) /\ n.reg[r].content = c /\ n.reg[r].dirty
    BY <1>0, LoadValueShape
  <2>. HIDE DEF n
  <2>2. /\ n.reg[r].var = NoVar /\ ~n.reg[r].locked /\ n.reg[r].content = c
        /\ n.reg[r].node = mm.reg[r].node /\ n.reg[r].dirty
    BY <2>1 DEF SameTarget
  <2>3. Good(n, e, X)
    BY <2>1, <2>2, ForgetKeepsGood
  <2>. QED BY <2>1, <2>2, <2>3 DEF Fills, Quietly, n
<1>. QED BY <1>1, <1>2

\* A register with a variable may be stored at any time.
LEMMA SaveKeepsGood ==
    ASSUME NEW mm, NEW e, NEW X, Good(mm, e, X), NEW r \in Reg, mm.reg[r].var # NoVar
    PROVE  /\ Good(Save(mm, r), e, X) /\ Elsewhere(mm, Save(mm, r), r)
           /\ Save(mm, r).reg[r].locked = mm.reg[r].locked
<1>. DEFINE n == Save(mm, r)  v == mm.reg[r].var
<1>0. mm \in Machine /\ v \in Vars
  BY DEF Good, Machine, RegState
<1>1. /\ n \in Machine /\ Elsewhere(mm, n, r)
      /\ IF MustStore(mm, r) THEN Stored(mm, n, r) ELSE n.mem = mm.mem
      /\ n.reg[r].locked = mm.reg[r].locked
      /\ n.reg[r].var = v /\ n.reg[r].content = mm.reg[r].content /\ ~n.reg[r].modified
  BY <1>0, SaveShape
<1>. HIDE DEF n
<1>2. /\ mm.reg[r].modified => n.mem[v] = mm.reg[r].content
      /\ ~mm.reg[r].modified => n.mem[v] = mm.mem[v]
      /\ \A u \in Vars : u # v => n.mem[u] = mm.mem[u]
  BY <1>0, <1>1 DEF Stored, MustStore
<1>3. CachedOnce(n)
  BY <1>0, <1>1 DEF Good, CachedOnce, Elsewhere
<1>4. \A s \in Reg : n.reg[s].modified => n.reg[s].dirty
  BY <1>1 DEF Good, Elsewhere
<1>5. ASSUME NEW s \in Reg, n.reg[s].var \in Vars \ X PROVE Holds(n, e, s)
  <2>1. CASE s = r
    BY <1>0, <1>1, <1>2, <1>5, <2>1 DEF Good, Holds
  <2>2. CASE s # r
    <3>1. n.reg[s] = mm.reg[s] /\ mm.reg[s].var # v
      BY <1>0, <1>1, <1>5, <2>2, MachineAssumption DEF Elsewhere, Good, CachedOnce
    <3>. QED BY <1>2, <1>5, <3>1 DEF Good, Holds
  <2>. QED BY <2>1, <2>2
<1>6. ASSUME NEW u \in Vars \ X, \A s \in Reg : n.reg[s].var # u PROVE n.mem[u] = e[u]
  <2>1. u # v /\ \A s \in Reg : mm.reg[s].var # u
    BY <1>1, <1>6 DEF Elsewhere
  <2>. QED BY <1>2, <2>1 DEF Good
<1>7. Good(n, e, X)
  BY <1>1, <1>3, <1>4, <1>5, <1>6 DEF Good
<1>. QED BY <1>1, <1>7 DEF n

LEMMA WeakenGood ==
    ASSUME NEW mm, NEW e, Good(mm, e, {}), NEW X
    PROVE  Good(mm, e, X)
BY DEF Good

\* A variable is assigned: its register gets the value of register s.  If the
\* two are one, it had the value already.
LEMMA LoadRegKeepsGood ==
    ASSUME NEW mm, NEW e, NEW f, NEW v \in Vars, NEW r \in Reg, NEW s \in Reg,
           Good(mm, e, {v}), mm.reg[r].var = v,
           f[v] = mm.reg[s].content, OnlyAt(v, e, f),
           r = s => mm.reg[r].modified \/ mm.mem[v] = f[v]
    PROVE  /\ Good(LoadReg(mm, r, s), f, {}) /\ Elsewhere(mm, LoadReg(mm, r, s), r)
           /\ LoadReg(mm, r, s).reg[r].locked = mm.reg[r].locked
           /\ LoadReg(mm, r, s).reg[r].var = v
<1>. DEFINE n == LoadReg(mm, r, s)
<1>0. mm \in Machine /\ v # NoVar /\ mm.reg[s].content \in Val
  BY MachineAssumption DEF Good, Machine, RegState
<1>1. /\ n \in Machine /\ n.mem = mm.mem /\ Elsewhere(mm, n, r)
      /\ n.reg[r].var = v /\ n.reg[r].locked = mm.reg[r].locked
      /\ n.reg[r].content = f[v] /\ (n.reg[r].modified => n.reg[r].dirty)
      /\ n.reg[r].modified \/ n.mem[v] = f[v]
  <2>1. CASE r = s
    <3>1. n = mm
      BY <2>1 DEF LoadReg
    <3>. HIDE DEF n
    <3>. QED BY <1>0, <2>1, <3>1 DEF Good, Elsewhere
  <2>2. CASE r # s
    <3>. DEFINE x == mm.reg[s].content  k == Operand(mm, r, x)
    <3>1. /\ k \in Machine /\ k.mem = mm.mem /\ Elsewhere(mm, k, r)
          /\ SameTarget(k.reg[r], mm.reg[r])
          /\ k.reg[r].content = x /\ k.reg[r].dirty /\ k.reg[r].modified
      BY <1>0, OperandShape
    <3>2. n = k
      BY <2>2 DEF LoadReg
    <3>. HIDE DEF n, k
    <3>. QED BY <3>1, <3>2 DEF SameTarget
  <2>. QED BY <2>1, <2>2
<1>. HIDE DEF n
<1>2. CachedOnce(n)
  BY <1>1 DEF Good, CachedOnce, Elsewhere
<1>3. \A q \in Reg : n.reg[q].modified => n.reg[q].dirty
  BY <1>1 DEF Good, Elsewhere
<1>4. ASSUME NEW q \in Reg, n.reg[q].var \in Vars PROVE Holds(n, f, q)
  <2>1. CASE q = r
    BY <1>1, <2>1 DEF Holds
  <2>2. CASE q # r
    <3>1. n.reg[q] = mm.reg[q] /\ mm.reg[q].var # v
      BY <1>0, <1>1, <2>2 DEF Elsewhere, Good, CachedOnce
    <3>2. Holds(mm, e, q)
      BY <1>4, <3>1 DEF Good
    <3>. QED BY <1>1, <1>4, <3>1, <3>2 DEF Holds, OnlyAt
  <2>. QED BY <2>1, <2>2
<1>5. ASSUME NEW u \in Vars, \A q \in Reg : n.reg[q].var # u PROVE n.mem[u] = f[u]
  <2>1. u # v /\ \A q \in Reg : mm.reg[q].var # u
    BY <1>1, <1>5 DEF Elsewhere
  <2>. QED BY <1>1, <2>1 DEF Good, OnlyAt
<1>6. Good(n, f, {})
  BY <1>1, <1>2, <1>3, <1>4, <1>5 DEF Good
<1>. QED BY <1>1, <1>6 DEF n
-----------------------------------------------------------------------------
(* The searches *)

LEMMA PoolRange ==
    ASSUME NEW pool \in {CalleePool, CallerPool}, NEW i \in DOMAIN pool
    PROVE  pool[i] \in Range(pool) /\ pool[i] \in Reg
BY DEF Range, Reg, Callee, Caller

\* findVacant gives a register of its pool that is not locked and whose value
\* memory has, if it is the value of a variable at all.
LEMMA VacantShape ==
    ASSUME NEW mm, NEW e, NEW X, Good(mm, e, X),
           NEW pool \in {CalleePool, CallerPool}, NEW a \in FindVacant(mm, pool)
    PROVE  /\ Good(a.m, e, X) /\ a.r \in Range(pool) /\ a.r \in Reg
           /\ Quietly(mm, a.m, a.r) /\ ~a.m.reg[a.r].modified
           /\ a.m.reg[a.r].var \in {NoVar, mm.reg[a.r].var}
<1>0. mm \in Machine /\ \A r \in Reg : mm.reg[r] \in RegState
  BY DEF Good, Machine
<1>1. CASE \E i \in DOMAIN pool : /\ a = [m |-> mm, r |-> pool[i]]
                                  /\ ~mm.reg[pool[i]].locked
                                  /\ ~mm.reg[pool[i]].modified
  BY <1>0, <1>1, PoolRange DEF Elsewhere, Quietly
<1>2. CASE \E i \in DOMAIN pool : /\ a = [m |-> Clear(Save(mm, pool[i]), pool[i]), r |-> pool[i]]
                                  /\ ~mm.reg[pool[i]].locked
  <2>1. PICK i \in DOMAIN pool : /\ a = [m |-> Clear(Save(mm, pool[i]), pool[i]), r |-> pool[i]]
                                 /\ ~mm.reg[pool[i]].locked
    BY <1>2
  <2>. DEFINE r == pool[i]  k == Save(mm, r)  n == Clear(k, r)
  <2>2. r \in Range(pool) /\ r \in Reg /\ a.m = n /\ a.r = r
    BY <2>1, PoolRange
  <2>. HIDE DEF r
  <2>3. /\ k \in Machine /\ Elsewhere(mm, k, r)
        /\ IF MustStore(mm, r) THEN Stored(mm, k, r) ELSE k.mem = mm.mem
        /\ k.reg[r].locked = mm.reg[r].locked
    BY <1>0, <2>2, SaveShape
  <2>4. k.reg[r] \in RegState
    BY <2>2, <2>3 DEF Machine
  <2>. HIDE DEF k
  <2>5. /\ n \in Machine /\ Elsewhere(k, n, r) /\ n.mem = k.mem
        /\ n.reg[r] = [k.reg[r] EXCEPT !.dirty = FALSE, !.modified = FALSE,
                                       !.var = NoVar, !.node = 0]
    BY <2>2, <2>3, ClearShape
  <2>. HIDE DEF n
  <2>6. /\ n.reg[r].locked = mm.reg[r].locked
        /\ n.reg[r].var = NoVar /\ ~n.reg[r].modified /\ ~n.reg[r].dirty
    BY <2>3, <2>4, <2>5 DEF RegState
  <2>7. Elsewhere(mm, n, r)
    BY <2>3, <2>5 DEF Elsewhere
  <2>8. \/ n.mem = mm.mem /\ (mm.reg[r].var = NoVar \/ ~mm.reg[r].modified)
        \/ Stored(mm, n, r)
    BY <2>3, <2>5 DEF MustStore, Stored
  <2>9. Good(n, e, X)
    BY <2>2, <2>5, <2>6, <2>7, <2>8, ForgetKeepsGood
  <2>. QED BY <2>1, <2>2, <2>6, <2>7, <2>9 DEF r, Quietly
<1>3. \A i \in DOMAIN pool : ~mm.reg[pool[i]].dirty => ~mm.reg[pool[i]].modified
  BY PoolRange DEF Good
<1>. QED BY <1>1, <1>2, <1>3 DEF FindVacant, Unlocked, First

\* A register that is fit for a new node: it has the node's name, no lock, and
\* no other register has changed.
LEMMA NewTempShape ==
    ASSUME NEW mm, NEW e, NEW X, Good(mm, e, X), NEW i \in 0 .. MaxDepth + 1,
           NEW pool \in {CalleePool, CallerPool}, NEW a \in NewTemp(mm, pool, i)
    PROVE  /\ Good(a.m, e, X) /\ a.r \in Range(pool) /\ a.r \in Reg
           /\ Quietly(mm, a.m, a.r)
           /\ a.m.reg[a.r].var = NoVar /\ a.m.reg[a.r].node = i
<1>1. PICK b \in FindVacant(mm, pool) : a = [m |-> SetTargetNode(b.m, b.r, i), r |-> b.r]
  BY DEF NewTemp
<1>. DEFINE k == b.m  r == b.r  n == SetTargetNode(k, r, i)
<1>2. /\ Good(k, e, X) /\ r \in Range(pool) /\ r \in Reg
      /\ Elsewhere(mm, k, r)
      /\ ~mm.reg[r].locked /\ ~k.reg[r].locked /\ ~k.reg[r].modified
  BY VacantShape DEF Quietly
<1>3. a.m = n /\ a.r = r
  BY <1>1
<1>. HIDE DEF k, r
<1>4. k \in Machine /\ k.reg[r] \in RegState
  BY <1>2 DEF Good, Machine
<1>5. /\ n \in Machine /\ Elsewhere(k, n, r) /\ Stored(k, n, r)
      /\ n.reg[r].var = NoVar /\ n.reg[r].node = i
      /\ n.reg[r].locked = k.reg[r].locked /\ n.reg[r].modified = k.reg[r].modified
  BY <1>2, <1>4, SetTargetNodeShape
<1>. HIDE DEF n
<1>6. ~n.reg[r].locked /\ ~n.reg[r].modified
  BY <1>2, <1>5
<1>7. Good(n, e, X)
  BY <1>2, <1>5, <1>6, ForgetKeepsGood
<1>8. Elsewhere(mm, n, r)
  BY <1>2, <1>5 DEF Elsewhere
<1>. QED BY <1>2, <1>3, <1>5, <1>6, <1>7, <1>8 DEF Quietly

\* getFit finds a register exactly if it caches the variable.
LEMMA FittingShape ==
    ASSUME NEW mm, CachedOnce(mm), NEW v \in Vars, NEW r
    PROVE  r \in Fitting(mm, v) <=> r \in Reg /\ mm.reg[r].var = v
<1>. DEFINE S == {j \in DOMAIN AllRegs : mm.reg[AllRegs[j]].var = v}
<1>1. ASSUME NEW i \in S, NEW j \in S PROVE i = j
  <2>1. AllRegs[i] = AllRegs[j]
    BY <1>1, AllRegsShape, MachineAssumption DEF CachedOnce
  <2>. QED BY <1>1, <2>1, AllRegsShape
<1>2. \A i \in S : i \in Nat
  BY AllRegsShape
<1>3. First(S) = S
  BY <1>1, <1>2 DEF First
<1>4. Fitting(mm, v) = {AllRegs[i] : i \in S}
  BY <1>3 DEF Fitting
<1>. QED BY <1>4, AllRegsShape

\* Outcome a has variable v in a.r, which was vacant if no register had it.
Delivers(mm, v, a) ==
    /\ a.r \in Callee /\ a.r \in Reg /\ a.m.reg[a.r].var = v
    /\ \/ a.m = mm
       \/ Quietly(mm, a.m, a.r) /\ Uncached(mm, v)

\* The register of a variable, which the code loads exactly if it wants the
\* value.  It is the one that caches the variable already, if there is one.
LEMMA VarRegShape ==
    ASSUME NEW mm, NEW e, NEW X, Good(mm, e, X), NEW v \in Vars, NEW a,
           \/ v \notin X /\ a \in VarReg(mm, v, TRUE)
           \/ v \in X /\ a \in VarReg(mm, v, FALSE)
    PROVE  Good(a.m, e, X) /\ Delivers(mm, v, a)
<1>0. mm \in Machine /\ CachedOnce(mm) /\ NoVar \notin Vars
  BY MachineAssumption DEF Good
<1>1. CASE Fitting(mm, v) # {}
  <2>1. a.m = mm /\ a.r \in Fitting(mm, v)
    BY <1>1 DEF VarReg
  <2>2. a.r \in Reg /\ mm.reg[a.r].var = v
    BY <1>0, <2>1, FittingShape
  <2>3. a.r \in Callee
    BY <1>0, <2>2 DEF CachedOnce
  <2>. QED BY <2>1, <2>2, <2>3 DEF Delivers
<1>2. CASE Fitting(mm, v) = {}
  <2>1. PICK b \in FindVacant(mm, CalleePool) :
            a = [m |-> SetTargetVar(IF v \notin X THEN LoadValue(b.m, b.r, b.m.mem[v]) ELSE b.m,
                                    b.r, v),
                 r |-> b.r]
    BY <1>2 DEF VarReg
  <2>. DEFINE j == b.m  r == b.r
              k == IF v \notin X THEN LoadValue(j, r, j.mem[v]) ELSE j
              n == SetTargetVar(k, r, v)
  <2>2. /\ Good(j, e, X) /\ r \in Callee /\ r \in Reg
        /\ Elsewhere(mm, j, r)
        /\ ~mm.reg[r].locked /\ ~j.reg[r].locked /\ ~j.reg[r].modified
        /\ j.reg[r].var \in {NoVar, mm.reg[r].var}
    BY VacantShape DEF Callee, Quietly
  <2>3. a.m = n /\ a.r = r
    BY <2>1
  <2>. HIDE DEF j, r
  <2>4. \A s \in Reg : mm.reg[s].var # v
    BY <1>0, <1>2, FittingShape
  <2>5. \A s \in Reg : j.reg[s].var # v
    BY <1>0, <2>2, <2>4 DEF Elsewhere
  <2>6. /\ j \in Machine /\ j.reg[r] \in RegState /\ j.mem[v] \in Val
        /\ v \notin X => j.mem[v] = e[v]
    BY <2>2, <2>5 DEF Good, Machine
  <2>7. /\ k \in Machine /\ k.mem = j.mem /\ Elsewhere(j, k, r)
        /\ SameTarget(k.reg[r], j.reg[r]) /\ ~k.reg[r].modified
        /\ v \notin X => k.reg[r].content = j.mem[v]
    <3>1. CASE v \notin X
      <4>. DEFINE l == LoadValue(j, r, j.mem[v])
      <4>1. /\ l \in Machine /\ l.mem = j.mem /\ Elsewhere(j, l, r)
            /\ SameTarget(l.reg[r], j.reg[r]) /\ l.reg[r].content = j.mem[v]
            /\ l.reg[r].modified <=> j.reg[r].modified
        BY <2>2, <2>6, LoadValueShape
      <4>2. k = l
        BY <3>1
      <4>. HIDE DEF k, l
      <4>. QED BY <2>2, <3>1, <4>1, <4>2
    <3>2. CASE v \in X
      BY <2>2, <2>6, <3>2 DEF Elsewhere, SameTarget
    <3>. QED BY <3>1, <3>2
  <2>. HIDE DEF k
  <2>8. k.reg[r] \in RegState /\ ~k.reg[r].locked
    BY <2>2, <2>7 DEF Machine, SameTarget
  <2>9. /\ n \in Machine /\ n.mem = k.mem /\ Elsewhere(k, n, r)
        /\ n.reg[r] = [k.reg[r] EXCEPT !.var = v, !.node = 0]
    BY <2>2, <2>7, SetTargetVarShape
  <2>. HIDE DEF n
  <2>10. /\ n.reg[r].var = v /\ ~n.reg[r].locked /\ ~n.reg[r].modified
         /\ v \notin X => n.reg[r].content = j.mem[v]
    BY <2>7, <2>8, <2>9 DEF RegState
  <2>11. Elsewhere(j, n, r) /\ n.mem = j.mem /\ Elsewhere(mm, n, r)
    BY <2>2, <2>7, <2>9 DEF Elsewhere
  <2>12. v \notin X => Holds(n, e, r)
    BY <2>6, <2>10, <2>11 DEF Holds
  <2>13. Good(n, e, X)
    <3>1. n \in Machine /\ n.mem = j.mem /\ (n.reg[r].modified => n.reg[r].dirty)
      BY <2>9, <2>10, <2>11
    <3>. QED BY <2>2, <2>5, <2>10, <2>11, <2>12, <3>1, CacheKeepsGood
  <2>. QED BY <2>2, <2>3, <2>4, <2>6, <2>10, <2>11, <2>13 DEF Delivers, Quietly, Uncached
<1>. QED BY <1>1, <1>2
-----------------------------------------------------------------------------
(* Steps that touch every register *)

\* Before a jump every changed variable goes to memory, and nothing is cached.
LEMMA SaveAndClearShape ==
    ASSUME NEW mm, NEW e, Good(mm, e, {})
    PROVE  /\ Good(SaveAndClear(mm), e, {})
           /\ \A r \in Reg : SaveAndClear(mm).reg[r].locked = mm.reg[r].locked
<1>. DEFINE n == SaveAndClear(mm)
            stores(v) == {i \in DOMAIN AllRegs :
                             MustStore(mm, AllRegs[i]) /\ mm.reg[AllRegs[i]].var = v}
            last(v) == CHOOSE i \in stores(v) : \A j \in stores(v) : j <= i
            cleared(r) == [mm.reg[r] EXCEPT !.dirty = FALSE, !.modified = FALSE,
                                            !.var = NoVar, !.node = 0]
            word(v) == IF stores(v) = {} THEN mm.mem[v]
                       ELSE mm.reg[AllRegs[last(v)]].content
<1>0. /\ mm \in Machine /\ CachedOnce(mm) /\ NoVar \notin Vars /\ 0 \in 0 .. MaxDepth + 1
      /\ \A r \in Reg : mm.reg[r] \in RegState
  BY MachineAssumption DEF Good, Machine
<1>1. n = [reg |-> [r \in Reg |-> cleared(r)], mem |-> [v \in Vars |-> word(v)]]
  BY DEF SaveAndClear
<1>2. ASSUME NEW r \in Reg
      PROVE  /\ cleared(r) \in RegState /\ cleared(r).var = NoVar
             /\ ~cleared(r).modified /\ cleared(r).locked = mm.reg[r].locked
  BY <1>0 DEF RegState
<1>3. ASSUME NEW v \in Vars, NEW i \in stores(v)
      PROVE  /\ last(v) = i /\ AllRegs[i] \in Reg
             /\ mm.reg[AllRegs[i]].content = e[v] /\ e[v] \in Val
  <2>1. AllRegs[i] \in Reg /\ mm.reg[AllRegs[i]].var = v /\ i \in Nat
    BY AllRegsShape
  <2>2. ASSUME NEW j \in stores(v) PROVE j = i
    <3>1. AllRegs[j] \in Reg /\ mm.reg[AllRegs[j]].var = v
      BY AllRegsShape
    <3>2. AllRegs[j] = AllRegs[i]
      BY <1>0, <2>1, <3>1 DEF CachedOnce
    <3>. QED BY <3>2, AllRegsShape
  <2>3. last(v) = i
    <3>1. \A j \in stores(v) : j <= i
      BY <2>1, <2>2
    <3>2. last(v) \in stores(v)
      BY <3>1
    <3>. HIDE DEF stores, last
    <3>. QED BY <2>2, <3>2
  <2>4. mm.reg[AllRegs[i]].content = e[v]
    BY <2>1 DEF Good, Holds
  <2>5. e[v] \in Val
    BY <1>0, <2>1, <2>4 DEF RegState
  <2>. HIDE DEF last
  <2>. QED BY <2>1, <2>3, <2>4, <2>5
<1>4. ASSUME NEW v \in Vars PROVE word(v) = e[v] /\ word(v) \in Val
  <2>1. CASE stores(v) # {}
    <3>1. PICK i \in stores(v) : TRUE
      BY <2>1
    <3>2. /\ last(v) = i /\ AllRegs[i] \in Reg
          /\ mm.reg[AllRegs[i]].content = e[v] /\ e[v] \in Val
      BY <1>3
    <3>3. word(v) = mm.reg[AllRegs[last(v)]].content
      BY <2>1
    <3>. HIDE DEF word, last
    <3>. QED BY <3>2, <3>3
  <2>2. CASE stores(v) = {}
    <3>1. word(v) = mm.mem[v]
      BY <2>2
    <3>2. mm.mem[v] = e[v]
      <4>1. CASE \E r \in Reg : mm.reg[r].var = v
        <5>1. PICK r \in Reg : mm.reg[r].var = v
          BY <4>1
        <5>2. PICK i \in DOMAIN AllRegs : AllRegs[i] = r
          BY AllRegsShape
        <5>3. ~mm.reg[r].modified
          BY <1>0, <2>2, <5>1, <5>2 DEF MustStore
        <5>. QED BY <5>1, <5>3 DEF Good, Holds
      <4>2. CASE ~\E r \in Reg : mm.reg[r].var = v
        BY <4>2 DEF Good
      <4>. QED BY <4>1, <4>2
    <3>3. mm.mem[v] \in Val
      BY <1>0 DEF Machine
    <3>. HIDE DEF word
    <3>. QED BY <3>1, <3>2, <3>3
  <2>. QED BY <2>1, <2>2
<1>. HIDE DEF cleared, word
<1>5. /\ n \in Machine
      /\ \A r \in Reg : n.reg[r] = cleared(r)
      /\ \A v \in Vars : n.mem[v] = word(v)
  <2>. HIDE DEF n
  <2>. QED BY <1>1, <1>2, <1>4 DEF Machine
<1>. HIDE DEF n
<1>6. Good(n, e, {})
  BY <1>0, <1>2, <1>4, <1>5 DEF Good, CachedOnce
<1>. QED BY <1>2, <1>5, <1>6 DEF n

\* A call leaves the callee-saved registers and memory alone, and forgets only
\* registers that cache no variable.
LEMMA ClearRegRecordShape ==
    ASSUME NEW mm, NEW e, Good(mm, e, {}), NEW junk \in Val
    PROVE  /\ Good(ClearRegRecord(mm, junk), e, {})
           /\ ClearRegRecord(mm, junk).mem = mm.mem
           /\ \A r \in Reg : ClearRegRecord(mm, junk).reg[r].locked = mm.reg[r].locked
<1>. DEFINE n == ClearRegRecord(mm, junk)
            f(r) == IF r \in Caller
                    THEN [mm.reg[r] EXCEPT !.content = junk, !.dirty = FALSE,
                              !.modified = FALSE, !.var = NoVar, !.node = 0]
                    ELSE mm.reg[r]
<1>0. /\ mm \in Machine /\ CachedOnce(mm) /\ NoVar \notin Vars /\ 0 \in 0 .. MaxDepth + 1
      /\ \A r \in Reg : mm.reg[r] \in RegState
  BY MachineAssumption DEF Good, Machine
<1>1. n = [mm EXCEPT !.reg = [r \in Reg |-> f(r)]]
  BY DEF ClearRegRecord
<1>2. ASSUME NEW r \in Reg
      PROVE  /\ f(r) \in RegState /\ f(r).var = mm.reg[r].var
             /\ f(r).locked = mm.reg[r].locked
             /\ f(r).modified => f(r).dirty
             /\ r \notin Caller => f(r) = mm.reg[r]
             /\ r \in Caller => f(r).var = NoVar
  <2>1. CASE r \in Caller
    <3>1. mm.reg[r].var = NoVar
      BY <1>0, <2>1, PoolShape DEF CachedOnce
    <3>. QED BY <1>0, <2>1, <3>1 DEF RegState
  <2>2. CASE r \notin Caller
    BY <1>0, <2>2 DEF Good
  <2>. QED BY <2>1, <2>2
<1>. HIDE DEF f
<1>3. n \in Machine /\ n.mem = mm.mem /\ \A r \in Reg : n.reg[r] = f(r)
  <2>. HIDE DEF n
  <2>. QED BY <1>0, <1>1, <1>2 DEF Machine
<1>. HIDE DEF n
<1>4. CachedOnce(n)
  BY <1>0, <1>2, <1>3 DEF CachedOnce
<1>5. ASSUME NEW r \in Reg, n.reg[r].var \in Vars PROVE n.reg[r] = mm.reg[r]
  BY <1>0, <1>2, <1>3, <1>5
<1>6. Good(n, e, {})
  BY <1>2, <1>3, <1>4, <1>5 DEF Good, Holds
<1>. QED BY <1>2, <1>3, <1>6 DEF n
=============================================================================
