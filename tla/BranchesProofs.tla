--------------------------- MODULE BranchesProofs ---------------------------
(***************************************************************************)
(* Proofs about Conditionals and Assembler.  Where the ways through a      *)
(* function meet, the records of the registers are right whichever way the *)
(* run came, if no conditional has an else-part and none is met with an    *)
(* initialised local still in its register: for any nesting, registers,    *)
(* variables and words.  For any names and any program, a reference ends   *)
(* at the definition that the files' scopes give it; and, for words of any *)
(* size and any text, the code made for it arrives there.                  *)
(***************************************************************************)
EXTENDS FramesProofs, RegistersProofs


-----------------------------------------------------------------------------
(* A machine beside the run *)

\* The records of the registers are well formed, whatever the contents.
WellRecorded(mm) ==
    /\ mm \in Machine /\ CachedOnce(mm)
    /\ \A r \in Reg : mm.reg[r].modified => mm.reg[r].dirty

\* No register caches a variable.
Forgotten(mm) == \A r \in Reg : mm.reg[r].var = NoVar

\* The machine is fit for a run that executes the code, or one that does not.
FitFor(on, mm, e) == IF on THEN Good(mm, e, {}) ELSE WellRecorded(mm) /\ mm.mem = e

\* The machine is fit for both.
Settled(mm, e) == WellRecorded(mm) /\ Forgotten(mm) /\ mm.mem = e

LEMMA RecordedIsGood ==
    ASSUME NEW mm, NEW e
    PROVE  WellRecorded(mm) <=> Good(mm, e, Vars)
BY DEF WellRecorded, Good

LEMMA GoodIsRecorded ==
    ASSUME NEW mm, NEW e, NEW X, Good(mm, e, X)
    PROVE  WellRecorded(mm)
BY DEF WellRecorded, Good

LEMMA FitsIsRecorded ==
    ASSUME NEW on, NEW mm, NEW e, FitFor(on, mm, e)
    PROVE  WellRecorded(mm) /\ mm \in Machine
BY GoodIsRecorded DEF FitFor, WellRecorded

LEMMA SettledFits ==
    ASSUME NEW mm, NEW e, Settled(mm, e), NEW on
    PROVE  FitFor(on, mm, e)
BY MachineAssumption DEF Settled, FitFor, WellRecorded, Forgotten, Good

\* With nothing to be stored memory has every variable.
LEMMA StoredGood ==
    ASSUME NEW mm, NEW e \in [Vars -> Val], Good(mm, e, {}),
           \A r \in Reg : mm.reg[r].var \in Vars => ~mm.reg[r].modified
    PROVE  mm.mem = e
<1>1. ASSUME NEW v \in Vars PROVE mm.mem[v] = e[v]
  BY <1>1 DEF Good, Holds
<1>2. mm.mem \in [Vars -> Val]
  BY DEF Good, Machine
<1>. QED BY <1>1, <1>2

LEMMA ForgottenGood ==
    ASSUME NEW mm, NEW e \in [Vars -> Val], Good(mm, e, {}), Forgotten(mm)
    PROVE  Settled(mm, e)
BY StoredGood, GoodIsRecorded, MachineAssumption DEF Settled, Forgotten

\* Code that is not executed changes the records only.
LEMMA SkippedShape ==
    ASSUME NEW a \in Machine, NEW b, b.reg \in [Reg -> RegState]
    PROVE  LET n == Executed(FALSE, a, b) IN
           /\ n \in Machine /\ n.mem = a.mem
           /\ \A r \in Reg : /\ n.reg[r].var = b.reg[r].var
                             /\ n.reg[r].dirty = b.reg[r].dirty
                             /\ n.reg[r].modified = b.reg[r].modified
<1>. DEFINE f(r) == [b.reg[r] EXCEPT !.content = a.reg[r].content]
            n == Executed(FALSE, a, b)
<1>1. ASSUME NEW r \in Reg
      PROVE  /\ f(r) \in RegState /\ f(r).var = b.reg[r].var
             /\ f(r).dirty = b.reg[r].dirty /\ f(r).modified = b.reg[r].modified
  BY DEF Machine, RegState
<1>2. n = [reg |-> [r \in Reg |-> f(r)], mem |-> a.mem]
  BY DEF Executed
<1>. HIDE DEF f, n
<1>3. n \in Machine /\ n.mem = a.mem /\ \A r \in Reg : n.reg[r] = f(r)
  BY <1>1, <1>2 DEF Machine
<1>. QED BY <1>1, <1>3 DEF n

LEMMA SkippedKeeps ==
    ASSUME NEW a \in Machine, NEW b, WellRecorded(b)
    PROVE  WellRecorded(Executed(FALSE, a, b)) /\ Executed(FALSE, a, b).mem = a.mem
<1>. DEFINE n == Executed(FALSE, a, b)
<1>1. /\ n \in Machine /\ n.mem = a.mem
      /\ \A r \in Reg : /\ n.reg[r].var = b.reg[r].var
                        /\ n.reg[r].dirty = b.reg[r].dirty
                        /\ n.reg[r].modified = b.reg[r].modified
  BY SkippedShape DEF WellRecorded, Machine
<1>. HIDE DEF n
<1>2. WellRecorded(n)
  BY <1>1 DEF WellRecorded, CachedOnce
<1>. QED BY <1>1, <1>2 DEF n

\* Code from machine a to machine b, both fit, leaves the run fit.
LEMMA ExecutedFits ==
    ASSUME NEW on \in BOOLEAN, NEW a, NEW b, NEW e, NEW f, FitFor(on, a, e),
           on => Good(b, f, {}), WellRecorded(b), ~on => f = e
    PROVE  FitFor(on, Executed(on, a, b), f)
<1>1. CASE on
  BY <1>1 DEF Executed, FitFor
<1>2. CASE ~on
  <2>1. WellRecorded(Executed(FALSE, a, b)) /\ Executed(FALSE, a, b).mem = a.mem
    BY FitsIsRecorded, SkippedKeeps
  <2>. QED BY <1>2, <2>1 DEF FitFor
<1>. QED BY <1>1, <1>2

-----------------------------------------------------------------------------
(* What the generator does at every point *)

LEMMA ClearsRecords ==
    ASSUME NEW mm \in Machine
    PROVE  /\ SaveAndClear(mm).reg \in [Reg -> RegState]
           /\ \A r \in Reg : /\ SaveAndClear(mm).reg[r].var = NoVar
                             /\ ~SaveAndClear(mm).reg[r].modified
<1>. DEFINE f(r) == [mm.reg[r] EXCEPT !.dirty = FALSE, !.modified = FALSE,
                                      !.var = NoVar, !.node = 0]
<1>0. 0 \in 0 .. MaxDepth + 1 /\ NoVar \in Vars \cup {NoVar}
  BY MachineAssumption
<1>1. ASSUME NEW r \in Reg PROVE f(r) \in RegState /\ f(r).var = NoVar /\ ~f(r).modified
  BY <1>0 DEF Machine, RegState
<1>2. SaveAndClear(mm).reg = [r \in Reg |-> f(r)]
  BY DEF SaveAndClear
<1>. HIDE DEF f
<1>. QED BY <1>1, <1>2

\* saveAndClear brings a run and one that goes past it to the same records and
\* the same memory.
LEMMA ClearingSettles ==
    ASSUME NEW on \in BOOLEAN, NEW a, NEW b, NEW e \in [Vars -> Val],
           ~on => FitFor(FALSE, a, e), b \in Machine, on => Good(b, e, {})
    PROVE  Settled(Executed(on, a, SaveAndClear(b)), e)
<1>. DEFINE c == SaveAndClear(b)
<1>1. /\ c.reg \in [Reg -> RegState]
      /\ \A r \in Reg : c.reg[r].var = NoVar /\ ~c.reg[r].modified
  BY ClearsRecords
<1>2. on => Good(c, e, {})
  BY SaveAndClearShape
<1>. HIDE DEF c
<1>3. CASE on
  BY <1>1, <1>2, <1>3, ForgottenGood DEF Executed, Forgotten, c
<1>4. CASE ~on
  <2>. DEFINE n == Executed(FALSE, a, c)
  <2>1. a \in Machine /\ a.mem = e
    BY <1>4 DEF FitFor, WellRecorded
  <2>2. /\ n \in Machine /\ n.mem = a.mem
        /\ \A r \in Reg : /\ n.reg[r].var = c.reg[r].var
                          /\ n.reg[r].modified = c.reg[r].modified
    BY <1>1, <2>1, SkippedShape
  <2>. HIDE DEF n
  <2>3. Settled(n, e)
    BY <1>1, <2>1, <2>2 DEF Settled, WellRecorded, Forgotten, CachedOnce
  <2>. QED BY <1>4, <2>3 DEF n, c
<1>. QED BY <1>3, <1>4

LEMMA PartsFit ==
    ASSUME NEW on, NEW mm, NEW e, FitFor(on, mm, e), NEW p \in Parts(mm)
    PROVE  WellRecorded(p) /\ (on => Good(p, e, {}))
<1>0. Good(mm, e, Vars) /\ 1 \in 0 .. MaxDepth + 1
  BY FitsIsRecorded, RecordedIsGood, MachineAssumption
<1>1. CASE p = mm
  BY <1>1, FitsIsRecorded DEF FitFor
<1>2. CASE p # mm
  <2>1. PICK a \in NewTemp(mm, CalleePool, 1) : p = a.m
    BY <1>2 DEF Parts
  <2>2. Good(p, e, Vars)
    BY <1>0, <2>1, NewTempShape
  <2>3. on => Good(p, e, {})
    BY <1>0, <2>1, NewTempShape DEF FitFor
  <2>. QED BY <2>2, <2>3, RecordedIsGood
<1>. QED BY <1>1, <1>2

\* Looking a variable up for its value keeps the records, whatever is in them.
LEMMA LookUpRecorded ==
    ASSUME NEW mm, WellRecorded(mm), NEW v \in Vars, NEW a \in VarReg(mm, v, TRUE)
    PROVE  WellRecorded(a.m) /\ a.r \in Reg /\ a.m.reg[a.r].var = v
<1>1. CASE Fitting(mm, v) # {}
  <2>1. a.m = mm /\ a.r \in Fitting(mm, v)
    BY <1>1 DEF VarReg
  <2>. QED BY <2>1, FittingShape DEF WellRecorded
<1>2. CASE Fitting(mm, v) = {}
  <2>1. Good(mm, mm.mem, Vars \ {v})
    BY <1>2, FittingShape DEF Good, WellRecorded
  <2>. DEFINE X == Vars \ {v}
  <2>2. v \notin X
    OBVIOUS
  <2>. HIDE DEF X
  <2>3. Good(a.m, mm.mem, X) /\ Delivers(mm, v, a)
    BY <2>1, <2>2, VarRegShape DEF X
  <2>. QED BY <2>3, GoodIsRecorded DEF Delivers
<1>. QED BY <1>1, <1>2

LEMMA LookUpFits ==
    ASSUME NEW on, NEW mm, NEW e, FitFor(on, mm, e), NEW v \in Vars,
           NEW a \in VarReg(mm, v, TRUE)
    PROVE  /\ WellRecorded(a.m) /\ a.r \in Reg /\ a.m.reg[a.r].var = v
           /\ on => Good(a.m, e, {}) /\ Delivers(mm, v, a)
<1>1. WellRecorded(a.m) /\ a.r \in Reg /\ a.m.reg[a.r].var = v
  BY FitsIsRecorded, LookUpRecorded
<1>2. ASSUME on PROVE Good(a.m, e, {}) /\ Delivers(mm, v, a)
  <2>. DEFINE X == {}
  <2>1. Good(mm, e, X) /\ v \notin X
    BY <1>2 DEF FitFor
  <2>. HIDE DEF X
  <2>2. Good(a.m, e, X) /\ Delivers(mm, v, a)
    BY <2>1, VarRegShape
  <2>. QED BY <2>2 DEF X
<1>. QED BY <1>1, <1>2

\* With nothing modified no register has to be stored for it.
LEMMA LookUpStoresNothing ==
    ASSUME NEW mm \in Machine, \A r \in Reg : ~mm.reg[r].modified,
           NEW v \in Vars, NEW a \in VarReg(mm, v, TRUE)
    PROVE  a.m.mem = mm.mem
<1>1. CASE Fitting(mm, v) # {}
  BY <1>1 DEF VarReg
<1>2. CASE Fitting(mm, v) = {}
  <2>1. PICK b \in FindVacant(mm, CalleePool) :
            a.m = SetTargetVar(LoadValue(b.m, b.r, b.m.mem[v]), b.r, v)
    BY <1>2 DEF VarReg
  <2>2. \A i \in DOMAIN CalleePool : CalleePool[i] \in Reg
    BY PoolRange
  <2>3. Unlocked(mm, CalleePool) \subseteq {i \in Unlocked(mm, CalleePool) :
                                               ~mm.reg[CalleePool[i]].modified}
    BY <2>2 DEF Unlocked
  <2>4. ASSUME NEW i, b = [m |-> mm, r |-> i] PROVE b.m = mm
    BY <2>4
  <2>5. \E i : b = [m |-> mm, r |-> i]
    BY <2>3 DEF FindVacant
  <2>. QED BY <2>1, <2>4, <2>5 DEF SetTargetVar, LoadValue, Machine
<1>. QED BY <1>1, <1>2
-----------------------------------------------------------------------------
(* An assignment *)

\* The value is in register r, the variable has register s.
LEMMA AssignedStored ==
    ASSUME NEW mm, NEW e, NEW f, NEW v \in Vars, NEW s \in Reg, NEW r \in Reg,
           Good(mm, e, {v}), mm.reg[s].var = v,
           f[v] = mm.reg[r].content, OnlyAt(v, e, f),
           s = r => mm.reg[s].modified \/ mm.mem[v] = f[v]
    PROVE  Good(Lock(Save(LoadReg(mm, s, r), s), r, FALSE), f, {})
<1>. DEFINE n == LoadReg(mm, s, r)  k == Save(n, s)
<1>1. Good(n, f, {}) /\ n.reg[s].var = v
  BY LoadRegKeepsGood
<1>. HIDE DEF n
<1>2. Good(k, f, {})
  BY <1>1, MachineAssumption, SaveKeepsGood
<1>. HIDE DEF k
<1>3. Good(Lock(k, r, FALSE), f, {})
  BY <1>2, LockKeepsGood
<1>. QED BY <1>3 DEF k, n

\* Without a run the records are those of a register that is loaded, or was.
LEMMA LoadingRecorded ==
    ASSUME NEW mm, WellRecorded(mm), NEW s \in Reg, NEW r \in Reg
    PROVE  WellRecorded(LoadReg(mm, s, r)) /\ LoadReg(mm, s, r).reg[s].var = mm.reg[s].var
<1>1. CASE s = r
  BY <1>1 DEF LoadReg
<1>2. CASE s # r
  <2>. DEFINE c == mm.reg[r].content  n == Operand(mm, s, c)
  <2>1. c \in Val
    BY DEF WellRecorded, Machine, RegState
  <2>2. /\ n \in Machine /\ Elsewhere(mm, n, s) /\ n.reg[s].var = mm.reg[s].var
        /\ n.reg[s].dirty
    BY <2>1, OperandShape DEF WellRecorded, SameTarget
  <2>3. LoadReg(mm, s, r) = n
    BY <1>2 DEF LoadReg
  <2>. HIDE DEF n
  <2>4. WellRecorded(n)
    BY <2>2 DEF WellRecorded, CachedOnce, Elsewhere
  <2>. QED BY <2>2, <2>3, <2>4
<1>. QED BY <1>1, <1>2

LEMMA AssigningRecorded ==
    ASSUME NEW mm, WellRecorded(mm), NEW v \in Vars, NEW r \in Reg,
           NEW left \in VarReg(Lock(mm, r, TRUE), v, FALSE)
    PROVE  WellRecorded(Lock(Save(LoadReg(left.m, left.r, r), left.r), r, FALSE))
<1>. DEFINE e == mm.mem  X == Vars  k == Lock(mm, r, TRUE)  l == left.m  s == left.r
            n == LoadReg(l, s, r)  p == Save(n, s)  q == Lock(p, r, FALSE)
<1>1. Good(k, e, X) /\ v \in X
  BY RecordedIsGood, LockKeepsGood
<1>. HIDE DEF e, X, k
<1>2. Good(l, e, X) /\ Delivers(k, v, left)
  BY <1>1, VarRegShape DEF k
<1>3. s \in Reg /\ l.reg[s].var = v
  BY <1>2 DEF Delivers
<1>. HIDE DEF l, s
<1>4. Good(n, e, X) /\ n.reg[s].var = v
  BY <1>2, <1>3, RecordedIsGood, LoadingRecorded DEF X
<1>. HIDE DEF n
<1>5. Good(p, e, X)
  BY <1>3, <1>4, MachineAssumption, SaveKeepsGood
<1>. HIDE DEF p
<1>6. Good(q, e, X)
  BY <1>5, LockKeepsGood
<1>7. WellRecorded(q)
  BY <1>6, RecordedIsGood DEF X
<1>. QED BY <1>7 DEF q, p, n, l, s

\* Register r, which is locked meanwhile, goes to the register of v, then to
\* memory.  Its value is that of v from there on.
LEMMA AssigningKeepsGood ==
    ASSUME NEW mm, NEW e, NEW f, Good(mm, e, {}), NEW v \in Vars, NEW r \in Reg,
           f[v] = mm.reg[r].content, OnlyAt(v, e, f),
           NEW left \in VarReg(Lock(mm, r, TRUE), v, FALSE)
    PROVE  Good(Lock(Save(LoadReg(left.m, left.r, r), left.r), r, FALSE), f, {})
<1>. DEFINE k == Lock(mm, r, TRUE)  X == {v}  l == left.m  s == left.r
<1>1. Good(k, e, {}) /\ LockAside(mm, k, r) /\ k.reg[r].locked
  BY LockKeepsGood
<1>2. Good(k, e, X) /\ v \in X
  BY <1>1, WeakenGood
<1>. HIDE DEF k, X
<1>3. Good(l, e, X) /\ Delivers(k, v, left)
  BY <1>2, VarRegShape DEF k
<1>. DEFINE q == Lock(Save(LoadReg(l, s, r), s), r, FALSE)
<1>. SUFFICES Good(q, f, {})
  OBVIOUS
<1>. HIDE DEF l, s
<1>4. CASE s = r
  <2>1. l = k /\ k.reg[r].var = v
    BY <1>1, <1>3, <1>4 DEF Delivers, Quietly, l, s
  <2>2. Holds(k, e, r)
    BY <1>1, <2>1 DEF Good
  <2>3. f[v] = k.reg[r].content
    BY <1>1 DEF LockAside
  <2>4. k.reg[r].modified \/ k.mem[v] = f[v]
    BY <2>1, <2>2, <2>3 DEF Holds
  <2>. QED BY <1>3, <1>4, <2>1, <2>3, <2>4, AssignedStored DEF X
<1>5. CASE s # r
  <2>1. l.reg[r] = k.reg[r] /\ l.reg[s].var = v /\ s \in Reg
    BY <1>3, <1>5 DEF Delivers, Quietly, Elsewhere, l, s
  <2>2. f[v] = l.reg[r].content
    BY <1>1, <2>1 DEF LockAside
  <2>. QED BY <1>3, <1>5, <2>1, <2>2, AssignedStored DEF X
<1>. QED BY <1>4, <1>5

-----------------------------------------------------------------------------
(* The inductive invariant *)

Statement == [kind : {"if", "else", "for"}, before : BOOLEAN, var : Vars,
              again : {<<>>} \cup [reg : Reg]]

\* A statement is not inside an else-part, and the run reaches the outermost one.
Nested(o) ==
    /\ o \in Seq(Statement)
    /\ \A i \in 1 .. Len(o) : o[i].kind = "for" => o[i].again \in [reg : Reg]
    /\ \A i \in 1 .. Len(o) : i < Len(o) => o[i].kind # "else"
    /\ o # <<>> => o[1].before

InElse(o) == o # <<>> /\ Last(o).kind = "else"

JoinInv ==
    /\ env \in [Vars -> Val] /\ live \in BOOLEAN
    /\ FitFor(live, m, env)
    /\ Nested(open)
    /\ open = <<>> => live
    /\ InElse(open) => Forgotten(m)

\* No conditional of the program has an else-part, none is met with a changed
\* register.
Plainly == "else" \notin Allowed /\ "init" \notin Allowed

LEMMA NestedEnter ==
    ASSUME NEW o, Nested(o), ~InElse(o), NEW v \in Vars,
           NEW kind \in {"if", "for"}, NEW before \in BOOLEAN, o = <<>> => before,
           NEW again \in {<<>>} \cup [reg : Reg], kind = "for" => again \in [reg : Reg]
    PROVE  LET n == Append(o, [kind |-> kind, before |-> before, var |-> v, again |-> again]) IN
           Nested(n) /\ n # <<>> /\ ~InElse(n)
<1>. DEFINE s == [kind |-> kind, before |-> before, var |-> v, again |-> again]
            n == Append(o, s)
<1>1. /\ s \in Statement /\ s.kind = kind /\ s.before = before /\ s.again = again
      /\ o \in Seq(Statement)
  BY DEF Statement, Nested
<1>. HIDE DEF s
<1>2. /\ n \in Seq(Statement) /\ Len(n) = Len(o) + 1 /\ Len(o) \in Nat
      /\ \A i \in 1 .. Len(o) : n[i] = o[i]
      /\ n[Len(o) + 1] = s
  BY <1>1, AppendProperties, LenProperties
<1>. HIDE DEF n
<1>3. n # <<>> /\ Last(n) = s
  BY <1>2 DEF Last
<1>4. ASSUME NEW i \in 1 .. Len(n)
      PROVE  /\ n[i].kind = "for" => n[i].again \in [reg : Reg]
             /\ i < Len(n) => n[i].kind # "else"
  <2>1. CASE i = Len(o) + 1
    BY <1>1, <1>2, <2>1
  <2>2. CASE i # Len(o) + 1
    <3>1. i \in 1 .. Len(o) /\ n[i] = o[i]
      BY <1>2, <2>2
    <3>2. i < Len(o) => o[i].kind # "else"
      BY <3>1 DEF Nested
    <3>3. i = Len(o) => Last(o) = o[i] /\ o # <<>>
      BY <1>1, <3>1 DEF Last
    <3>. QED BY <1>2, <3>1, <3>2, <3>3 DEF Nested, InElse
  <2>. QED BY <2>1, <2>2
<1>5. n[1].before
  <2>1. CASE o = <<>>
    <3>1. Len(o) = 0
      BY <2>1, EmptySeq
    <3>2. n[1] = s
      BY <1>2, <3>1
    <3>. QED BY <1>1, <2>1, <3>2
  <2>2. CASE o # <<>>
    <3>1. 1 \in 1 .. Len(o)
      BY <1>1, <2>2, EmptySeq
    <3>. QED BY <1>2, <2>2, <3>1 DEF Nested
  <2>. QED BY <2>1, <2>2
<1>6. Nested(n)
  BY <1>2, <1>4, <1>5 DEF Nested
<1>7. ~InElse(n)
  BY <1>1, <1>3 DEF InElse
<1>. QED BY <1>3, <1>6, <1>7 DEF n, s

LEMMA NestedLeave ==
    ASSUME NEW o, Nested(o), o # <<>>
    PROVE  /\ Nested(Front(o)) /\ ~InElse(Front(o))
           /\ Last(o) \in Statement
           /\ Last(o).kind = "for" => Last(o).again \in [reg : Reg]
           /\ Front(o) = <<>> => Last(o).before
<1>. DEFINE n == Front(o)
<1>1. o \in Seq(Statement) /\ Len(o) \in Nat /\ Len(o) > 0
  BY EmptySeq, LenProperties DEF Nested
<1>2. /\ n \in Seq(Statement) /\ Len(n) = Len(o) - 1
      /\ \A i \in 1 .. Len(n) : n[i] = o[i]
  <2>1. \A i \in 1 .. Len(o) - 1 : o[i] \in Statement
    BY <1>1, ElementOfSeq
  <2>. DEFINE k == Len(o) - 1
  <2>2. k \in Int /\ 1 \in Int /\ k >= 0 /\ k - 1 + 1 = k
    BY <1>1
  <2>3. n = SubSeq(o, 1, k)
    BY DEF Front
  <2>. HIDE DEF k, n
  <2>4. /\ n \in Seq(Statement) /\ Len(n) = IF 1 <= k THEN k - 1 + 1 ELSE 0
        /\ \A i \in 1 .. k - 1 + 1 : n[i] = o[1 + i - 1]
    BY <2>1, <2>2, <2>3, SubSeqProperties DEF k
  <2>5. Len(n) = k
    BY <2>2, <2>4
  <2>6. ASSUME NEW i \in 1 .. k PROVE n[i] = o[i]
    <3>1. i \in 1 .. k - 1 + 1 /\ 1 + i - 1 = i
      BY <2>2
    <3>. QED BY <2>4, <3>1
  <2>. QED BY <2>4, <2>5, <2>6 DEF k
<1>. HIDE DEF n
<1>3. Last(o) = o[Len(o)] /\ Last(o) \in Statement
  BY <1>1 DEF Last
<1>4. \A i \in 1 .. Len(n) : n[i].kind # "else" /\ (n[i].kind = "for" => n[i].again \in [reg : Reg])
  BY <1>1, <1>2 DEF Nested
<1>5. n # <<>> => Len(n) \in 1 .. Len(n) /\ Last(n) = n[Len(n)] /\ n[1] = o[1]
  BY <1>1, <1>2, EmptySeq DEF Last
<1>6. Nested(n) /\ ~InElse(n)
  BY <1>2, <1>4, <1>5 DEF Nested, InElse
<1>7. n = <<>> => Last(o).before
  <2>1. ASSUME n = <<>> PROVE Len(o) = 1
    BY <1>1, <1>2, <2>1, EmptySeq
  <2>. QED BY <1>3, <2>1 DEF Nested
<1>8. Last(o).kind = "for" => Last(o).again \in [reg : Reg]
  BY <1>1, <1>3 DEF Nested
<1>. QED BY <1>3, <1>6, <1>7, <1>8 DEF n

LEMMA NestedElse ==
    ASSUME NEW o, Nested(o), o # <<>>
    PROVE  LET n == [o EXCEPT ![Len(o)].kind = "else"] IN Nested(n) /\ n # <<>>
<1>. DEFINE k == Len(o)  s == [o[k] EXCEPT !.kind = "else"]  n == [o EXCEPT ![k] = s]
<1>1. o \in Seq(Statement) /\ k \in Nat /\ k > 0 /\ k \in 1 .. k /\ o[k] \in Statement
  BY EmptySeq, LenProperties DEF Nested
<1>2. s \in Statement /\ s.kind = "else" /\ s.before = o[k].before
  BY <1>1 DEF Statement
<1>3. [o EXCEPT ![Len(o)].kind = "else"] = n
  OBVIOUS
<1>. HIDE DEF s
<1>4. /\ n \in Seq(Statement) /\ Len(n) = k /\ n[k] = s
      /\ \A i \in 1 .. k : i # k => n[i] = o[i]
  BY <1>1, <1>2
<1>. HIDE DEF n
<1>5. \A i \in 1 .. Len(n) : i < Len(n) => n[i].kind # "else"
  BY <1>1, <1>4 DEF Nested
<1>6. \A i \in 1 .. Len(n) : n[i].kind = "for" => n[i].again \in [reg : Reg]
  BY <1>1, <1>2, <1>4 DEF Nested
<1>7. n[1].before
  BY <1>1, <1>2, <1>4 DEF Nested
<1>8. Nested(n) /\ n # <<>>
  BY <1>1, <1>4, <1>5, <1>6, <1>7 DEF Nested
<1>. QED BY <1>3, <1>8 DEF n

\* The end of an assignment of the value of register right.r.
LEMMA FinishedFits ==
    ASSUME env \in [Vars -> Val], live \in BOOLEAN, FitFor(live, m, env),
           NEW right, NEW v \in Vars, Finished(right, v),
           right.r \in Reg, WellRecorded(right.m), live => Good(right.m, env, {}),
           env' = IF live THEN [env EXCEPT ![v] = right.m.reg[right.r].content] ELSE env
    PROVE  FitFor(live, m', env')
<1>1. PICK left \in VarReg(Lock(right.m, right.r, TRUE), v, FALSE) :
          m' = Executed(live, m, Lock(Save(LoadReg(left.m, left.r, right.r), left.r), right.r, FALSE))
  BY DEF Finished
<1>. DEFINE n == Lock(Save(LoadReg(left.m, left.r, right.r), left.r), right.r, FALSE)
<1>2. WellRecorded(n)
  BY AssigningRecorded
<1>3. ASSUME live PROVE Good(n, env', {})
  <2>1. /\ env'[v] = right.m.reg[right.r].content
        /\ OnlyAt(v, env, env')
    BY <1>3 DEF OnlyAt
  <2>. QED BY <1>3, <2>1, AssigningKeepsGood
<1>4. m' = Executed(live, m, n)
  BY <1>1
<1>. HIDE DEF n
<1>. QED BY <1>2, <1>3, <1>4, ExecutedFits

LEMMA JoinInit == Start => JoinInv
<1>. SUFFICES ASSUME CondInit PROVE JoinInv
  BY DEF Start
<1>1. env \in [Vars -> Val] /\ live = TRUE /\ open = <<>>
  BY DEF CondInit
<1>2. /\ m.reg \in [Reg -> RegState] /\ m.mem = env
      /\ m = [reg |-> m.reg, mem |-> m.mem]
      /\ \A r \in Reg : m.reg[r].var = NoVar /\ ~m.reg[r].modified
  BY DEF CondInit
<1>3. m \in Machine
  BY <1>1, <1>2 DEF Machine
<1>4. Settled(m, env)
  BY <1>2, <1>3 DEF Settled, WellRecorded, CachedOnce, Forgotten
<1>5. Nested(open)
  BY <1>1, EmptySeq DEF Nested
<1>. QED BY <1>1, <1>4, <1>5, SettledFits DEF JoinInv, InElse

LEMMA BodyIsNoElse ==
    ASSUME Plainly, InBody
    PROVE  ~InElse(open)
BY DEF Plainly, InBody, InElse, Innermost

\* A statement without a branch.
LEMMA StraightStep ==
    ASSUME JoinInv, ~InElse(open), UNCHANGED <<live, open>>,
           env' \in [Vars -> Val], FitFor(live, m', env')
    PROVE  JoinInv'
BY DEF JoinInv

LEMMA CopyStep == ASSUME JoinInv, Plainly, NEW v \in Vars, NEW w \in Vars, Copy(v, w) PROVE JoinInv'
<1>0. /\ env \in [Vars -> Val] /\ live \in BOOLEAN /\ FitFor(live, m, env)
      /\ ~InElse(open) /\ UNCHANGED <<live, open>>
  BY BodyIsNoElse DEF JoinInv, Copy
<1>1. PICK right \in VarReg(m, w, TRUE) : Finished(right, v)
  BY DEF Copy
<1>2. /\ WellRecorded(right.m) /\ right.r \in Reg /\ right.m.reg[right.r].var = w
      /\ live => Good(right.m, env, {})
  <2>1. WellRecorded(right.m) /\ right.r \in Reg /\ right.m.reg[right.r].var = w
    BY <1>0, FitsIsRecorded, LookUpRecorded
  <2>2. live => Good(right.m, env, {})
    BY ZenonT(60), <1>0, LookUpFits
  <2>. QED BY <2>1, <2>2
<1>3. live => right.m.reg[right.r].content = env[w]
  BY <1>2 DEF Good, Holds
<1>4. env' = IF live THEN [env EXCEPT ![v] = env[w]] ELSE env
  BY DEF Copy, Assigned
<1>5. FitFor(live, m', env')
  BY <1>0, <1>1, <1>2, <1>3, <1>4, FinishedFits
<1>6. env' \in [Vars -> Val]
  BY <1>0, <1>4
<1>. QED BY <1>0, <1>5, <1>6, StraightStep

\* The constant is put in a register of its own.
LEMMA ConstantShape ==
    ASSUME NEW mm, NEW e, NEW X, Good(mm, e, X), NEW c \in Val,
           NEW a \in NewTemp(mm, CallerPool, 1)
    PROVE  LET n == LoadValue(a.m, a.r, c) IN
           /\ Good(n, e, X) /\ a.r \in Reg /\ a.r \in Caller /\ n.reg[a.r].content = c
<1>1. /\ Good(a.m, e, X) /\ a.r \in Range(CallerPool) /\ a.r \in Reg
      /\ ~a.m.reg[a.r].locked /\ a.m.reg[a.r].var = NoVar
  BY NewTempShape, MachineAssumption DEF Quietly
<1>2. Good(LoadValue(a.m, a.r, c), e, X) /\ Fills(a.m, LoadValue(a.m, a.r, c), a.r, c)
  BY <1>1, FillTemp
<1>. QED BY <1>1, <1>2 DEF Caller, Fills

LEMMA SetStep == ASSUME JoinInv, Plainly, NEW v \in Vars, NEW c \in Val, Set(v, c) PROVE JoinInv'
<1>0. /\ env \in [Vars -> Val] /\ live \in BOOLEAN /\ FitFor(live, m, env)
      /\ ~InElse(open) /\ UNCHANGED <<live, open>>
  BY BodyIsNoElse DEF JoinInv, Set
<1>1. PICK a \in NewTemp(m, CallerPool, 1) :
          Finished([a EXCEPT !.m = LoadValue(@, a.r, c)], v)
  BY DEF Set
<1>. DEFINE n == LoadValue(a.m, a.r, c)  right == [a EXCEPT !.m = LoadValue(@, a.r, c)]
<1>2. right.m = n /\ right.r = a.r
  <2>1. PICK b \in FindVacant(m, CallerPool) : a = [m |-> SetTargetNode(b.m, b.r, 1), r |-> b.r]
    BY DEF NewTemp
  <2>. QED BY <2>1
<1>3. Good(m, env, Vars)
  BY <1>0, FitsIsRecorded, RecordedIsGood
<1>4. /\ Good(n, env, Vars) /\ a.r \in Reg /\ n.reg[a.r].content = c
      /\ live => Good(n, env, {})
  BY <1>0, <1>3, ConstantShape DEF FitFor
<1>5. env' = IF live THEN [env EXCEPT ![v] = c] ELSE env
  BY DEF Set, Assigned
<1>6. env' \in [Vars -> Val]
  BY <1>0, <1>5
<1>7. Finished(right, v)
  BY <1>1
<1>. HIDE DEF right, n
<1>8. FitFor(live, m', env')
  BY <1>0, <1>2, <1>4, <1>5, <1>7, FinishedFits, GoodIsRecorded
<1>. QED BY <1>0, <1>6, <1>8, StraightStep

LEMMA InitialiseStep ==
    ASSUME JoinInv, NEW v \in Vars, NEW c \in Val, Initialise(v, c)
    PROVE  JoinInv'
<1>0. /\ env \in [Vars -> Val] /\ Good(m, env, {}) /\ live
      /\ ~InElse(open) /\ UNCHANGED <<live, open>>
  BY DEF JoinInv, Initialise, FitFor, InElse
<1>a. PICK a \in NewTemp(m, CallerPool, 1) :
          \E slot \in VarReg(LoadValue(a.m, a.r, c), v, FALSE) : m' = LoadReg(slot.m, slot.r, a.r)
  BY DEF Initialise
<1>1. PICK slot \in VarReg(LoadValue(a.m, a.r, c), v, FALSE) : m' = LoadReg(slot.m, slot.r, a.r)
  BY <1>a
<1>. DEFINE n == LoadValue(a.m, a.r, c)  X == {v}  k == slot.m  s == slot.r
<1>2. /\ Good(n, env, {}) /\ a.r \in Reg /\ a.r \in Caller /\ n.reg[a.r].content = c
  BY <1>0, ConstantShape
<1>3. Good(n, env, X) /\ v \in X
  BY <1>2, WeakenGood
<1>. HIDE DEF n, X
<1>4. Good(k, env, X) /\ Delivers(n, v, slot)
  BY <1>3, VarRegShape DEF n
<1>5. s \in Reg /\ s # a.r /\ k.reg[s].var = v /\ k.reg[a.r] = n.reg[a.r]
  BY <1>2, <1>4, PoolShape DEF Delivers, Quietly, Elsewhere
<1>. HIDE DEF k, s
<1>6. env' = [env EXCEPT ![v] = c]
  BY <1>0 DEF Initialise, Assigned
<1>7. env' \in [Vars -> Val] /\ env'[v] = c /\ OnlyAt(v, env, env')
  BY <1>0, <1>6 DEF OnlyAt
<1>8. m' = LoadReg(k, s, a.r)
  BY <1>1 DEF k, s
<1>9. Good(LoadReg(k, s, a.r), env', {})
  BY <1>2, <1>4, <1>5, <1>7, LoadRegKeepsGood DEF X
<1>. QED BY <1>0, <1>7, <1>8, <1>9, StraightStep DEF FitFor

LEMMA UseStep == ASSUME JoinInv, Plainly, NEW v \in Vars, UseOf(v) PROVE JoinInv'
<1>0. /\ env \in [Vars -> Val] /\ live \in BOOLEAN /\ FitFor(live, m, env)
      /\ ~InElse(open) /\ UNCHANGED <<env, live, open>>
  BY BodyIsNoElse DEF JoinInv, UseOf
<1>1. PICK a \in VarReg(m, v, TRUE) : m' = Executed(live, m, a.m)
  BY DEF UseOf
<1>2. WellRecorded(a.m) /\ (live => Good(a.m, env, {}))
  BY <1>0, LookUpFits
<1>3. FitFor(live, m', env')
  BY <1>0, <1>1, <1>2, ExecutedFits
<1>. QED BY <1>0, <1>3, StraightStep

\* The branch of an if: nothing is waiting to be stored, so memory is right on
\* either way.
LEMMA IfStep == ASSUME JoinInv, Plainly, NEW v \in Vars, If(v) PROVE JoinInv'
<1>0. /\ env \in [Vars -> Val] /\ live \in BOOLEAN /\ FitFor(live, m, env)
      /\ Nested(open) /\ (open = <<>> => live) /\ ~InElse(open) /\ env' = env
  BY BodyIsNoElse DEF JoinInv, If, Inner
<1>1. PICK a \in VarReg(m, v, TRUE) :
          /\ m' = Executed(live, m, a.m) /\ live' = (live /\ NonZero(m', a.r))
  BY DEF If
<1>2. \A r \in Reg : ~m.reg[r].modified
  BY DEF If, Plainly
<1>3. m \in Machine /\ m.mem = env
  BY <1>0, <1>2, StoredGood DEF FitFor, WellRecorded, Good
<1>4. a.m.mem = m.mem
  BY <1>2, <1>3, LookUpStoresNothing
<1>5. WellRecorded(a.m) /\ (live => Good(a.m, env, {}))
  BY <1>0, LookUpFits
<1>6. FitFor(live, m', env)
  BY <1>0, <1>1, <1>5, ExecutedFits
<1>7. m'.mem = env
  <2>1. CASE live
    BY <1>1, <1>3, <1>4, <2>1 DEF Executed
  <2>2. CASE ~live
    BY <1>6, <2>2 DEF FitFor
  <2>. QED BY <2>1, <2>2
<1>8. live' \in BOOLEAN /\ (live' => live)
  BY <1>1
<1>9. FitFor(live', m', env')
  BY <1>0, <1>6, <1>7, <1>8, FitsIsRecorded DEF FitFor
<1>10. Nested(open') /\ open' # <<>> /\ ~InElse(open')
  BY <1>0, NestedEnter DEF If, Entered
<1>. QED BY <1>0, <1>8, <1>9, <1>10 DEF JoinInv

\* The end of the then-part, where the way past it meets the way through it.
LEMMA ElseStep == ASSUME JoinInv, Else PROVE JoinInv'
<1>0. /\ env \in [Vars -> Val] /\ live \in BOOLEAN /\ FitFor(live, m, env)
      /\ Nested(open) /\ open # <<>> /\ env' = env
  BY DEF JoinInv, Else
<1>1. PICK p \in Parts(m) : m' = Executed(live, m, SaveAndClear(p))
  BY DEF Else, Joined
<1>2. WellRecorded(p) /\ (live => Good(p, env, {}))
  BY <1>0, PartsFit
<1>3. Settled(m', env)
  BY <1>0, <1>1, <1>2, ClearingSettles DEF WellRecorded
<1>4. Nested(open') /\ open' # <<>>
  BY <1>0, NestedElse DEF Else
<1>5. live' \in BOOLEAN
  BY DEF Else
<1>. QED BY <1>0, <1>3, <1>4, <1>5, SettledFits DEF JoinInv, Settled

LEMMA EndIfStep == ASSUME JoinInv, Plainly, EndIf PROVE JoinInv'
<1>0. /\ env \in [Vars -> Val] /\ live \in BOOLEAN /\ FitFor(live, m, env)
      /\ Nested(open) /\ open # <<>> /\ env' = env /\ Forgotten(m)
  BY DEF JoinInv, EndIf, InElse, Innermost
<1>1. m' = Executed(live, m, m)
  BY DEF EndIf, Plainly
<1>2. WellRecorded(m)
  BY <1>0, FitsIsRecorded
<1>3. Settled(m, env)
  BY <1>0, <1>2, ForgottenGood DEF FitFor, Settled
<1>4. Settled(m', env)
  <2>1. CASE live
    BY <1>1, <1>3, <2>1 DEF Executed
  <2>2. CASE ~live
    <3>0. m' = Executed(FALSE, m, m) /\ m \in Machine /\ m.reg \in [Reg -> RegState]
      BY <1>1, <1>2, <2>2 DEF WellRecorded, Machine, Executed
    <3>1. WellRecorded(m') /\ m'.mem = env
      BY <1>2, <1>3, <3>0, SkippedKeeps DEF Settled
    <3>2. \A r \in Reg : m'.reg[r].var = m.reg[r].var
      BY <3>0, SkippedShape
    <3>. QED BY <1>0, <3>1, <3>2 DEF Settled, Forgotten
  <2>. QED BY <2>1, <2>2
<1>5. /\ Nested(open') /\ ~InElse(open') /\ live' \in BOOLEAN
      /\ open' = <<>> => live'
  BY <1>0, NestedLeave DEF EndIf, Innermost, Statement
<1>. QED BY <1>0, <1>4, <1>5, SettledFits DEF JoinInv

\* The test of a loop: the register of the condition becomes that of a list, so
\* its variable goes to memory, and the loop starts with nothing cached.
LEMMA ForStep == ASSUME JoinInv, Plainly, NEW v \in Vars, For(v) PROVE JoinInv'
<1>0. /\ env \in [Vars -> Val] /\ live \in BOOLEAN /\ FitFor(live, m, env)
      /\ Nested(open) /\ (open = <<>> => live) /\ ~InElse(open) /\ env' = env
      /\ 1 \in 0 .. MaxDepth + 1
  BY BodyIsNoElse, MachineAssumption DEF JoinInv, For, Inner
<1>. DEFINE start == Executed(live, m, SaveAndClear(m))
            tested(a) == Executed(live, start, SetTargetNode(a.m, a.r, 1))
<1>1. PICK a \in VarReg(start, v, TRUE) :
          /\ live' = (live /\ NonZero(tested(a), a.r))
          /\ m' = Executed(live', tested(a), SaveAndClear(tested(a)))
          /\ open' = Entered("for", v, [reg |-> a.r])
  BY DEF For
<1>2. live' \in BOOLEAN /\ (live' => live)
  BY <1>1
<1>3. Settled(start, env)
  <2>1. m \in Machine /\ (live => Good(m, env, {}))
    BY <1>0, FitsIsRecorded DEF FitFor
  <2>2. ~live => FitFor(FALSE, m, env)
    BY <1>0 DEF FitFor
  <2>. QED BY <1>0, <2>1, <2>2, ClearingSettles
<1>. HIDE DEF start
<1>. DEFINE k == a.m  r == a.r  n == SetTargetNode(k, r, 1)  t == tested(a)
<1>4. WellRecorded(k) /\ r \in Reg /\ k.reg[r].var = v
  BY <1>3, LookUpRecorded DEF Settled
<1>5. ASSUME live PROVE Good(k, env, {}) /\ Delivers(start, v, a)
  BY <1>3, <1>5, SettledFits, LookUpFits
<1>. HIDE DEF k, r
<1>6. /\ n \in Machine /\ Elsewhere(k, n, r) /\ Stored(k, n, r) /\ n.reg[r].var = NoVar
      /\ n.reg[r].modified => n.reg[r].dirty
  <2>1. k.reg[r].modified => k.reg[r].dirty
    BY <1>4 DEF WellRecorded
  <2>. QED BY <1>0, <1>4, <2>1, SetTargetNodeShape DEF WellRecorded
<1>7. t = Executed(live, start, n)
  BY DEF k, r
<1>. HIDE DEF n
<1>8. WellRecorded(n)
  BY <1>4, <1>6, RecordedIsGood, ForgetKeepsGood
<1>9. live => Settled(t, env)
  <2>. SUFFICES ASSUME live PROVE Settled(n, env)
    BY <1>7 DEF Executed
  <2>1. Good(n, env, {})
    BY <1>4, <1>5, <1>6, ForgetKeepsGood
  <2>2. ASSUME NEW s \in Reg PROVE n.reg[s].var = NoVar
    <3>1. CASE s = r
      BY <1>6, <3>1
    <3>2. CASE s # r
      <4>1. n.reg[s] = k.reg[s]
        BY <1>6, <3>2 DEF Elsewhere
      <4>2. k.reg[s].var = start.reg[s].var
        BY <1>5, <3>2 DEF Delivers, Quietly, Elsewhere, k, r
      <4>. QED BY <1>3, <4>1, <4>2 DEF Settled, Forgotten
    <3>. QED BY <3>1, <3>2
  <2>. QED BY <1>0, <2>1, <2>2, ForgottenGood DEF Forgotten
<1>10. ~live => FitFor(FALSE, t, env)
  <2>. SUFFICES ASSUME ~live PROVE WellRecorded(t) /\ t.mem = env
    BY DEF FitFor
  <2>1. t = Executed(FALSE, start, n)
    BY <1>7 DEF Executed
  <2>. QED BY ZenonT(60), <1>3, <1>8, <2>1, SkippedKeeps DEF Settled, WellRecorded
<1>. HIDE DEF t
<1>11. Settled(m', env)
  <2>1. t \in Machine /\ FitFor(live, t, env)
    BY <1>0, <1>9, <1>10, SettledFits, FitsIsRecorded DEF FitFor
  <2>2. ~live' => FitFor(FALSE, t, env)
    BY <1>9, <1>10, SettledFits
  <2>3. live' => Good(t, env, {})
    BY <1>2, <2>1 DEF FitFor
  <2>4. m' = Executed(live', t, SaveAndClear(t))
    BY <1>1 DEF t
  <2>. QED BY <1>0, <1>2, <2>1, <2>2, <2>3, <2>4, ClearingSettles
<1>12. Nested(open') /\ open' # <<>> /\ ~InElse(open')
  BY <1>0, <1>1, <1>4, NestedEnter DEF Entered, r
<1>. QED BY <1>0, <1>2, <1>11, <1>12, SettledFits DEF JoinInv

\* The end of a loop loads the condition into a register that caches nothing.
LEMMA EndForStep == ASSUME JoinInv, EndFor PROVE JoinInv'
<1>0. /\ env \in [Vars -> Val] /\ live \in BOOLEAN /\ FitFor(live, m, env)
      /\ Nested(open) /\ open # <<>> /\ Last(open).kind = "for" /\ env' = env
  BY DEF JoinInv, EndFor, Innermost
<1>1. /\ Nested(open') /\ ~InElse(open') /\ live' \in BOOLEAN
      /\ open' = <<>> => live'
      /\ Last(open).again.reg \in Reg /\ Last(open).var \in Vars
  BY <1>0, NestedLeave DEF EndFor, Innermost, Statement
<1>. DEFINE back(p) == Executed(live, m, SaveAndClear(p))
            q == Last(open).again.reg  w == Last(open).var
<1>2. PICK p \in Parts(m) :
          m' = IF live THEN [back(p) EXCEPT !.reg[q].content = back(p).mem[w]] ELSE back(p)
  BY DEF EndFor, Innermost
<1>3. WellRecorded(p) /\ (live => Good(p, env, {}))
  BY <1>0, PartsFit
<1>. DEFINE n == back(p)
<1>4. Settled(n, env)
  BY <1>0, <1>3, ClearingSettles DEF WellRecorded
<1>5. m' = IF live THEN [n EXCEPT !.reg[q].content = n.mem[w]] ELSE n
  BY <1>2
<1>. HIDE DEF n, q, w
<1>6. Settled(m', env)
  <2>1. CASE ~live
    BY <1>4, <1>5, <2>1
  <2>2. CASE live
    <3>. DEFINE s == [n.reg[q] EXCEPT !.content = n.mem[w]]
    <3>1. n \in Machine /\ n.reg[q] \in RegState /\ n.mem[w] \in Val /\ q \in Reg
      BY <1>1, <1>4 DEF Settled, WellRecorded, Machine, q, w
    <3>2. /\ s \in RegState /\ s.var = n.reg[q].var /\ s.dirty = n.reg[q].dirty
          /\ s.modified = n.reg[q].modified
      BY <3>1 DEF RegState
    <3>3. m' = [n EXCEPT !.reg[q] = s]
      BY <1>5, <2>2
    <3>. HIDE DEF s
    <3>4. /\ m' \in Machine /\ m'.mem = n.mem /\ Elsewhere(n, m', q) /\ m'.reg[q] = s
      BY <3>1, <3>2, <3>3, UpdateShape
    <3>5. \A r \in Reg : /\ m'.reg[r].var = n.reg[r].var /\ m'.reg[r].dirty = n.reg[r].dirty
                         /\ m'.reg[r].modified = n.reg[r].modified
      BY <3>2, <3>4 DEF Elsewhere
    <3>. QED BY <1>4, <3>4, <3>5 DEF Settled, WellRecorded, CachedOnce, Forgotten
  <2>. QED BY <2>1, <2>2
<1>. QED BY <1>0, <1>1, <1>6, SettledFits DEF JoinInv

LEMMA JoinStep == ASSUME JoinInv, Plainly, [Run]_allVars PROVE JoinInv'
<1>1. CASE UNCHANGED condVars
  BY <1>1 DEF JoinInv, condVars
<1>2. ASSUME NEW v \in Vars, NEW w \in Vars, Copy(v, w) PROVE JoinInv'
  BY <1>2, CopyStep
<1>3. ASSUME NEW v \in Vars, NEW c \in Val, Set(v, c) PROVE JoinInv'
  BY <1>3, SetStep
<1>4. ASSUME NEW v \in Vars, NEW c \in Val, Initialise(v, c) PROVE JoinInv'
  BY <1>4, InitialiseStep
<1>5. ASSUME NEW v \in Vars, UseOf(v) PROVE JoinInv'
  BY <1>5, UseStep
<1>6. ASSUME NEW v \in Vars, If(v) PROVE JoinInv'
  BY <1>6, IfStep
<1>7. ASSUME NEW v \in Vars, For(v) PROVE JoinInv'
  BY <1>7, ForStep
<1>8. CASE Else
  BY <1>8, ElseStep
<1>9. CASE EndIf
  BY <1>9, EndIfStep
<1>10. CASE EndFor
  BY <1>10, EndForStep
<1>11. CondNext \/ UNCHANGED condVars
  BY DEF Run, allVars
<1>. QED BY <1>1, <1>2, <1>3, <1>4, <1>5, <1>6, <1>7, <1>8, <1>9, <1>10, <1>11 DEF CondNext

-----------------------------------------------------------------------------
(* The theorem on joins *)

LEMMA JoinInvSuffices == JoinInv => JoinsCoherent
<1>. SUFFICES ASSUME JoinInv, live, NEW v \in Vars PROVE Seen(v) = env[v]
  BY DEF JoinsCoherent
<1>1. Good(m, env, {}) /\ CachedOnce(m)
  BY DEF JoinInv, FitFor, Good
<1>2. CASE Fitting(m, v) = {}
  BY <1>1, <1>2, FittingShape DEF Seen, Good
<1>3. CASE Fitting(m, v) # {}
  <2>. DEFINE r == CHOOSE q \in Fitting(m, v) : TRUE
  <2>1. r \in Fitting(m, v)
    BY <1>3
  <2>2. Seen(v) = m.reg[r].content
    BY <1>3 DEF Seen
  <2>. HIDE DEF r
  <2>3. r \in Reg /\ m.reg[r].var = v
    BY <1>1, <2>1, FittingShape
  <2>. QED BY <1>1, <2>2, <2>3 DEF Good, Holds
<1>. QED BY <1>2, <1>3

\* In a program whose conditionals have no else-part and are not met with an
\* initialised local still in its register, every use of a variable finds its
\* value, whichever way the run came there (genIfStmt and genForStmt of codeGen.c).
THEOREM WaysMeet ==
    ASSUME Plainly
    PROVE  TargetSpec => []JoinsCoherent
<1>1. JoinInv /\ [Run]_allVars => JoinInv'
  BY JoinStep
<1>. QED BY <1>1, JoinInit, JoinInvSuffices, PTL DEF TargetSpec

-----------------------------------------------------------------------------
(* The image *)

Parts0 == {"text", "data", "labels", "table", "local"}
LabelParts == {"name", "addr", "global", "uses", "meant"}

\* The shape of an image.
Well(s) ==
    /\ s = [p \in Parts0 |-> s[p]] /\ s.table = [n \in Names |-> s.table[n]]
    /\ IsList(s.text) /\ IsList(s.labels)
    /\ \A l \in 1 .. Len(s.labels) :
          s.labels[l] = [p \in LabelParts |-> s.labels[l][p]] /\ IsList(s.labels[l].uses)

IsDefined(s, l) == s.labels[l].addr # 0

\* What no command changes but the definition of a name and the end of a file.
Keeps(s, t) ==
    /\ Well(t) /\ t.table = s.table /\ t.local = s.local /\ Len(t.labels) = Len(s.labels)
    /\ \A l \in 1 .. Len(s.labels) :
          /\ t.labels[l].name = s.labels[l].name
          /\ IsDefined(t, l) <=> IsDefined(s, l)
          /\ IsDefined(s, l) => t.labels[l].global = s.labels[l].global

LEMMA KeepsSame == ASSUME NEW s, Well(s) PROVE Keeps(s, s)
BY DEF Keeps

LEMMA KeepsTrans ==
    ASSUME NEW s, NEW t, NEW u, Keeps(s, t), Keeps(t, u)
    PROVE  Keeps(s, u)
BY DEF Keeps

\* Changes of the text, and of data, are of no concern.
LEMMA KeepsText ==
    ASSUME NEW s, Well(s), NEW x, IsList(x)
    PROVE  Keeps(s, [s EXCEPT !.text = x])
BY DEF Keeps, Well, Parts0, IsDefined

LEMMA KeepsData ==
    ASSUME NEW s, Well(s), NEW x
    PROVE  Keeps(s, [s EXCEPT !.data = x])
BY DEF Keeps, Well, Parts0, IsDefined

\* Labels changed otherwise than in name, being defined and, if they are, global.
LEMMA KeepsLabels ==
    ASSUME NEW s, Well(s), NEW x, x = [l \in DOMAIN s.labels |-> x[l]],
           \A l \in 1 .. Len(s.labels) :
               /\ x[l] = [p \in LabelParts |-> x[l][p]] /\ x[l].name = s.labels[l].name
               /\ x[l].addr # 0 <=> IsDefined(s, l)
               /\ IsDefined(s, l) => x[l].global = s.labels[l].global
               /\ IsList(x[l].uses)
    PROVE  Keeps(s, [s EXCEPT !.labels = x])
<1>. DEFINE t == [s EXCEPT !.labels = x]
<1>1. IsList(x) /\ Len(x) = Len(s.labels)
  BY SameDomain DEF Well
<1>2. /\ t = [p \in Parts0 |-> t[p]] /\ t.labels = x
      /\ t.table = s.table /\ t.local = s.local /\ t.text = s.text
  BY DEF Well, Parts0
<1>. HIDE DEF t
<1>3. Well(t)
  BY <1>1, <1>2 DEF Well
<1>4. Keeps(s, t)
  BY <1>1, <1>2, <1>3 DEF Keeps, IsDefined
<1>. QED BY <1>4 DEF t

\* One label is changed.
LEMMA KeepsLabel ==
    ASSUME NEW s, Well(s), NEW k \in 1 .. Len(s.labels), NEW y, y = [p \in LabelParts |-> y[p]],
           y.name = s.labels[k].name, y.addr # 0 <=> IsDefined(s, k),
           IsDefined(s, k) => y.global = s.labels[k].global, IsList(y.uses)
    PROVE  Keeps(s, [s EXCEPT !.labels[k] = y])
<1>. DEFINE x == [s.labels EXCEPT ![k] = y]
<1>1. [s EXCEPT !.labels[k] = y] = [s EXCEPT !.labels = x]
  OBVIOUS
<1>2. DOMAIN s.labels = 1 .. Len(s.labels)
  BY ListShape DEF Well
<1>3. x = [l \in DOMAIN s.labels |-> IF l = k THEN y ELSE s.labels[l]]
  BY DEF Well
<1>. HIDE DEF x
<1>4. ASSUME NEW l \in 1 .. Len(s.labels)
      PROVE  /\ x[l] = [p \in LabelParts |-> x[l][p]] /\ x[l].name = s.labels[l].name
             /\ x[l].addr # 0 <=> IsDefined(s, l)
             /\ IsDefined(s, l) => x[l].global = s.labels[l].global
             /\ IsList(x[l].uses)
  <2>1. x[l] = IF l = k THEN y ELSE s.labels[l]
    BY <1>2, <1>3
  <2>2. CASE l = k
    BY <2>1, <2>2
  <2>3. CASE l # k
    BY <2>1, <2>3 DEF Well, IsDefined
  <2>. QED BY <2>2, <2>3
<1>5. x = [l \in DOMAIN s.labels |-> x[l]]
  BY <1>3
<1>6. Keeps(s, [s EXCEPT !.labels = x])
  BY <1>4, <1>5, KeepsLabels
<1>. QED BY <1>1, <1>6

-----------------------------------------------------------------------------
(* Instructions *)

\* One instruction is changed.
LEMMA KeepsOne ==
    ASSUME NEW s, Well(s), NEW k, NEW i
    PROVE  Keeps(s, [s EXCEPT !.text[k] = i])
<1>. DEFINE x == [s.text EXCEPT ![k] = i]
<1>1. x = [j \in DOMAIN s.text |-> x[j]]
  OBVIOUS
<1>2. [s EXCEPT !.text[k] = i] = [s EXCEPT !.text = x]
  OBVIOUS
<1>. HIDE DEF x
<1>3. IsList(x)
  BY <1>1, SameDomain DEF Well
<1>. QED BY <1>2, <1>3, KeepsText

LEMMA KeepsCompensated ==
    ASSUME NEW s, Well(s), NEW k, NEW v
    PROVE  Keeps(s, Compensated(s, k, v))
<1>1. PICK l : \/ Compensated(s, k, v) = s
               \/ Compensated(s, k, v) = [s EXCEPT !.text[l].expr.off = @ + Radix]
  BY DEF Compensated
<1>2. [s EXCEPT !.text[l].expr.off = @ + Radix] =
      [s EXCEPT !.text[l] = [s.text[l] EXCEPT !.expr.off = @ + Radix]]
  OBVIOUS
<1>. QED BY <1>1, <1>2, KeepsSame, KeepsOne

\* resolve_a_label_sub
LEMMA KeepsResolved ==
    ASSUME NEW s, Well(s), NEW k
    PROVE  Keeps(s, Resolved(s, k))
<1>. DEFINE i == s.text[k]
            c == Compensated(s, k, Eval(s, i.expr))
<1>1. PICK v : \/ Resolved(s, k) = [s EXCEPT !.text[k].imm = v]
               \/ Resolved(s, k) = [c EXCEPT !.text[k].imm = v]
  BY DEF Resolved
<1>2. Keeps(s, c)
  BY KeepsCompensated
<1>. HIDE DEF c
<1>4. ASSUME NEW t, Well(t) PROVE Keeps(t, [t EXCEPT !.text[k].imm = v])
  <2>. DEFINE j == [t.text[k] EXCEPT !.imm = v]
  <2>1. [t EXCEPT !.text[k].imm = v] = [t EXCEPT !.text[k] = j]
    OBVIOUS
  <2>. HIDE DEF j
  <2>2. Keeps(t, [t EXCEPT !.text[k] = j])
    BY <1>4, KeepsOne
  <2>. QED BY <2>1, <2>2
<1>5. Well(c)
  BY <1>2 DEF Keeps
<1>6. Keeps(s, [s EXCEPT !.text[k].imm = v]) /\ Keeps(c, [c EXCEPT !.text[k].imm = v])
  BY <1>4, <1>5
<1>7. Keeps(s, [c EXCEPT !.text[k].imm = v])
  BY <1>2, <1>6, KeepsTrans
<1>. QED BY <1>1, <1>6, <1>7

LEMMA KeepsAppended ==
    ASSUME NEW s, Well(s), NEW i
    PROVE  Keeps(s, [s EXCEPT !.text = Append(@, i)])
BY ListAppend, KeepsText DEF Well

\* record_inst_uses_symbol
LEMMA KeepsRecorded ==
    ASSUME NEW s, Well(s), NEW sym \in 1 .. Len(s.labels), NEW use
    PROVE  Keeps(s, Recorded(s, sym, use))
<1>. DEFINE y == [s.labels[sym] EXCEPT !.uses = <<use>> \o @]
<1>1. Recorded(s, sym, use) = [s EXCEPT !.labels[sym] = y]
  BY DEF Recorded
<1>2. s.labels[sym] = [p \in LabelParts |-> s.labels[sym][p]] /\ IsList(s.labels[sym].uses)
  BY DEF Well
<1>3. /\ y = [p \in LabelParts |-> y[p]] /\ y.name = s.labels[sym].name
      /\ y.addr = s.labels[sym].addr /\ y.global = s.labels[sym].global
      /\ y.uses = <<use>> \o s.labels[sym].uses
  BY <1>2 DEF LabelParts
<1>4. IsList(y.uses)
  BY <1>2, <1>3, ListCons
<1>. HIDE DEF y
<1>. QED BY <1>1, <1>3, <1>4, KeepsLabel DEF IsDefined

\* An expression, and one with the bits and the symbol of another; its symbol is a label.
Names0(s, e) == e.sym = None \/ e.sym \in 1 .. Len(s.labels)
IsExpr(e) == e = [off |-> e.off, sym |-> e.sym, bits |-> e.bits]

\* i_type_inst where it makes one instruction, and j_type_inst.
LEMMA KeepsSingle ==
    ASSUME NEW s, Well(s), NEW op, NEW rt, NEW rs, NEW e, Names0(s, e)
    PROVE  Keeps(s, Single(s, op, rt, rs, e))
<1>. DEFINE t == [s EXCEPT !.text = Append(@, Inst(op, rt, rs, e))]
<1>1. Keeps(s, t)
  BY KeepsAppended
<1>2. \/ Single(s, op, rt, rs, e) = Resolved(t, Len(t.text))
      \/ /\ e.sym \in 1 .. Len(t.labels)
         /\ Single(s, op, rt, rs, e) = Recorded(t, e.sym, [kind |-> "inst", at |-> Len(t.text)])
  BY <1>1 DEF Single, Names0, IsKnown, Keeps
<1>. HIDE DEF t
<1>. QED BY <1>1, <1>2, KeepsResolved, KeepsRecorded, KeepsTrans DEF Keeps

LEMMA KeepsAddu ==
    ASSUME NEW s, Well(s), NEW rs
    PROVE  Keeps(s, Addu(s, rs))
BY KeepsSame, KeepsAppended DEF Addu

\* i_type_inst_full_word of a load.
LEMMA KeepsThree ==
    ASSUME NEW s, Well(s), NEW rt, NEW rs, NEW e, NEW f, Names0(s, e), Names0(s, f)
    PROVE  Keeps(s, Single(Addu(Single(s, "lui", "at", "zero", e), rs), "lw", rt, "at", f))
<1>. DEFINE a == Single(s, "lui", "at", "zero", e)
            b == Addu(a, rs)
            c == Single(b, "lw", rt, "at", f)
<1>1. Keeps(s, a) /\ Well(a)
  BY KeepsSingle DEF Keeps
<1>. HIDE DEF a
<1>2. Keeps(a, b) /\ Well(b)
  BY <1>1, KeepsAddu DEF Keeps
<1>. HIDE DEF b
<1>3. Keeps(b, c)
  BY <1>1, <1>2, KeepsSingle DEF Keeps, Names0
<1>. HIDE DEF c
<1>4. Keeps(s, c)
  BY <1>1, <1>2, <1>3, KeepsTrans
<1>. QED BY <1>4 DEF a, b, c

LEMMA PartsNamed ==
    ASSUME NEW s, NEW e, IsExpr(e), Names0(s, e)
    PROVE  Names0(s, Upper(e)) /\ Names0(s, Lower(e))
BY DEF Names0, IsExpr, Upper, Lower

LEMMA KeepsProduced ==
    ASSUME NEW s, Well(s), NEW rt, NEW e, IsExpr(e), Names0(s, e)
    PROVE  Keeps(s, ProduceImmediate(s, rt, e))
<1>. DEFINE a == Single(s, "lui", "at", "zero", Upper(e))
<1>0. Names0(s, Upper(e)) /\ Names0(s, Lower(e))
  BY PartsNamed
<1>1. Keeps(s, a) /\ Well(a) /\ Names0(a, Lower(e))
  BY <1>0, KeepsSingle DEF Keeps, Names0
<1>2. Keeps(s, Single(a, "ori", rt, "at", Lower(e)))
  <2>. HIDE DEF a
  <2>. QED BY <1>1, KeepsSingle, KeepsTrans
<1>. QED BY <1>0, <1>2, KeepsSingle DEF ProduceImmediate

\* i_type_inst
LEMMA KeepsIType ==
    ASSUME NEW s, Well(s), NEW op, NEW rt, NEW rs, NEW e, IsExpr(e), Names0(s, e)
    PROVE  Keeps(s, IType(s, op, rt, rs, e))
<1>1. /\ Names0(s, Upper(e)) /\ Names0(s, Lower(e))
      /\ \A v : Names0(s, Const(v)) /\ Names0(s, Lower(Const(v)))
  BY PartsNamed DEF Names0, Const, Expr, Lower
<1>2. Keeps(s, KnownLoad(s, rt, rs, Eval(s, e)))
  BY <1>1, KeepsThree DEF KnownLoad
<1>3. Keeps(s, UnknownLoad(s, rt, rs, e))
  BY <1>1, KeepsThree DEF UnknownLoad
<1>4. \/ IType(s, op, rt, rs, e) = Single(s, op, rt, rs, e)
      \/ IType(s, op, rt, rs, e) = Single(s, op, rt, rs, Lower(e))
      \/ IType(s, op, rt, rs, e) = KnownLoad(s, rt, rs, Eval(s, e))
      \/ IType(s, op, rt, rs, e) = UnknownLoad(s, rt, rs, e)
      \/ IType(s, op, rt, rs, e) = ProduceImmediate(s, rt, e)
  BY DEF IType
<1>. QED BY <1>1, <1>2, <1>3, <1>4, KeepsSingle, KeepsProduced

-----------------------------------------------------------------------------
(* The folds of the assembler *)

\* One step of each: a use, a label of the line resolved and marked with what
\* follows it, or given another address; an instruction run.
Turn(mode, sym, x, u) ==
    CASE mode = "use" -> ResolveUse(x, sym, u)
      [] mode = "label" -> [ResolveUses(x, u) EXCEPT !.labels[u].meant = sym]
      [] mode = "fix" -> [x EXCEPT !.labels[u].addr = sym]
      [] OTHER -> Ran(x, u)

\* What the recursion of FoldLeft defines, over sets of positions.
Turned(mode, sym, base, q, n, g) ==
    g = [S \in SUBSET (1 .. n) |->
           IF S = {} THEN base ELSE Turn(mode, sym, g[S \ {Max(S)}], q[Max(S)])]

LEMMA LastOfSet ==
    ASSUME NEW n \in Nat, NEW S \in SUBSET (1 .. n + 1)
    PROVE  /\ n + 1 \in S => Max(S) = n + 1 /\ S \ {Max(S)} \in SUBSET (1 .. n)
           /\ n + 1 \notin S => S \in SUBSET (1 .. n)
<1>1. \A x \in S : x \in Int /\ x <= n + 1 /\ 1 <= x
  OBVIOUS
<1>2. ASSUME n + 1 \in S PROVE Max(S) = n + 1
  <2>1. \A x \in S : (\A y \in S : x >= y) => x = n + 1
    BY <1>1, <1>2
  <2>2. \A y \in S : n + 1 >= y
    BY <1>1
  <2>. QED BY <1>2, <2>1, <2>2 DEF Max
<1>3. \A x \in S : x # n + 1 => x \in 1 .. n
  BY <1>1
<1>4. S \ {n + 1} \in SUBSET (1 .. n) /\ (n + 1 \notin S => S \in SUBSET (1 .. n))
  BY <1>3
<1>. QED BY <1>2, <1>4

LEMMA TurnedExist ==
    ASSUME NEW mode, NEW sym, NEW base, NEW q, NEW n \in Nat
    PROVE  \E g : Turned(mode, sym, base, q, n, g)
<1>. DEFINE T == {k \in Nat : \E g : Turned(mode, sym, base, q, k, g)}
<1>1. 0 \in T
  <2>. DEFINE g == [S \in SUBSET (1 .. 0) |-> base]
  <2>1. \A S \in SUBSET (1 .. 0) : S = {}
    OBVIOUS
  <2>2. Turned(mode, sym, base, q, 0, g)
    BY <2>1 DEF Turned
  <2>. QED BY <2>2
<1>2. ASSUME NEW k \in T PROVE k + 1 \in T
  <2>1. PICK g : Turned(mode, sym, base, q, k, g)
    OBVIOUS
  <2>. DEFINE h == [S \in SUBSET (1 .. k + 1) |->
                      IF k + 1 \in S THEN Turn(mode, sym, g[S \ {k + 1}], q[k + 1]) ELSE g[S]]
  <2>2. ASSUME NEW S \in SUBSET (1 .. k + 1)
        PROVE  h[S] = IF S = {} THEN base ELSE Turn(mode, sym, h[S \ {Max(S)}], q[Max(S)])
    <3>1. CASE k + 1 \in S
      <4>1. Max(S) = k + 1 /\ S \ {Max(S)} \in SUBSET (1 .. k)
        BY <3>1, LastOfSet
      <4>2. h[S \ {Max(S)}] = g[S \ {k + 1}]
        BY <4>1
      <4>3. h[S] = Turn(mode, sym, g[S \ {k + 1}], q[k + 1])
        BY <3>1
      <4>. HIDE DEF h
      <4>. QED BY <3>1, <4>1, <4>2, <4>3
    <3>2. CASE k + 1 \notin S
      <4>1. S \in SUBSET (1 .. k) /\ h[S] = g[S]
        BY <3>2, LastOfSet
      <4>2. g[S] = IF S = {} THEN base ELSE Turn(mode, sym, g[S \ {Max(S)}], q[Max(S)])
        BY <2>1, <4>1 DEF Turned
      <4>3. S # {} => S \ {Max(S)} \in SUBSET (1 .. k + 1) /\ k + 1 \notin S \ {Max(S)}
        BY <3>2
      <4>4. S # {} => h[S \ {Max(S)}] = g[S \ {Max(S)}]
        BY <4>3
      <4>. HIDE DEF h
      <4>. QED BY <4>1, <4>2, <4>4
    <3>. QED BY <3>1, <3>2
  <2>3. h = [S \in SUBSET (1 .. k + 1) |-> h[S]]
    OBVIOUS
  <2>. HIDE DEF h
  <2>4. Turned(mode, sym, base, q, k + 1, h)
    BY <2>2, <2>3 DEF Turned
  <2>. QED BY <2>4
<1>. HIDE DEF T
<1>3. T = Nat
  BY <1>1, <1>2, Induction DEF T
<1>. QED BY <1>3 DEF T

\* The states after each step.
Stages(mode, sym, base, q, f) ==
    /\ f[0] = base
    /\ \A i \in 1 .. Len(q) : f[i] = Turn(mode, sym, f[i - 1], q[i])

LEMMA StagesExist ==
    ASSUME NEW mode, NEW sym, NEW base, NEW q, Len(q) \in Nat,
           NEW g, Turned(mode, sym, base, q, Len(q), g)
    PROVE  \E f : Stages(mode, sym, base, q, f) /\ f[Len(q)] = g[1 .. Len(q)]
<1>. DEFINE n == Len(q)
            f == [i \in 0 .. n |-> g[1 .. i]]
<1>1. f[0] = base /\ f[n] = g[1 .. n]
  <2>1. 1 .. 0 = {} /\ {} \in SUBSET (1 .. n)
    OBVIOUS
  <2>2. g[{}] = base
    BY <2>1 DEF Turned
  <2>. QED BY <2>1, <2>2
<1>2. ASSUME NEW i \in 1 .. n PROVE f[i] = Turn(mode, sym, f[i - 1], q[i])
  <2>1. i - 1 \in Nat /\ (i - 1) + 1 = i /\ 1 .. i \in SUBSET (1 .. (i - 1) + 1) /\ i \in 1 .. i
    OBVIOUS
  <2>2. Max(1 .. i) = i
    BY <2>1, LastOfSet
  <2>3. (1 .. i) \ {i} = 1 .. i - 1 /\ 1 .. i \in SUBSET (1 .. n) /\ 1 .. i # {}
    OBVIOUS
  <2>4. g[1 .. i] = Turn(mode, sym, g[1 .. i - 1], q[i])
    BY <2>2, <2>3 DEF Turned
  <2>5. f[i] = g[1 .. i] /\ f[i - 1] = g[1 .. i - 1]
    OBVIOUS
  <2>. HIDE DEF f
  <2>. QED BY <2>4, <2>5
<1>. HIDE DEF f
<1>. QED BY <1>1, <1>2 DEF Stages

LEMMA UsesStages ==
    ASSUME NEW s, NEW sym, Len(s.labels[sym].uses) \in Nat,
           DOMAIN s.labels[sym].uses = 1 .. Len(s.labels[sym].uses)
    PROVE  \E f : /\ Stages("use", sym, s, s.labels[sym].uses, f)
                  /\ ResolveUses(s, sym) =
                       [f[Len(s.labels[sym].uses)] EXCEPT !.labels[sym].uses = <<>>]
<1>. DEFINE q == s.labels[sym].uses
            g == CHOOSE h : Turned("use", sym, s, q, Len(q), h)
<1>1. Turned("use", sym, s, q, Len(q), g)
  BY TurnedExist
<1>2. FoldLeft(LAMBDA t, u : ResolveUse(t, sym, u), s, q) = g[1 .. Len(q)]
  BY DEF FoldLeft, MapThenFoldSet, Turned, Turn
<1>. HIDE DEF g
<1>3. PICK f : Stages("use", sym, s, q, f) /\ f[Len(q)] = g[1 .. Len(q)]
  BY <1>1, StagesExist
<1>. QED BY <1>2, <1>3 DEF ResolveUses

LEMMA ClearedStages ==
    ASSUME NEW s, NEW a, Len(line) \in Nat, DOMAIN line = 1 .. Len(line)
    PROVE  \E f : Stages("label", a, s, line, f) /\ Cleared(s, a) = f[Len(line)]
<1>. DEFINE g == CHOOSE h : Turned("label", a, s, line, Len(line), h)
<1>1. Turned("label", a, s, line, Len(line), g)
  BY TurnedExist
<1>2. Cleared(s, a) = g[1 .. Len(line)]
  BY DEF Cleared, FoldLeft, MapThenFoldSet, Turned, Turn
<1>. HIDE DEF g
<1>. QED BY <1>1, <1>2, StagesExist

LEMMA FixedStages ==
    ASSUME NEW s, NEW a, Len(line) \in Nat, DOMAIN line = 1 .. Len(line)
    PROVE  \E f : Stages("fix", a, s, line, f) /\ Fixed(s, a) = f[Len(line)]
<1>. DEFINE g == CHOOSE h : Turned("fix", a, s, line, Len(line), h)
<1>1. Turned("fix", a, s, line, Len(line), g)
  BY TurnedExist
<1>2. Fixed(s, a) = g[1 .. Len(line)]
  BY DEF Fixed, FoldLeft, MapThenFoldSet, Turned, Turn
<1>. HIDE DEF g
<1>. QED BY <1>1, <1>2, StagesExist

\* The instructions of a reference, one after the other.
LEMMA RunStages ==
    ASSUME NEW q, Len(q) \in Nat, DOMAIN q = 1 .. Len(q)
    PROVE  \E f : Stages("run", 0, Registers, q, f) /\ FoldLeft(Ran, Registers, q) = f[Len(q)]
<1>. DEFINE g == CHOOSE h : Turned("run", 0, Registers, q, Len(q), h)
<1>1. Turned("run", 0, Registers, q, Len(q), g)
  BY TurnedExist
<1>2. FoldLeft(Ran, Registers, q) = g[1 .. Len(q)]
  BY DEF FoldLeft, MapThenFoldSet, Turned, Turn
<1>. HIDE DEF g
<1>. QED BY <1>1, <1>2, StagesExist

-----------------------------------------------------------------------------
(* The labels of the line *)

\* resolve_label_uses
LEMMA KeepsUses ==
    ASSUME NEW s, Well(s), NEW l \in 1 .. Len(s.labels)
    PROVE  Keeps(s, ResolveUses(s, l))
<1>. DEFINE q == s.labels[l].uses
            n == Len(q)
<1>1. IsList(q)
  BY DEF Well
<1>2. n \in Nat /\ DOMAIN q = 1 .. n
  BY <1>1, ListShape
<1>3. PICK f : Stages("use", l, s, q, f) /\ ResolveUses(s, l) = [f[n] EXCEPT !.labels[l].uses = <<>>]
  BY <1>2, UsesStages
<1>. HIDE DEF q, n
<1>. DEFINE T == {i \in Nat : i <= n => Keeps(s, f[i])}
<1>4. 0 \in T
  BY <1>3, KeepsSame DEF Stages
<1>5. ASSUME NEW i \in T PROVE i + 1 \in T
  <2>. SUFFICES ASSUME i + 1 <= n PROVE Keeps(s, f[i + 1])
    OBVIOUS
  <2>1. i <= n /\ i + 1 \in 1 .. n /\ (i + 1) - 1 = i
    BY <1>2
  <2>2. Keeps(s, f[i]) /\ Well(f[i])
    BY <2>1 DEF Keeps
  <2>3. f[i + 1] = ResolveUse(f[i], l, q[i + 1])
    BY <1>2, <1>3, <2>1 DEF Stages, Turn, n
  <2>. DEFINE u == q[i + 1]
              t == f[i]
  <2>4. \/ ResolveUse(t, l, u) = Resolved(t, u.at)
        \/ \E x : ResolveUse(t, l, u) = [t EXCEPT !.data = x]
    BY DEF ResolveUse
  <2>. HIDE DEF u
  <2>5. Well(t)
    BY <2>2
  <2>. HIDE DEF t
  <2>6. Keeps(t, ResolveUse(t, l, u))
    <3>1. Keeps(t, Resolved(t, u.at))
      BY <2>5, KeepsResolved
    <3>2. ASSUME NEW x PROVE Keeps(t, [t EXCEPT !.data = x])
      BY <2>5, KeepsData
    <3>. QED BY <2>4, <3>1, <3>2
  <2>. QED BY <2>2, <2>3, <2>6, KeepsTrans DEF t, u
<1>6. T = Nat
  <2>. HIDE DEF T
  <2>1. T \subseteq Nat
    BY DEF T
  <2>. QED BY <1>4, <1>5, <2>1, Induction
<1>. DEFINE t == f[n]
            y == [t.labels[l] EXCEPT !.uses = <<>>]
<1>. HIDE DEF t
<1>7. Keeps(s, t)
  BY <1>2, <1>6 DEF t
<1>. HIDE DEF T
<1>7a. Well(t) /\ l \in 1 .. Len(t.labels)
  BY <1>7 DEF Keeps
<1>8. t.labels[l] = [p \in LabelParts |-> t.labels[l][p]]
  BY <1>7a DEF Well
<1>9. /\ y = [p \in LabelParts |-> y[p]] /\ y.name = t.labels[l].name
      /\ y.addr = t.labels[l].addr /\ y.global = t.labels[l].global /\ y.uses = <<>>
  BY <1>8 DEF LabelParts
<1>10. ResolveUses(s, l) = [t EXCEPT !.labels[l] = y]
  BY <1>3 DEF t
<1>. HIDE DEF y
<1>11. Keeps(t, [t EXCEPT !.labels[l] = y])
  BY <1>7a, <1>9, EmptyList, KeepsLabel DEF IsDefined
<1>. QED BY <1>7, <1>10, <1>11, KeepsTrans

\* A part of a label that has nothing to do with its scope is set.
LEMMA KeepsMarked ==
    ASSUME NEW s, Well(s), NEW l \in 1 .. Len(s.labels), NEW a
    PROVE  Keeps(s, [s EXCEPT !.labels[l].meant = a])
<1>. DEFINE y == [s.labels[l] EXCEPT !.meant = a]
<1>1. s.labels[l] = [p \in LabelParts |-> s.labels[l][p]] /\ IsList(s.labels[l].uses)
  BY DEF Well
<1>2. /\ y = [p \in LabelParts |-> y[p]] /\ y.name = s.labels[l].name
      /\ y.addr = s.labels[l].addr /\ y.global = s.labels[l].global /\ y.uses = s.labels[l].uses
  BY <1>1 DEF LabelParts
<1>3. [s EXCEPT !.labels[l].meant = a] = [s EXCEPT !.labels[l] = y]
  OBVIOUS
<1>. HIDE DEF y
<1>4. Keeps(s, [s EXCEPT !.labels[l] = y])
  BY <1>1, <1>2, KeepsLabel DEF IsDefined
<1>. QED BY <1>3, <1>4

LEMMA KeepsMoved ==
    ASSUME NEW s, Well(s), NEW l \in 1 .. Len(s.labels), IsDefined(s, l), NEW a, a # 0
    PROVE  Keeps(s, [s EXCEPT !.labels[l].addr = a])
<1>. DEFINE z == [s.labels[l] EXCEPT !.addr = a]
<1>1. s.labels[l] = [p \in LabelParts |-> s.labels[l][p]] /\ IsList(s.labels[l].uses)
  BY DEF Well
<1>2. /\ z = [p \in LabelParts |-> z[p]] /\ z.name = s.labels[l].name
      /\ z.addr = a /\ z.global = s.labels[l].global /\ z.uses = s.labels[l].uses
  BY <1>1 DEF LabelParts
<1>3. [s EXCEPT !.labels[l].addr = a] = [s EXCEPT !.labels[l] = z]
  OBVIOUS
<1>. HIDE DEF z
<1>4. Keeps(s, [s EXCEPT !.labels[l] = z])
  BY <1>1, <1>2, KeepsLabel
<1>. QED BY <1>3, <1>4

\* clear_labels
LEMMA KeepsCleared ==
    ASSUME NEW s, Well(s), NEW a, IsList(line), \A l \in Range(line) : l \in 1 .. Len(s.labels)
    PROVE  Keeps(s, Cleared(s, a))
<1>. DEFINE n == Len(line)
<1>1. n \in Nat /\ DOMAIN line = 1 .. n
  BY ListShape
<1>2. PICK f : Stages("label", a, s, line, f) /\ Cleared(s, a) = f[n]
  BY <1>1, ClearedStages
<1>. HIDE DEF n
<1>. DEFINE T == {i \in Nat : i <= n => Keeps(s, f[i])}
<1>3. 0 \in T
  BY <1>2, KeepsSame DEF Stages
<1>4. ASSUME NEW i \in T PROVE i + 1 \in T
  <2>. SUFFICES ASSUME i + 1 <= n PROVE Keeps(s, f[i + 1])
    OBVIOUS
  <2>. DEFINE l == line[i + 1]
              t == f[i]
              u == ResolveUses(t, l)
  <2>1. i <= n /\ i + 1 \in 1 .. n /\ (i + 1) - 1 = i
    BY <1>1
  <2>2. f[i + 1] = [u EXCEPT !.labels[l].meant = a]
    BY <1>1, <1>2, <2>1 DEF Stages, Turn, n
  <2>3. l \in 1 .. Len(s.labels)
    BY <1>1, <2>1 DEF Range
  <2>4. Keeps(s, t) /\ Well(t) /\ l \in 1 .. Len(t.labels)
    BY <2>1, <2>3 DEF Keeps
  <2>. HIDE DEF t, l
  <2>5. Keeps(t, u) /\ Well(u) /\ l \in 1 .. Len(u.labels)
    BY <2>4, KeepsUses DEF Keeps
  <2>. HIDE DEF u
  <2>a. Keeps(u, [u EXCEPT !.labels[l].meant = a])
    BY <2>5, KeepsMarked
  <2>6. Keeps(u, f[i + 1])
    BY <2>2, <2>a
  <2>. QED BY <2>4, <2>5, <2>6, KeepsTrans
<1>5. T = Nat
  <2>. HIDE DEF T
  <2>1. T \subseteq Nat
    BY DEF T
  <2>. QED BY <1>3, <1>4, <2>1, Induction
<1>. QED BY <1>1, <1>2, <1>5

\* fix_current_label_address
LEMMA KeepsFixed ==
    ASSUME NEW s, Well(s), NEW a \in Int, a # 0, IsList(line),
           \A l \in Range(line) : l \in 1 .. Len(s.labels) /\ IsDefined(s, l)
    PROVE  Keeps(s, Fixed(s, a))
<1>. DEFINE n == Len(line)
<1>1. n \in Nat /\ DOMAIN line = 1 .. n
  BY ListShape
<1>2. PICK f : Stages("fix", a, s, line, f) /\ Fixed(s, a) = f[n]
  BY <1>1, FixedStages
<1>. HIDE DEF n
<1>. DEFINE T == {i \in Nat : i <= n => Keeps(s, f[i])}
<1>3. 0 \in T
  BY <1>2, KeepsSame DEF Stages
<1>4. ASSUME NEW i \in T PROVE i + 1 \in T
  <2>. SUFFICES ASSUME i + 1 <= n PROVE Keeps(s, f[i + 1])
    OBVIOUS
  <2>. DEFINE l == line[i + 1]
              t == f[i]
  <2>1. i <= n /\ i + 1 \in 1 .. n /\ (i + 1) - 1 = i
    BY <1>1
  <2>2. f[i + 1] = [t EXCEPT !.labels[l].addr = a]
    BY <1>1, <1>2, <2>1 DEF Stages, Turn, n
  <2>3. l \in 1 .. Len(s.labels) /\ IsDefined(s, l)
    BY <1>1, <2>1 DEF Range
  <2>4. Keeps(s, t) /\ Well(t) /\ l \in 1 .. Len(t.labels) /\ IsDefined(t, l)
    BY <2>1, <2>3 DEF Keeps
  <2>. HIDE DEF t, l
  <2>a. Keeps(t, [t EXCEPT !.labels[l].addr = a])
    BY <2>4, KeepsMoved
  <2>5. Keeps(t, f[i + 1])
    BY <2>2, <2>a
  <2>. QED BY <2>4, <2>5, KeepsTrans
<1>5. T = Nat
  <2>. HIDE DEF T
  <2>1. T \subseteq Nat
    BY DEF T
  <2>. QED BY <1>3, <1>4, <2>1, Induction
<1>. QED BY <1>1, <1>2, <1>5

-----------------------------------------------------------------------------
(* The inductive invariant *)

\* The table leads to labels of the name looked up.
Tied(s) ==
    \A n \in Names : s.table[n] # None =>
        s.table[n] \in 1 .. Len(s.labels) /\ s.labels[s.table[n]].name = n

\* A label of this file's own is the one its name is looked up as.
OwnLabel(s, l) ==
    /\ l \in 1 .. Len(s.labels) /\ IsDefined(s, l) /\ ~s.labels[l].global
    /\ s.labels[l].name \in Names /\ s.table[s.labels[l].name] = l

\* A definition is found in its file, and after it if it is global.
Found(s, f, d) ==
    /\ d.label \in 1 .. Len(s.labels) /\ IsDefined(s, d.label)
    /\ d.name \in Names /\ s.labels[d.label].name = d.name
    /\ d.file \in Nat /\ d.file <= f
    /\ d.file = f => /\ s.table[d.name] = d.label
                     /\ s.labels[d.label].global \/ d.label \in Range(s.local)
    /\ d.file < f => (s.table[d.name] = d.label <=> s.labels[d.label].global)

\* A reference of this file is to what its name is still looked up as.
Referred(s, f, r) ==
    /\ r.name \in Names /\ r.label \in 1 .. Len(s.labels) /\ r.file \in Nat /\ r.file <= f
    /\ r.file = f => s.table[r.name] = r.label

Agree(s, d, r) ==
    r.name = d.name => /\ d.file = r.file => d.label = r.label
                       /\ d.file < r.file => (d.label = r.label <=> s.labels[d.label].global)

\* All of it, of an image, the line's labels, the ghosts and the file.
Fit(s, ls, D, R, f) ==
    /\ Well(s) /\ Tied(s) /\ f \in Nat
    /\ IsList(s.local) /\ \A l \in Range(s.local) : OwnLabel(s, l)
    /\ IsList(ls) /\ \A l \in Range(ls) : l \in 1 .. Len(s.labels) /\ IsDefined(s, l)
    /\ \A d \in D : Found(s, f, d)
    /\ \A r \in R : Referred(s, f, r)
    /\ \A d \in D, r \in R : Agree(s, d, r)

ScopeInv ==
    /\ Fit(image, line, defs, refs, file)
    /\ datapc \in Nat \ {0} /\ dir \in {"text", "data"}

LEMMA KeepsFit ==
    ASSUME NEW s, NEW t, NEW ls, NEW D, NEW R, NEW f, Fit(s, ls, D, R, f), Keeps(s, t)
    PROVE  Fit(t, ls, D, R, f)
<1>1. Well(t) /\ Tied(t)
  BY DEF Fit, Keeps, Tied
<1>2. \A l \in Range(t.local) : OwnLabel(t, l)
  BY DEF Fit, Keeps, OwnLabel
<1>3. \A l \in Range(ls) : l \in 1 .. Len(t.labels) /\ IsDefined(t, l)
  BY DEF Fit, Keeps
<1>4. \A d \in D : Found(t, f, d)
  BY DEF Fit, Keeps, Found
<1>5. \A r \in R : Referred(t, f, r)
  BY DEF Fit, Keeps, Referred
<1>6. \A d \in D, r \in R : Agree(t, d, r)
  BY DEF Fit, Keeps, Found, Agree
<1>. QED BY <1>1, <1>2, <1>3, <1>4, <1>5, <1>6 DEF Fit, Keeps

\* A command forgets the line's labels.
LEMMA FitNoLine ==
    ASSUME NEW s, NEW ls, NEW D, NEW R, NEW f, Fit(s, ls, D, R, f)
    PROVE  Fit(s, <<>>, D, R, f)
BY EmptyList DEF Fit

-----------------------------------------------------------------------------
(* Names: looked up, defined, forgotten *)

\* lookup_label enters a name that is not in the table as a new label.
LEMMA LookedShape ==
    ASSUME NEW s, Well(s), NEW n \in Names, s.table[n] = None
    PROVE  LET t == Looked(s, n)
               k == Len(s.labels) + 1 IN
           /\ Well(t) /\ Len(t.labels) = k /\ k \in Nat \ {0} /\ t.local = s.local
           /\ t.labels[k].name = n /\ ~IsDefined(t, k)
           /\ \A l \in 1 .. Len(s.labels) : t.labels[l] = s.labels[l]
           /\ t.table = [s.table EXCEPT ![n] = k] /\ t.table[n] = k
<1>. DEFINE k == Len(s.labels) + 1
            x == Append(s.labels, Undefined(n))
            t == Looked(s, n)
<1>1. t = [s EXCEPT !.labels = x, !.table[n] = k]
  BY DEF Looked
<1>2. /\ IsList(x) /\ Len(x) = k /\ x[k] = Undefined(n)
      /\ \A l \in 1 .. Len(s.labels) : x[l] = s.labels[l]
  BY ListAppend DEF Well
<1>3. Len(s.labels) \in Nat /\ k \in Nat \ {0}
  BY ListShape DEF Well
<1>. HIDE DEF x, k
<1>4. /\ t = [p \in Parts0 |-> t[p]] /\ t.labels = x /\ t.local = s.local /\ t.text = s.text
      /\ t.table = [s.table EXCEPT ![n] = k]
  BY <1>1 DEF Well, Parts0
<1>. HIDE DEF t
<1>5. t.table = [q \in Names |-> t.table[q]] /\ t.table[n] = k
  BY <1>4 DEF Well
<1>6. /\ Undefined(n) = [p \in LabelParts |-> Undefined(n)[p]]
      /\ Undefined(n).name = n /\ Undefined(n).addr = 0 /\ IsList(Undefined(n).uses)
  BY EmptyList DEF Undefined, LabelParts
<1>7. \A l \in 1 .. k : x[l] = [p \in LabelParts |-> x[l][p]] /\ IsList(x[l].uses)
  <2>1. ASSUME NEW l \in 1 .. k PROVE l = k \/ l \in 1 .. Len(s.labels)
    BY <1>3 DEF k
  <2>. QED BY <2>1, <1>2, <1>6 DEF Well
<1>8. Well(t)
  BY <1>2, <1>4, <1>5, <1>7 DEF Well
<1>. QED BY <1>2, <1>3, <1>4, <1>5, <1>6, <1>8 DEF t, k, IsDefined

LEMMA LookedFit ==
    ASSUME NEW s, NEW ls, NEW D, NEW R, NEW f, Fit(s, ls, D, R, f), NEW n \in Names
    PROVE  LET t == Looked(s, n) IN
           /\ Fit(t, ls, D, R, f)
           /\ t.table[n] \in 1 .. Len(t.labels) /\ t.labels[t.table[n]].name = n
<1>1. CASE s.table[n] # None
  BY <1>1 DEF Looked, Fit, Tied
<1>2. CASE s.table[n] = None
  <2>. DEFINE t == Looked(s, n)
              k == Len(s.labels) + 1
  <2>1. /\ Well(t) /\ Len(t.labels) = k /\ k \in Nat \ {0} /\ t.local = s.local
        /\ t.labels[k].name = n /\ ~IsDefined(t, k)
        /\ \A l \in 1 .. Len(s.labels) : t.labels[l] = s.labels[l]
        /\ t.table = [s.table EXCEPT ![n] = k] /\ t.table[n] = k
    BY <1>2, LookedShape DEF Fit
  <2>2. Len(s.labels) \in Nat
    BY ListShape DEF Fit, Well
  <2>3. \A l \in 1 .. Len(s.labels) : l \in 1 .. k /\ l # k /\ l # None
    BY <2>2 DEF None
  <2>4. k \in 1 .. k
    BY <2>1
  <2>. HIDE DEF t, k
  <2>5. \A q \in Names : t.table[q] = IF q = n THEN k ELSE s.table[q]
    BY <2>1 DEF Fit, Well
  <2>6. \A l \in 1 .. Len(s.labels) : IsDefined(t, l) <=> IsDefined(s, l)
    BY <2>1 DEF IsDefined
  <2>7. Tied(t)
    BY <2>1, <2>3, <2>4, <2>5 DEF Fit, Tied
  <2>8. \A l \in Range(t.local) : OwnLabel(t, l)
    BY <1>2, <2>1, <2>3, <2>5, <2>6 DEF Fit, OwnLabel
  <2>9. \A l \in Range(ls) : l \in 1 .. Len(t.labels) /\ IsDefined(t, l)
    BY <2>1, <2>3, <2>6 DEF Fit
  <2>10. ASSUME NEW d \in D PROVE Found(t, f, d)
    <3>1. Found(s, f, d)
      BY DEF Fit
    <3>2. d.label \in 1 .. Len(s.labels) /\ d.label # None /\ d.label # k /\ d.label \in 1 .. k
      BY <2>3, <3>1 DEF Found
    <3>3. t.table[d.name] = d.label <=> s.table[d.name] = d.label
      BY <1>2, <2>5, <3>1, <3>2 DEF Found
    <3>. QED BY <2>1, <2>6, <3>1, <3>2, <3>3 DEF Found
  <2>11. ASSUME NEW r \in R PROVE Referred(t, f, r)
    <3>1. Referred(s, f, r)
      BY DEF Fit
    <3>. QED BY <1>2, <2>1, <2>3, <2>5, <3>1 DEF Referred
  <2>12. \A d \in D, r \in R : Agree(t, d, r)
    BY <2>1 DEF Fit, Found, Agree
  <2>13. Fit(t, ls, D, R, f)
    BY <2>1, <2>7, <2>8, <2>9, <2>10, <2>11, <2>12 DEF Fit
  <2>. QED BY <2>1, <2>4, <2>13 DEF t
<1>. QED BY <1>1, <1>2

\* A name is defined: record_label.
LEMMA DefineFit ==
    ASSUME NEW s, NEW ls, NEW D, NEW R, NEW f, Fit(s, ls, D, R, f),
           NEW n \in Names, NEW l, l = s.table[n], l \in 1 .. Len(s.labels), s.labels[l].name = n,
           ~IsDefined(s, l), NEW a \in Int, a # 0,
           NEW t, t = [s EXCEPT !.labels[l].addr = a,
                                !.local = IF s.labels[l].global THEN @ ELSE <<l>> \o @]
    PROVE  Fit(t, <<l>> \o ls, D \cup {[name |-> n, file |-> f, label |-> l]}, R, f)
<1>. DEFINE y == [s.labels[l] EXCEPT !.addr = a]
            x == [s.labels EXCEPT ![l] = y]
            d0 == [name |-> n, file |-> f, label |-> l]
            loc == IF s.labels[l].global THEN s.local ELSE <<l>> \o s.local
<1>0. s.labels[l] = [p \in LabelParts |-> s.labels[l][p]]
  BY DEF Fit, Well
<1>1. /\ y = [p \in LabelParts |-> y[p]] /\ y.name = n /\ y.addr = a
      /\ y.global = s.labels[l].global /\ y.uses = s.labels[l].uses
  BY <1>0 DEF LabelParts
<1>2. x = [j \in DOMAIN s.labels |-> IF j = l THEN y ELSE s.labels[j]]
  BY DEF Fit, Well
<1>3. DOMAIN s.labels = 1 .. Len(s.labels)
  BY ListShape DEF Fit, Well
<1>4. /\ t = [p \in Parts0 |-> t[p]] /\ t.labels = x /\ t.table = s.table /\ t.text = s.text
      /\ t.local = loc
  BY DEF Fit, Well, Parts0
<1>. HIDE DEF y
<1>5. IsList(x) /\ Len(x) = Len(s.labels)
  <2>1. x = [j \in DOMAIN s.labels |-> x[j]]
    BY <1>2
  <2>. HIDE DEF x
  <2>. QED BY <2>1, SameDomain DEF Fit, Well
<1>. HIDE DEF x, loc
<1>6. \A j \in 1 .. Len(s.labels) : t.labels[j] = IF j = l THEN y ELSE s.labels[j]
  BY <1>2, <1>3, <1>4
<1>7. Well(t)
  <2>1. Well(s)
    BY DEF Fit
  <2>2. ASSUME NEW j \in 1 .. Len(t.labels)
        PROVE  t.labels[j] = [p \in LabelParts |-> t.labels[j][p]] /\ IsList(t.labels[j].uses)
    <3>1. j \in 1 .. Len(s.labels)
      BY <1>4, <1>5
    <3>2. t.labels[j] = IF j = l THEN y ELSE s.labels[j]
      BY <1>6, <3>1
    <3>3. \A i \in 1 .. Len(s.labels) :
             s.labels[i] = [p \in LabelParts |-> s.labels[i][p]] /\ IsList(s.labels[i].uses)
      BY <2>1 DEF Well
    <3>4. CASE j = l
      <4>1. t.labels[j] = y /\ IsList(s.labels[l].uses)
        BY <3>2, <3>3, <3>4
      <4>. QED BY <1>1, <4>1
    <3>5. CASE j # l
      BY <3>1, <3>2, <3>3, <3>5
    <3>. QED BY <3>4, <3>5
  <2>3. t.table = [q \in Names |-> t.table[q]] /\ IsList(t.text) /\ IsList(t.labels)
    BY <1>4, <1>5, <2>1 DEF Well
  <2>. QED BY <1>4, <2>2, <2>3 DEF Well
<1>8. /\ \A j \in 1 .. Len(s.labels) : IsDefined(t, j) <=> (j = l \/ IsDefined(s, j))
      /\ \A j \in 1 .. Len(s.labels) : t.labels[j].name = s.labels[j].name
      /\ \A j \in 1 .. Len(s.labels) : t.labels[j].global = s.labels[j].global
      /\ Len(t.labels) = Len(s.labels)
  <2>1. Len(t.labels) = Len(s.labels)
    BY <1>4, <1>5
  <2>2. ASSUME NEW j \in 1 .. Len(s.labels)
        PROVE  /\ IsDefined(t, j) <=> (j = l \/ IsDefined(s, j))
               /\ t.labels[j].name = s.labels[j].name /\ t.labels[j].global = s.labels[j].global
    <3>1. t.labels[j] = IF j = l THEN y ELSE s.labels[j]
      BY <1>6
    <3>2. CASE j = l
      BY <1>1, <3>1, <3>2, SMTT(20) DEF IsDefined
    <3>3. CASE j # l
      BY <3>1, <3>3 DEF IsDefined
    <3>. QED BY <3>2, <3>3
  <2>. QED BY <2>1, <2>2
<1>9. IsList(loc) /\ \A j : j \in Range(loc) <=>
         (j \in Range(s.local) \/ (j = l /\ ~s.labels[l].global))
  BY ListCons DEF loc, Fit
<1>10. IsList(<<l>> \o ls) /\ Range(<<l>> \o ls) = {l} \cup Range(ls)
  BY ListCons DEF Fit
<1>11. Tied(t)
  <2>1. ASSUME NEW q \in Names, t.table[q] # None
        PROVE  t.table[q] \in 1 .. Len(t.labels) /\ t.labels[t.table[q]].name = q
    <3>1. s.table[q] \in 1 .. Len(s.labels) /\ s.labels[s.table[q]].name = q
      BY <1>4, <2>1 DEF Fit, Tied
    <3>. QED BY <1>4, <1>8, <3>1
  <2>. QED BY <2>1 DEF Tied
<1>12. ASSUME NEW j, j \in Range(t.local) PROVE OwnLabel(t, j)
  <2>1. j \in Range(s.local) \/ (j = l /\ ~s.labels[l].global)
    BY <1>4, <1>9, <1>12
  <2>2. j \in Range(s.local) => OwnLabel(s, j)
    BY DEF Fit
  <2>3. j \in 1 .. Len(s.labels) /\ ~s.labels[j].global /\ IsDefined(t, j)
    BY <1>8, <2>1, <2>2 DEF OwnLabel
  <2>4. s.labels[j].name \in Names /\ s.table[s.labels[j].name] = j
    BY <2>1, <2>2 DEF OwnLabel
  <2>. QED BY <1>4, <1>8, <2>3, <2>4 DEF OwnLabel
<1>13. ASSUME NEW d \in D PROVE Found(t, f, d)
  <2>1. Found(s, f, d)
    BY DEF Fit
  <2>2. d.label \in Range(s.local) => d.label \in Range(t.local)
    BY <1>4, <1>9
  <2>3. /\ d.label \in 1 .. Len(t.labels) /\ IsDefined(t, d.label)
        /\ t.labels[d.label].name = s.labels[d.label].name
        /\ t.labels[d.label].global = s.labels[d.label].global
    BY <1>8, <2>1 DEF Found
  <2>. QED BY <1>4, <2>1, <2>2, <2>3 DEF Found
<1>14. Found(t, f, d0)
  <2>1. d0.name = n /\ d0.label = l /\ d0.file = f /\ f \in Nat
    BY DEF Fit
  <2>2. t.labels[l].global \/ l \in Range(t.local)
    <3>1. l \in Range(loc) <=> (l \in Range(s.local) \/ ~s.labels[l].global)
      BY <1>9
    <3>. QED BY <1>4, <1>8, <3>1
  <2>3. l \in 1 .. Len(t.labels) /\ IsDefined(t, l) /\ t.labels[l].name = n /\ t.table[n] = l
    BY <1>4, <1>8
  <2>. HIDE DEF d0
  <2>. QED BY <2>1, <2>2, <2>3 DEF Found
<1>15. \A r \in R : Referred(t, f, r)
  BY <1>4, <1>8 DEF Fit, Referred
<1>16. \A d \in D, r \in R : Agree(t, d, r)
  BY <1>8 DEF Fit, Found, Agree
<1>17. ASSUME NEW r \in R PROVE Agree(t, d0, r)
  <2>1. Referred(s, f, r)
    BY DEF Fit
  <2>2. ~(f < r.file)
    BY <2>1 DEF Referred, Fit
  <2>. QED BY <2>1, <2>2 DEF Agree, Referred
<1>. HIDE DEF d0
<1>18. \A j \in Range(<<l>> \o ls) : j \in 1 .. Len(t.labels) /\ IsDefined(t, j)
  BY <1>8, <1>10 DEF Fit
<1>19. Fit(t, <<l>> \o ls, D \cup {d0}, R, f)
  <2>1. f \in Nat /\ IsList(t.local)
    BY <1>4, <1>9 DEF Fit
  <2>2. \A j \in Range(t.local) : OwnLabel(t, j)
    BY <1>12
  <2>3. \A d \in D \cup {d0} : Found(t, f, d)
    BY <1>13, <1>14
  <2>4. \A d \in D \cup {d0}, r \in R : Agree(t, d, r)
    BY <1>16, <1>17
  <2>. QED BY <1>7, <1>10, <1>11, <1>15, <1>18, <2>1, <2>2, <2>3, <2>4 DEF Fit
<1>. QED BY <1>19 DEF d0

\* A reference to what its name is looked up as.
LEMMA ReferFit ==
    ASSUME NEW s, NEW ls, NEW D, NEW R, NEW f, Fit(s, ls, D, R, f),
           NEW r, r.name \in Names, r.label = s.table[r.name], r.label \in 1 .. Len(s.labels),
           r.file = f
    PROVE  Fit(s, ls, D, R \cup {r}, f)
<1>1. Referred(s, f, r)
  BY DEF Fit, Referred
<1>2. \A d \in D : Agree(s, d, r)
  BY DEF Fit, Found, Agree
<1>. QED BY <1>1, <1>2 DEF Fit

\* flush_local_labels: what is not global is not found any more.
LEMMA FlushFit ==
    ASSUME NEW s, NEW ls, NEW D, NEW R, NEW f, Fit(s, ls, D, R, f)
    PROVE  Fit(Flushed(s), <<>>, D, R, f + 1)
<1>. DEFINE t == Flushed(s)
            own(n) == \E k \in DOMAIN s.local : s.labels[s.local[k]].name = n
<1>1. /\ t = [p \in Parts0 |-> t[p]] /\ t.labels = s.labels /\ t.text = s.text /\ t.local = <<>>
      /\ t.table = [n \in Names |-> IF own(n) THEN None ELSE s.table[n]]
  BY DEF Flushed, Fit, Well, Parts0
<1>2. \A n \in Names : own(n) => \E l \in Range(s.local) : s.labels[l].name = n
  BY DEF Range
<1>3. \A l \in Range(s.local) : own(s.labels[l].name)
  BY DEF Range
<1>. HIDE DEF t, own
<1>4. Well(t) /\ \A n \in Names : t.table[n] = IF own(n) THEN None ELSE s.table[n]
  <2>1. Well(s)
    BY DEF Fit
  <2>2. \A n \in Names : t.table[n] = IF own(n) THEN None ELSE s.table[n]
    BY <1>1
  <2>3. t.table = [n \in Names |-> t.table[n]]
    BY <1>1
  <2>. QED BY ZenonT(60), <1>1, <2>1, <2>2, <2>3 DEF Well
<1>5. Tied(t)
  BY <1>1, <1>4 DEF Tied, Fit
<1>6. \A l \in 1 .. Len(s.labels) : l # None /\ (IsDefined(t, l) <=> IsDefined(s, l))
  <2>1. Len(s.labels) \in Nat
    BY ListShape DEF Fit, Well
  <2>. QED BY <1>1, <2>1 DEF IsDefined, None
<1>7. ASSUME NEW d \in D PROVE Found(t, f + 1, d)
  <2>1. Found(s, f, d)
    BY DEF Fit
  <2>2. d.file \in Nat /\ f \in Nat /\ d.file <= f + 1 /\ d.file # f + 1
    BY <2>1 DEF Found, Fit
  <2>3. own(d.name) => s.table[d.name] \in Range(s.local) /\ ~s.labels[s.table[d.name]].global
    <3>1. HAVE own(d.name)
    <3>2. PICK l \in Range(s.local) : s.labels[l].name = d.name
      BY <1>2, <2>1, <3>1 DEF Found
    <3>3. OwnLabel(s, l)
      BY DEF Fit
    <3>. QED BY <3>2, <3>3 DEF OwnLabel
  <2>4. t.table[d.name] = d.label <=> s.labels[d.label].global
    <3>1. CASE d.file = f
      BY <1>3, <1>4, <1>6, <2>1, <2>3, <3>1 DEF Found
    <3>2. CASE d.file < f
      BY <1>4, <1>6, <2>1, <2>3, <3>2 DEF Found
    <3>. QED BY <2>1, <2>2, <3>1, <3>2 DEF Found
  <2>. QED BY <1>1, <1>6, <2>1, <2>2, <2>4 DEF Found
<1>8. ASSUME NEW r \in R PROVE Referred(t, f + 1, r)
  <2>1. Referred(s, f, r)
    BY DEF Fit
  <2>2. r.file \in Nat /\ r.file <= f + 1 /\ r.file # f + 1
    BY <2>1 DEF Referred, Fit
  <2>. QED BY <1>1, <2>1, <2>2 DEF Referred
<1>9. \A d \in D, r \in R : Agree(t, d, r)
  BY <1>1 DEF Fit, Agree
<1>10. f + 1 \in Nat
  BY DEF Fit
<1>11. Fit(t, <<>>, D, R, f + 1)
  BY <1>1, <1>4, <1>5, <1>7, <1>8, <1>9, <1>10, EmptyList DEF Fit
<1>. QED BY <1>11 DEF t

-----------------------------------------------------------------------------
(* The commands *)

LEMMA HereShape ==
    ASSUME NEW s, Well(s), datapc \in Nat \ {0}
    PROVE  Here(s) \in Int /\ Here(s) # 0
<1>1. IsList(Append(s.text, 0)) /\ Len(s.text) \in Nat
  BY ListAppend, ListShape DEF Well
<1>2. TextStart \in Nat \ {0}
  BY AssemblerAssumption
<1>3. TextPc(s) \in Int /\ TextPc(s) # 0
  BY <1>1, <1>2 DEF TextPc, PcOf
<1>. QED BY <1>3 DEF Here

\* What ends in clear_labels.
LEMMA DoneFit ==
    ASSUME NEW s, NEW D, NEW R, Fit(s, line, D, R, file), NEW a, Done(s, a)
    PROVE  Fit(image', line', D, R, file)
<1>1. image' = Cleared(s, a) /\ line' = <<>>
  BY DEF Done
<1>2. Keeps(s, image')
  BY <1>1, KeepsCleared DEF Fit
<1>. QED BY <1>1, <1>2, KeepsFit, FitNoLine

LEMMA LabelStep == ASSUME ScopeInv, NEW n \in Names, Label(n) PROVE ScopeInv'
<1>. DEFINE s == Looked(image, n)
            l == s.table[n]
            d == [name |-> n, file |-> file, label |-> l]
<1>1. Fit(s, line, defs, refs, file) /\ l \in 1 .. Len(s.labels) /\ s.labels[l].name = n
  BY LookedFit DEF ScopeInv
<1>2. UNCHANGED <<dir, datapc, file, refs>>
  BY DEF Label
<1>3. CASE s.labels[l].addr # 0
  <2>1. image' = Cleared(s, Here(s)) /\ line' = <<l>> /\ defs' = defs
    BY <1>3 DEF Label
  <2>. HIDE DEF l, s
  <2>2. Keeps(s, image')
    BY <1>1, <2>1, KeepsCleared DEF Fit
  <2>3. Fit(image', line, defs, refs, file)
    BY <1>1, <2>2, KeepsFit
  <2>4. l \in 1 .. Len(image'.labels) /\ IsDefined(image', l)
    BY <1>1, <1>3, <2>2 DEF Keeps, IsDefined
  <2>5. IsList(<<l>>) /\ Range(<<l>>) = {l}
    <3>1. <<l>> \in Seq({l}) /\ DOMAIN <<l>> = {1} /\ <<l>>[1] = l
      OBVIOUS
    <3>2. IsList(<<l>>)
      BY <3>1, ListsAre
    <3>3. Range(<<l>>) = {<<l>>[k] : k \in {1}}
      BY <3>1 DEF Range
    <3>. QED BY <3>1, <3>2, <3>3
  <2>6. Fit(image', <<l>>, defs, refs, file)
    BY <2>3, <2>4, <2>5 DEF Fit
  <2>. QED BY <1>2, <2>1, <2>6 DEF ScopeInv
<1>4. CASE ~(s.labels[l].addr # 0)
  <2>1. /\ image' = [s EXCEPT !.labels[l].addr = Here(s),
                               !.local = IF s.labels[l].global THEN @ ELSE <<l>> \o @]
        /\ line' = <<l>> \o line /\ defs' = defs \cup {d}
    BY <1>4 DEF Label
  <2>2. Here(s) \in Int /\ Here(s) # 0
    BY <1>1, HereShape DEF Fit, ScopeInv
  <2>3. ~IsDefined(s, l)
    BY <1>4 DEF IsDefined
  <2>. HIDE DEF s
  <2>4. Fit(image', <<l>> \o line, defs \cup {d}, refs, file)
    BY <1>1, <2>1, <2>2, <2>3, DefineFit
  <2>. HIDE DEF l, d
  <2>. QED BY <1>2, <2>1, <2>4 DEF ScopeInv
<1>. QED BY <1>3, <1>4

LEMMA GlobalStep == ASSUME ScopeInv, ~LateGlobals, NEW n \in Names, Global(n) PROVE ScopeInv'
<1>. DEFINE s == Looked(image, n)
            l == s.table[n]
            y == [s.labels[l] EXCEPT !.global = TRUE]
            t == [s EXCEPT !.labels[l] = y]
<1>1. Fit(s, line, defs, refs, file) /\ l \in 1 .. Len(s.labels)
  BY LookedFit DEF ScopeInv
<1>2. ~IsDefined(s, l)
  BY DEF Global, IsDefined
<1>3. Done(t, Here(s)) /\ UNCHANGED <<dir, datapc, file, refs, defs>>
  BY DEF Global
<1>. HIDE DEF s, l
<1>4. s.labels[l] = [p \in LabelParts |-> s.labels[l][p]] /\ IsList(s.labels[l].uses)
  BY <1>1 DEF Fit, Well
<1>5. /\ y = [p \in LabelParts |-> y[p]] /\ y.name = s.labels[l].name
      /\ y.addr = s.labels[l].addr /\ y.uses = s.labels[l].uses
  BY <1>4 DEF LabelParts
<1>. HIDE DEF y
<1>6. Keeps(s, t)
  BY <1>1, <1>2, <1>4, <1>5, KeepsLabel DEF Fit, IsDefined
<1>. HIDE DEF t
<1>7. Fit(t, line, defs, refs, file)
  BY <1>1, <1>6, KeepsFit
<1>8. Fit(image', line', defs, refs, file)
  BY <1>3, <1>7, DoneFit
<1>. QED BY <1>3, <1>8 DEF ScopeInv

LEMMA ReferenceAdded ==
    ASSUME NEW s, Fit(s, line, defs, refs, file), NEW n \in Names,
           s.table[n] \in 1 .. Len(s.labels), NEW t, Keeps(s, t),
           NEW r, r.name = n, r.label = s.table[n], r.file = file
    PROVE  Fit(t, line, defs, refs \cup {r}, file)
<1>1. Fit(s, line, defs, refs \cup {r}, file)
  BY ReferFit
<1>. QED BY <1>1, KeepsFit

LEMMA RefShape ==
    ASSUME NEW kind, NEW n, NEW l, NEW at, NEW count, NEW x
    PROVE  LET r == Ref(kind, n, l, at, count, x) IN r.name = n /\ r.label = l /\ r.file = file
BY DEF Ref

LEMMA WordStep == ASSUME ScopeInv, NEW n \in Names, Word(n) PROVE ScopeInv'
<1>. DEFINE a == 4 * ((datapc + 3) \div 4)
            b == Fixed(image, a)
            c == Cleared(b, a)
            s == Looked(c, n)
            l == s.table[n]
            t == WithWord(s, a, s.labels[l].addr)
            r == Ref("word", n, l, a, 1, [off |-> 0, base |-> "zero"])
<1>1. /\ image' = t \/ image' = Recorded(t, l, [kind |-> "data", at |-> a])
      /\ line' = <<>> /\ datapc' = a + 4 /\ refs' = refs \cup {r} /\ UNCHANGED <<dir, file, defs>>
  BY DEF Word
<1>2. a \in Nat \ {0}
  BY DEF ScopeInv
<1>. HIDE DEF a
<1>3. Keeps(image, b) /\ Well(b)
  BY <1>2, KeepsFixed DEF ScopeInv, Fit, Keeps
<1>. HIDE DEF b
<1>4. Keeps(b, c)
  BY <1>3, KeepsCleared DEF ScopeInv, Fit, Keeps
<1>. HIDE DEF c
<1>5. Fit(c, line, defs, refs, file)
  BY <1>3, <1>4, KeepsFit DEF ScopeInv
<1>6. Fit(s, line, defs, refs, file) /\ l \in 1 .. Len(s.labels)
  BY <1>5, LookedFit
<1>7. r.name = n /\ r.label = l /\ r.file = file
  BY RefShape
<1>. HIDE DEF s, r
<1>8. Keeps(s, t) /\ Well(t)
  <2>. DEFINE x == [w \in {a} \cup DOMAIN s.data |-> IF w = a THEN s.labels[l].addr ELSE s.data[w]]
  <2>1. t = [s EXCEPT !.data = x]
    BY DEF WithWord
  <2>. HIDE DEF x, t
  <2>. QED BY <1>6, <2>1, KeepsData DEF Fit, Keeps
<1>. HIDE DEF t
<1>9. Keeps(s, image')
  <2>1. Keeps(t, Recorded(t, l, [kind |-> "data", at |-> a]))
    BY <1>6, <1>8, KeepsRecorded DEF Keeps
  <2>. QED BY <1>1, <1>8, <2>1, KeepsTrans
<1>10. Fit(image', line, defs, refs \cup {r}, file)
  BY <1>6, <1>7, <1>9, ReferenceAdded
<1>11. Fit(image', <<>>, defs, refs \cup {r}, file)
  BY <1>10, FitNoLine
<1>12. a + 4 \in Nat \ {0}
  BY <1>2
<1>. QED BY <1>1, <1>11, <1>12 DEF ScopeInv

LEMMA EmitStep ==
    ASSUME ScopeInv, NEW kind, NEW n \in Names, NEW x, NEW op, NEW rt, Emit(kind, n, x, op, rt)
    PROVE  ScopeInv'
<1>. DEFINE s == Looked(image, n)
            l == s.table[n]
            e == Expr(IF op = "b" THEN Wrap(-TextPc(s)) ELSE x.off, l)
            t == IF op = "j" THEN Single(s, op, rt, "zero", e) ELSE IType(s, op, rt, x.base, e)
            r == Ref(kind, n, l, Len(s.text) + 1, Len(t.text) - Len(s.text), x)
<1>1. Done(t, TextPc(s)) /\ refs' = refs \cup {r} /\ UNCHANGED <<dir, datapc, file, defs>>
  BY DEF Emit
<1>2. Fit(s, line, defs, refs, file) /\ l \in 1 .. Len(s.labels)
  BY LookedFit DEF ScopeInv
<1>3. r.name = n /\ r.label = l /\ r.file = file /\ IsExpr(e) /\ Names0(s, e)
  BY <1>2 DEF Ref, IsExpr, Names0, Expr
<1>. HIDE DEF s, e, r
<1>4. Keeps(s, t)
  BY <1>2, <1>3, KeepsSingle, KeepsIType DEF Fit
<1>. HIDE DEF t
<1>5. Fit(t, line, defs, refs \cup {r}, file)
  BY <1>2, <1>3, <1>4, ReferenceAdded
<1>6. Fit(image', line', defs, refs \cup {r}, file)
  BY <1>1, <1>5, DoneFit
<1>. QED BY <1>1, <1>6 DEF ScopeInv

LEMMA EndOfFileStep == ASSUME ScopeInv, EndOfFile PROVE ScopeInv'
<1>. DEFINE t == Cleared(image, Here(image))
<1>1. /\ image' = Flushed(t) /\ line' = <<>> /\ file' = file + 1 /\ dir' = "text"
      /\ UNCHANGED <<datapc, refs, defs>>
  BY DEF EndOfFile, Closed
<1>2. Keeps(image, t)
  BY KeepsCleared DEF ScopeInv, Fit
<1>. HIDE DEF t
<1>3. Fit(t, line, defs, refs, file)
  BY <1>2, KeepsFit DEF ScopeInv
<1>4. Fit(Flushed(t), <<>>, defs, refs, file + 1)
  BY <1>3, FlushFit
<1>. QED BY <1>1, <1>4 DEF ScopeInv

LEMMA ScopeStep == ASSUME ScopeInv, ~LateGlobals, AsmNext PROVE ScopeInv'
<1>1. CASE Segment
  <2>1. Done(image, Here(image)) /\ dir' \in {"text", "data"} /\ UNCHANGED <<datapc, file, refs, defs>>
    BY <1>1 DEF Segment
  <2>. QED BY <2>1, DoneFit DEF ScopeInv
<1>2. CASE Byte
  <2>1. Done(image, datapc) /\ datapc' = datapc + 1 /\ UNCHANGED <<dir, file, refs, defs>>
    BY <1>2 DEF Byte
  <2>2. Fit(image', line', defs, refs, file)
    BY <2>1, DoneFit DEF ScopeInv
  <2>3. datapc' \in Nat \ {0}
    BY <2>1 DEF ScopeInv
  <2>. QED BY <2>1, <2>2, <2>3 DEF ScopeInv
<1>3. ASSUME NEW n \in Names, Reference(n) PROVE ScopeInv'
  <2>1. \/ Word(n)
        \/ \E kind, x, op, rt : Emit(kind, n, x, op, rt)
    BY <1>3 DEF Reference, Load, LoadAddress, Branch, Jump
  <2>. QED BY <2>1, WordStep, EmitStep
<1>. QED BY <1>1, <1>2, <1>3, EndOfFileStep, LabelStep, GlobalStep DEF AsmNext

LEMMA ScopeStart == AsmInit => ScopeInv
<1>. SUFFICES ASSUME AsmInit PROVE ScopeInv
  OBVIOUS
<1>1. /\ image = [text |-> <<>>, data |-> <<>>, labels |-> <<>>, table |-> [n \in Names |-> None],
                  local |-> <<>>]
      /\ line = <<>> /\ dir = "text" /\ datapc = DataStart /\ file = 1 /\ refs = {} /\ defs = {}
  BY DEF AsmInit
<1>2. Well(image)
  BY <1>1, EmptyList DEF Well, Parts0
<1>3. Tied(image)
  BY <1>1 DEF Tied
<1>4. Fit(image, line, defs, refs, file)
  BY <1>1, <1>2, <1>3, EmptyList DEF Fit
<1>. QED BY <1>1, <1>4, AssemblerAssumption DEF ScopeInv

\* Within a file a name is its own definition, before and after it; between
\* files exactly the definitions declared global are found, and they are never
\* lost: record_label, lookup_label and flush_local_labels together, in programs
\* whose .globl stands before the definition.
THEOREM NamesAreScoped ==
    ASSUME ~LateGlobals
    PROVE  TargetSpec => []NamesScoped
<1>1. Start => ScopeInv
  BY ScopeStart DEF Start
<1>2. ScopeInv /\ [Run]_allVars => ScopeInv'
  <2>1. ASSUME ScopeInv, UNCHANGED asmVars PROVE ScopeInv'
    BY <2>1 DEF ScopeInv, asmVars
  <2>2. Run => UNCHANGED asmVars \/ AsmNext
    BY DEF Run
  <2>3. UNCHANGED allVars => UNCHANGED asmVars
    BY DEF allVars
  <2>. QED BY <2>1, <2>2, <2>3, ScopeStep
<1>3. ScopeInv => NamesScoped
  BY DEF ScopeInv, Fit, Agree, NamesScoped
<1>. QED BY <1>1, <1>2, <1>3, PTL DEF TargetSpec

-----------------------------------------------------------------------------
(* Halves of words *)

LEMMA SameQuotient ==
    ASSUME NEW x \in Int, NEW y \in Int, NEW d \in Int, NEW s \in Nat, NEW t \in Nat,
           s < d, t < d, (x * d) + s = (y * d) + t
    PROVE  x = y /\ s = t
<1>1. ASSUME NEW p \in Int, NEW q \in Int, NEW e \in Nat, NEW f \in Nat, e < d, f < d,
             (p * d) + e = (q * d) + f
      PROVE  ~(p < q)
  <2>1. ASSUME p < q PROVE FALSE
    <3>. DEFINE c == q - p - 1
    <3>1. c \in Nat /\ q = (p + 1) + c
      BY <2>1
    <3>. HIDE DEF c
    <3>2. c * d \in Nat
      BY <1>1, <3>1
    <3>3. q * d = (p * d) + d + (c * d)
      BY <3>1
    <3>4. p * d \in Int
      OBVIOUS
    <3>. QED BY <1>1, <3>2, <3>3, <3>4
  <2>. QED BY <2>1
<1>2. ~(x < y) /\ ~(y < x)
  BY <1>1
<1>3. x = y /\ x * d \in Int
  BY <1>2
<1>. QED BY <1>3

LEMMA ModOf ==
    ASSUME NEW n \in Int, NEW d \in Nat, NEW q \in Int, NEW r \in Nat, r < d, n = (q * d) + r
    PROVE  n % d = r /\ n \div d = q
<1>. DEFINE p == n \div d  e == n % d
<1>1. p \in Int /\ e \in Nat /\ e < d /\ n = (p * d) + e
  OBVIOUS
<1>. HIDE DEF p, e
<1>2. p = q /\ e = r
  BY <1>1, SameQuotient
<1>. QED BY <1>2 DEF p, e

LEMMA DivMod ==
    ASSUME NEW n \in Int, NEW d \in Nat, d > 0
    PROVE  n \div d \in Int /\ n % d \in 0 .. d - 1 /\ n = ((n \div d) * d) + (n % d)
OBVIOUS

\* A word is two halves; a half is of whole instructions.
LEMMA RadixShape ==
    /\ Radix \in Nat /\ Radix >= 4 /\ Radix * Radix \in Nat /\ Size = Radix * Radix /\ Size >= 4 * Radix
    /\ Region \in Nat /\ Region >= 4 /\ Region % 4 = 0 /\ Size = 4 * Region
<1>1. Radix \in Nat \ {0} /\ Radix % 4 = 0
  BY AssemblerAssumption
<1>. DEFINE q == Radix \div 4
<1>2. q \in Nat /\ Radix = 4 * q /\ q >= 1
  BY <1>1
<1>. HIDE DEF q
<1>3. Radix * Radix = 16 * (q * q) /\ q * q \in Nat
  BY <1>2
<1>. DEFINE w == q * q
<1>4. w \in Nat /\ w >= q
  <2>1. (q - 1) * q \in Nat
    BY <1>2
  <2>2. (q - 1) * q = w - q
    BY <1>2
  <2>. QED BY <1>2, <1>3, <2>1, <2>2
<1>5. Size = 16 * w
  BY <1>3 DEF Size
<1>6. Region = 4 * w
  <2>. HIDE DEF w
  <2>. QED BY <1>4, <1>5 DEF Region
<1>. HIDE DEF w
<1>7. Region \in Nat /\ Region >= 4 /\ Region % 4 = 0 /\ Size = 4 * Region /\ Size >= 4 * Radix
  BY <1>2, <1>4, <1>5, <1>6
<1>. QED BY <1>1, <1>2, <1>3, <1>7 DEF Size, w

LEMMA SizeShape == Size \in Nat /\ Size > 0
BY RadixShape

LEMMA LowHigh ==
    ASSUME NEW x \in Int
    PROVE  High(x) \in Int /\ Low(x) \in 0 .. Radix - 1 /\ x = (High(x) * Radix) + Low(x)
<1>1. Radix \in Nat /\ Radix > 0
  BY RadixShape
<1>. QED BY <1>1 DEF High, Low

LEMMA LowOf ==
    ASSUME NEW x \in Int, NEW q \in Int, NEW e \in 0 .. Radix - 1, x = (q * Radix) + e
    PROVE  Low(x) = e /\ High(x) = q
<1>1. Radix \in Nat /\ e \in Nat /\ e < Radix
  BY RadixShape
<1>. QED BY <1>1, ModOf DEF Low, High

LEMMA LowSmall ==
    ASSUME NEW x \in 0 .. Radix - 1
    PROVE  Low(x) = x /\ High(x) = 0
<1>1. Radix \in Nat
  BY RadixShape
<1>2. x \in Int /\ x = (0 * Radix) + x
  BY <1>1
<1>. QED BY <1>2, LowOf

LEMMA WrapIn ==
    ASSUME NEW x \in Int
    PROVE  Wrap(x) \in 0 .. Size - 1 /\ x \div Size \in Int /\ x = ((x \div Size) * Size) + Wrap(x)
BY SizeShape DEF Wrap

LEMMA WrapOf ==
    ASSUME NEW x \in Int, NEW q \in Int, NEW e \in 0 .. Size - 1, x = (q * Size) + e
    PROVE  Wrap(x) = e
<1>1. Size \in Nat /\ e \in Nat /\ e < Size
  BY SizeShape
<1>. QED BY <1>1, ModOf DEF Wrap

LEMMA WrapSmall ==
    ASSUME NEW x \in 0 .. Size - 1
    PROVE  Wrap(x) = x
<1>1. x \in Int /\ x = (0 * Size) + x
  BY SizeShape
<1>. QED BY <1>1, WrapOf

LEMMA WrapShift ==
    ASSUME NEW x \in Int, NEW y \in Int, NEW k \in Int, x = y + (k * Size)
    PROVE  Wrap(x) = Wrap(y)
<1>. DEFINE q == y \div Size
            e == Wrap(y)
<1>1. Size \in Nat /\ Size > 0 /\ q \in Int /\ e \in 0 .. Size - 1 /\ y = (q * Size) + e
  BY SizeShape, WrapIn
<1>. HIDE DEF q, e
<1>2. x = ((q + k) * Size) + e /\ q + k \in Int
  BY <1>1
<1>. QED BY <1>1, <1>2, WrapOf DEF e

\* Sums may be wrapped early.
LEMMA WrapPlus ==
    ASSUME NEW x \in Int, NEW y \in Int
    PROVE  Wrap(Wrap(x) + y) = Wrap(x + y) /\ Wrap(y + Wrap(x)) = Wrap(x + y)
<1>. DEFINE q == x \div Size
            e == Wrap(x)
<1>1. Size \in Nat /\ q \in Int /\ e \in 0 .. Size - 1 /\ x = (q * Size) + e
  BY SizeShape, WrapIn
<1>. HIDE DEF q, e
<1>2. x + y \in Int /\ e + y \in Int /\ x + y = (e + y) + (q * Size)
  BY <1>1
<1>3. Wrap(x + y) = Wrap(e + y)
  BY <1>1, <1>2, WrapShift
<1>. QED BY <1>1, <1>3 DEF e

LEMMA HighSmall ==
    ASSUME NEW x \in 0 .. Size - 1
    PROVE  High(x) \in 0 .. Radix - 1 /\ Low(High(x)) = High(x)
<1>. DEFINE h == High(x)
            e == Low(x)
<1>1. h \in Int /\ e \in 0 .. Radix - 1 /\ x = (h * Radix) + e /\ x \in Int /\ 0 <= x /\ x < Size
  BY LowHigh, SizeShape
<1>2. Radix \in Nat /\ Radix > 0 /\ Size = Radix * Radix
  BY RadixShape
<1>. HIDE DEF h, e
<1>3. ASSUME h < 0 PROVE FALSE
  <2>1. (-(h + 1)) * Radix \in Nat
    BY <1>1, <1>2, <1>3
  <2>2. (-(h + 1)) * Radix = -(h * Radix) - Radix
    BY <1>1, <1>2
  <2>. QED BY <1>1, <1>2, <2>1, <2>2
<1>4. ASSUME h >= Radix PROVE FALSE
  <2>1. (h - Radix) * Radix \in Nat
    BY <1>1, <1>2, <1>4
  <2>2. (h - Radix) * Radix = (h * Radix) - (Radix * Radix)
    BY <1>1, <1>2
  <2>. QED BY <1>1, <1>2, <2>1, <2>2
<1>5. h \in 0 .. Radix - 1
  BY <1>1, <1>2, <1>3, <1>4
<1>. QED BY <1>5, LowSmall DEF h

\* The sign of a half.
LEMMA SignExShape ==
    ASSUME NEW x \in Int
    PROVE  /\ 2 * Low(x) < Radix => SignEx(x) = Low(x)
           /\ 2 * Low(x) >= Radix => SignEx(x) = (Size - Radix) + Low(x) /\ SignEx(x) # Low(x)
           /\ SignEx(x) \in 0 .. Size - 1
<1>. DEFINE e == Low(x)
<1>1. e \in 0 .. Radix - 1 /\ Radix \in Nat /\ Size \in Nat /\ Size >= 4 * Radix /\ Radix >= 4
  BY LowHigh, RadixShape
<1>. HIDE DEF e
<1>2. /\ (Size - Radix) + e \in 0 .. Size - 1 /\ e - Radix \in Int
      /\ e - Radix = ((-1) * Size) + ((Size - Radix) + e) /\ (Size - Radix) + e # e
  BY <1>1
<1>3. Wrap(e - Radix) = (Size - Radix) + e
  BY <1>2, WrapOf
<1>. QED BY <1>1, <1>2, <1>3 DEF SignEx, e

LEMMA LowLow ==
    ASSUME NEW x \in Int
    PROVE  Low(x) \in Int /\ Low(Low(x)) = Low(x) /\ SignEx(Low(x)) = SignEx(x)
<1>1. Low(x) \in 0 .. Radix - 1 /\ Low(x) \in Int
  BY LowHigh
<1>2. Low(Low(x)) = Low(x)
  BY <1>1, LowSmall
<1>. QED BY <1>1, <1>2 DEF SignEx

-----------------------------------------------------------------------------
(* References: the code made for them, and what is left to do *)

\* The parts of an instruction; all of an image.
IsInst(i) ==
    /\ i = [op |-> i.op, rt |-> i.rt, rs |-> i.rs, imm |-> i.imm, expr |-> i.expr]
    /\ i.expr = [off |-> i.expr.off, sym |-> i.expr.sym, bits |-> i.expr.bits]
Formed(s) == Well(s) /\ \A k \in 1 .. Len(s.text) : IsInst(s.text[k])

\* The same image but for its instructions; with the same labels.
TextOnly(s, t) ==
    /\ Formed(t) /\ t.data = s.data /\ t.labels = s.labels /\ t.table = s.table
    /\ t.local = s.local
SameText(s, t) == TextOnly(s, t) /\ Len(t.text) = Len(s.text)

\* The instruction that the lower half at k compensates, if it does.
LuiOf(s, k) == LET sym == s.text[k].expr.sym IN IF Lui(s, k - 1, sym) THEN k - 1 ELSE k - 2
Carries(s, k) ==
    LET v == Eval(s, s.text[k].expr) IN
    s.text[k].op = "lw" /\ SignEx(v) # Low(v) /\ Lui(s, LuiOf(s, k), s.text[k].expr.sym)
Carried(i) == [i EXCEPT !.expr.off = @ + Radix]
ImmAt(s, k) ==
    LET i == s.text[k]
        v == Eval(s, i.expr)
    IN CASE i.op = "b" -> BranchOffset(s, i, PcOf(k)) [] i.op = "j" -> (v % Region) \div 4
         [] OTHER -> Low(v)

LEMMA TextSet ==
    ASSUME NEW s, Formed(s), NEW x, IsList(x), \A k \in 1 .. Len(x) : IsInst(x[k])
    PROVE  TextOnly(s, [s EXCEPT !.text = x]) /\ [s EXCEPT !.text = x].text = x
<1>. DEFINE t == [s EXCEPT !.text = x]
<1>1. Keeps(s, t)
  BY KeepsText DEF Formed
<1>2. t.text = x /\ t.data = s.data /\ t.labels = s.labels /\ t.table = s.table /\ t.local = s.local
  BY DEF Formed, Well, Parts0
<1>. HIDE DEF t
<1>3. TextOnly(s, t) /\ t.text = x
  BY <1>1, <1>2 DEF TextOnly, Formed, Keeps
<1>. QED BY <1>3 DEF t

\* One instruction is replaced.
LEMMA OneSet ==
    ASSUME NEW s, Formed(s), NEW k \in 1 .. Len(s.text), NEW i, IsInst(i)
    PROVE  LET t == [s EXCEPT !.text[k] = i] IN
           SameText(s, t) /\ \A j \in 1 .. Len(s.text) : t.text[j] = IF j = k THEN i ELSE s.text[j]
<1>. DEFINE x == [s.text EXCEPT ![k] = i]
            t == [s EXCEPT !.text[k] = i]
<1>1. t = [s EXCEPT !.text = x]
  OBVIOUS
<1>2. DOMAIN s.text = 1 .. Len(s.text) /\ Len(s.text) \in Nat
  BY ListShape DEF Formed, Well
<1>3. x = [j \in DOMAIN s.text |-> x[j]] /\ \A j \in 1 .. Len(s.text) : x[j] = IF j = k THEN i ELSE s.text[j]
  BY <1>2
<1>. HIDE DEF x, t
<1>4. IsList(x) /\ Len(x) = Len(s.text)
  BY <1>3, SameDomain DEF Formed, Well
<1>5. \A j \in 1 .. Len(x) : IsInst(x[j])
  BY <1>3, <1>4 DEF Formed
<1>6. TextOnly(s, t) /\ t.text = x
  BY <1>1, <1>4, <1>5, TextSet
<1>7. SameText(s, t) /\ \A j \in 1 .. Len(s.text) : t.text[j] = IF j = k THEN i ELSE s.text[j]
  BY <1>3, <1>4, <1>6 DEF SameText
<1>. QED BY <1>7 DEF t

\* resolve_a_label_sub, instruction by instruction.
LEMMA ResolvedShape ==
    ASSUME NEW s, Formed(s), NEW k \in 1 .. Len(s.text)
    PROVE  LET t == Resolved(s, k) IN
           /\ SameText(s, t)
           /\ \A j \in 1 .. Len(s.text) :
                 t.text[j] = IF j = k THEN [s.text[k] EXCEPT !.imm = ImmAt(s, k)]
                             ELSE IF j = LuiOf(s, k) /\ Carries(s, k) THEN Carried(s.text[j])
                             ELSE s.text[j]
<1>. DEFINE i == s.text[k]
            v == Eval(s, i.expr)
            d == ImmAt(s, k)
            l == LuiOf(s, k)
            c == IF Carries(s, k) THEN [s EXCEPT !.text[l] = Carried(s.text[l])] ELSE s
            t == [c EXCEPT !.text[k] = [c.text[k] EXCEPT !.imm = d]]
<1>0. Len(s.text) \in Nat
  BY ListShape DEF Formed, Well
<1>1. Resolved(s, k) = t
  <2>1. i.op = "lw" => Compensated(s, k, v) = c
    BY DEF Compensated, Carries, LuiOf, Carried
  <2>2. i.op # "lw" => c = s
    BY DEF Carries
  <2>3. i.op = "lw" => Resolved(s, k) = [Compensated(s, k, v) EXCEPT !.text[k].imm = d]
    BY DEF Resolved, ImmAt
  <2>4. i.op # "lw" => Resolved(s, k) = [s EXCEPT !.text[k].imm = d]
    BY DEF Resolved, ImmAt
  <2>. HIDE DEF c, d
  <2>5. Resolved(s, k) = [c EXCEPT !.text[k].imm = d]
    BY <2>1, <2>2, <2>3, <2>4
  <2>. QED BY <2>5
<1>2. Carries(s, k) => l \in 1 .. Len(s.text) /\ l # k /\ IsInst(Carried(s.text[l]))
  <2>. SUFFICES ASSUME Carries(s, k) PROVE l \in 1 .. Len(s.text) /\ l # k /\ IsInst(Carried(s.text[l]))
    OBVIOUS
  <2>1. (l = k - 1 \/ l = k - 2) /\ l > 0
    BY DEF Carries, LuiOf, Lui
  <2>2. l \in 1 .. Len(s.text) /\ l # k
    BY <1>0, <2>1
  <2>. HIDE DEF l
  <2>3. IsInst(s.text[l])
    BY <2>2 DEF Formed
  <2>. QED BY <2>2, <2>3 DEF IsInst, Carried
<1>. HIDE DEF l, d
<1>3. /\ SameText(s, c)
      /\ \A j \in 1 .. Len(s.text) :
            c.text[j] = IF j = l /\ Carries(s, k) THEN Carried(s.text[j]) ELSE s.text[j]
  <2>1. CASE Carries(s, k)
    BY <1>2, <2>1, OneSet
  <2>2. CASE ~Carries(s, k)
    BY <2>2 DEF SameText, TextOnly
  <2>. QED BY <2>1, <2>2
<1>4. c.text[k] = s.text[k] /\ k \in 1 .. Len(c.text) /\ Formed(c)
  BY <1>2, <1>3 DEF SameText, TextOnly
<1>. HIDE DEF c
<1>5. IsInst([c.text[k] EXCEPT !.imm = d])
  <2>1. IsInst(c.text[k])
    BY <1>4 DEF Formed
  <2>. QED BY <2>1 DEF IsInst
<1>6. /\ SameText(c, t)
      /\ \A j \in 1 .. Len(c.text) :
            t.text[j] = IF j = k THEN [c.text[k] EXCEPT !.imm = d] ELSE c.text[j]
  BY <1>4, <1>5, OneSet
<1>. HIDE DEF t
<1>7. SameText(s, t)
  BY <1>3, <1>6 DEF SameText, TextOnly
<1>8. ASSUME NEW j \in 1 .. Len(s.text)
      PROVE  t.text[j] = IF j = k THEN [s.text[k] EXCEPT !.imm = d]
                         ELSE IF j = l /\ Carries(s, k) THEN Carried(s.text[j]) ELSE s.text[j]
  <2>1. j \in 1 .. Len(c.text)
    BY <1>3 DEF SameText
  <2>. QED BY <1>2, <1>3, <1>4, <1>6, <2>1
<1>. QED BY <1>1, <1>7, <1>8 DEF l, d

\* The instructions of a reference, and those or the word that take the address.
Final(r) == (r.at + r.count) - 1
Span(r) == r.at .. Final(r)
InstAt(k) == [kind |-> "inst", at |-> k]
DataAt(w) == [kind |-> "data", at |-> w]
Sites(r) == IF r.kind = "word" THEN {DataAt(r.at)} ELSE {InstAt(r.at), InstAt(Final(r))}

\* A reference is one of its kind, and lies in the text or the data before top.
Lies(s, r, top) ==
    /\ r.label \in 1 .. Len(s.labels) /\ r.at \in Nat \ {0} /\ r.count \in 1 .. 3
    /\ r.x.off \in Int /\ r.x.base \in {"zero", "base"}
    /\ \/ r.kind = "word" /\ r.at \in DOMAIN s.data /\ r.at < top
       \/ r.kind # "word" /\ Final(r) <= Len(s.text)
    /\ r.kind \in {"load", "value", "branch", "jump", "word"}
    /\ r.kind # "load" => r.x.base = "zero"
    /\ r.kind \in {"branch", "jump", "word"} => r.count = 1 /\ r.x.off = 0
Apart(q, r) ==
    \/ q.kind = "word" /\ r.kind = "word" /\ q.at # r.at
    \/ q.kind # "word" /\ r.kind # "word" /\ (Final(q) < r.at \/ Final(r) < q.at)
    \/ (q.kind = "word") # (r.kind = "word")

\* The immediate of a branch over v, and what a negative lower half carries over.
Branched(v, dl) ==
    LET d == Signed(SignEx(v)) \div 4 IN Low(IF dl THEN d - 1 ELSE d)
Carry(v) == IF SignEx(v) = Low(v) THEN 0 ELSE Radix

\* The code of r made before its label was known, where the uses in U are not
\* resolved yet: by kind.
Address(s, r) == s.labels[r.label].addr
WordCode(s, r, U) == DataAt(r.at) \in U \/ s.data[r.at] = Address(s, r)
BranchCode(s, r, U, dl) ==
    LET i == s.text[r.at] IN
    /\ i.op = "b" /\ i.expr.sym = r.label /\ i.expr.bits \in {"all", "lower"}
    /\ InstAt(r.at) \in U \/ i.imm = Branched(Wrap(Address(s, r) - PcOf(r.at)), dl)
JumpCode(s, r, U) ==
    LET i == s.text[r.at] IN
    /\ i.op = "j" /\ i.expr = Expr(0, r.label)
    /\ InstAt(r.at) \in U \/ i.imm = (Wrap(Address(s, r)) % Region) \div 4
HalvesCode(s, r, U) ==
    LET v == Wrap(r.x.off + Address(s, r))
        i == s.text[r.at]
        j == s.text[Final(r)]
        add == s.text[r.at + 1]
        off == IF r.kind = "load" /\ InstAt(Final(r)) \notin U THEN r.x.off + Carry(v) ELSE r.x.off
    IN /\ r.count = IF r.x.base = "zero" THEN 2 ELSE 3
       /\ i.op = "lui" /\ i.rt = "at" /\ i.expr = Upper(Expr(off, r.label))
       /\ i.imm = IF InstAt(r.at) \in U THEN 0 ELSE High(Wrap(off + Address(s, r)))
       /\ r.count = 3 => add.op = "addu" /\ add.rt = "at" /\ add.rs = r.x.base
       /\ j.op = (IF r.kind = "load" THEN "lw" ELSE "ori") /\ j.rt = "t0" /\ j.rs = "at"
       /\ j.expr = Lower(Expr(r.x.off, r.label))
       /\ InstAt(Final(r)) \in U \/ j.imm = Low(v)
Code(s, r, U, dl) ==
    CASE r.kind = "word" -> WordCode(s, r, U) [] r.kind = "branch" -> BranchCode(s, r, U, dl)
      [] r.kind = "jump" -> JumpCode(s, r, U) [] OTHER -> HalvesCode(s, r, U)

\* What r does not share with others is as it was.
SameCode(s, t, r) ==
    /\ Address(t, r) = Address(s, r)
    /\ r.kind = "word" => t.data[r.at] = s.data[r.at]
    /\ r.kind # "word" => \A k \in Span(r) : t.text[k] = s.text[k]

LEMMA SpanShape ==
    ASSUME NEW s, NEW r, NEW top, Lies(s, r, top)
    PROVE  /\ Final(r) \in Nat /\ r.at <= Final(r) /\ Span(r) \subseteq Nat \ {0}
           /\ r.at \in Span(r) /\ Final(r) \in Span(r)
           /\ r.count = 1 => Final(r) = r.at
           /\ r.count = 2 => Final(r) = r.at + 1
           /\ r.count = 3 => Final(r) = r.at + 2 /\ r.at + 1 \in Span(r)
<1>1. r.at \in Nat \ {0} /\ r.count \in 1 .. 3
  BY DEF Lies
<1>. QED BY <1>1 DEF Final, Span

LEMMA CodeSame ==
    ASSUME NEW s, NEW t, NEW r, NEW top, Lies(s, r, top), NEW dl, NEW U, SameCode(s, t, r),
           Code(s, r, U, dl)
    PROVE  Code(t, r, U, dl)
<1>1. CASE r.kind = "word"
  BY <1>1 DEF Code, WordCode, SameCode
<1>2. CASE r.kind # "word"
  <2>1. /\ t.text[r.at] = s.text[r.at] /\ t.text[Final(r)] = s.text[Final(r)]
        /\ r.count = 3 => t.text[r.at + 1] = s.text[r.at + 1]
        /\ Address(t, r) = Address(s, r)
    BY <1>2, SpanShape DEF SameCode
  <2>2. CASE r.kind = "branch"
    BY <2>1, <2>2 DEF Code, BranchCode
  <2>3. CASE r.kind = "jump"
    BY <2>1, <2>3 DEF Code, JumpCode
  <2>4. CASE r.kind \notin {"word", "branch", "jump"}
    <3>1. HalvesCode(s, r, U)
      BY <2>4 DEF Code
    <3>2. HalvesCode(t, r, U)
      BY <2>1, <3>1 DEF HalvesCode
    <3>. QED BY <2>4, <3>2 DEF Code
  <2>. QED BY <1>2, <2>2, <2>3, <2>4
<1>. QED BY <1>1, <1>2

\* The references of an image.
Placed(s, R, top) ==
    /\ \A r \in R : Lies(s, r, top)
    /\ \A q, r \in R : q # r => Apart(q, r)

\* A site belongs to one reference.
LEMMA SitesApart ==
    ASSUME NEW s, NEW R, NEW top, Placed(s, R, top), NEW q \in R, NEW r \in R, q # r
    PROVE  /\ Sites(q) \cap Sites(r) = {}
           /\ q.kind # "word" /\ r.kind # "word" => Span(q) \cap Span(r) = {}
           /\ q.kind = "word" /\ r.kind = "word" => q.at # r.at
<1>1. Apart(q, r) /\ Lies(s, q, top) /\ Lies(s, r, top)
  BY DEF Placed
<1>2. /\ q.at \in Nat /\ r.at \in Nat /\ Final(q) \in Nat /\ Final(r) \in Nat
      /\ q.at <= Final(q) /\ r.at <= Final(r)
  BY <1>1, SpanShape DEF Lies
<1>3. \A j, k : DataAt(j) # InstAt(k) /\ (InstAt(j) = InstAt(k) => j = k) /\ (DataAt(j) = DataAt(k) => j = k)
  <2>. TAKE j, k
  <2>1. DataAt(j).kind = "data" /\ InstAt(k).kind = "inst" /\ DataAt(j).at = j /\ InstAt(j).at = j
        /\ DataAt(k).at = k /\ InstAt(k).at = k
    BY DEF DataAt, InstAt
  <2>. QED BY <2>1
<1>. HIDE DEF Final
<1>4. CASE q.kind = "word" /\ r.kind = "word"
  BY <1>1, <1>3, <1>4 DEF Apart, Sites
<1>5. CASE q.kind # "word" /\ r.kind # "word"
  <2>1. Final(q) < r.at \/ Final(r) < q.at
    BY <1>1, <1>5 DEF Apart
  <2>2. Span(q) \cap Span(r) = {}
    BY <1>2, <2>1 DEF Span
  <2>3. q.at # r.at /\ q.at # Final(r) /\ Final(q) # r.at /\ Final(q) # Final(r)
    BY <1>2, <2>1
  <2>4. Sites(q) \cap Sites(r) = {}
    BY <1>3, <1>5, <2>3 DEF Sites
  <2>. QED BY <1>5, <2>2, <2>4
<1>6. CASE (q.kind = "word") # (r.kind = "word")
  BY <1>3, <1>6 DEF Sites
<1>. QED BY <1>4, <1>5, <1>6

-----------------------------------------------------------------------------
(* One use is resolved *)

\* The uses of r not resolved yet are those of a tail of its sites.
Tail0(r, U) == U \subseteq Sites(r) /\ (InstAt(Final(r)) \in U => InstAt(r.at) \in U)

LEMMA SiteShape ==
    \A j, k : /\ InstAt(j).at = j /\ InstAt(j).kind = "inst" /\ DataAt(j).at = j
              /\ DataAt(j).kind = "data" /\ DataAt(j) # InstAt(k)
              /\ InstAt(j) = InstAt(k) => j = k
              /\ DataAt(j) = DataAt(k) => j = k
<1>. TAKE j, k
<1>1. /\ DataAt(j).kind = "data" /\ InstAt(k).kind = "inst" /\ DataAt(j).at = j
      /\ InstAt(j).at = j /\ InstAt(j).kind = "inst" /\ DataAt(k).at = k /\ InstAt(k).at = k
  BY DEF DataAt, InstAt
<1>. QED BY <1>1

\* What is outside the code of r is the code of the others.
LEMMA OthersSame ==
    ASSUME NEW s, NEW R, NEW top, Placed(s, R, top), NEW r \in R, r.kind # "word", NEW t,
           SameText(s, t), \A j \in 1 .. Len(s.text) : j \notin Span(r) => t.text[j] = s.text[j],
           NEW q \in R, q # r
    PROVE  SameCode(s, t, q)
<1>1. Lies(s, q, top)
  BY DEF Placed
<1>2. Address(t, q) = Address(s, q) /\ t.data = s.data
  BY DEF SameText, TextOnly, Address
<1>3. CASE q.kind = "word"
  BY <1>2, <1>3 DEF SameCode
<1>4. CASE q.kind # "word"
  <2>1. Span(q) \cap Span(r) = {}
    BY <1>4, SitesApart
  <2>2. q.at \in Nat \ {0} /\ Final(q) <= Len(s.text) /\ Final(q) \in Nat
    BY <1>1, <1>4, SpanShape DEF Lies
  <2>3. ASSUME NEW k \in Span(q) PROVE k \in 1 .. Len(s.text)
    <3>. HIDE DEF Final
    <3>1. Formed(t) /\ Len(s.text) = Len(t.text) /\ Len(t.text) \in Nat
      BY ListShape DEF SameText, TextOnly, Formed, Well
    <3>. QED BY <2>2, <3>1 DEF Span
  <2>. QED BY <1>2, <1>4, <2>1, <2>3 DEF SameCode
<1>. QED BY <1>3, <1>4

\* A word takes the address.
LEMMA WordUse ==
    ASSUME NEW s, Formed(s), NEW R, NEW top, Placed(s, R, top), NEW r \in R, r.kind = "word",
           NEW U, Tail0(r, U), NEW u \in U, NEW dl
    PROVE  LET t == ResolveUse(s, r.label, u) IN
           /\ Formed(t) /\ t.text = s.text /\ t.labels = s.labels /\ t.table = s.table
           /\ t.local = s.local /\ DOMAIN t.data = DOMAIN s.data
           /\ Code(t, r, U \ {u}, dl) /\ \A q \in R : q # r => SameCode(s, t, q)
<1>. DEFINE t == ResolveUse(s, r.label, u)
            x == [s.data EXCEPT ![r.at] = s.labels[r.label].addr]
<1>1. u = DataAt(r.at) /\ u.kind = "data" /\ u.at = r.at
  BY SiteShape DEF Tail0, Sites
<1>2. t = [s EXCEPT !.data = x]
  BY <1>1 DEF ResolveUse
<1>3. Lies(s, r, top) /\ r.at \in DOMAIN s.data
  BY DEF Placed, Lies
<1>4. /\ DOMAIN x = DOMAIN s.data /\ x[r.at] = s.labels[r.label].addr
      /\ \A w \in DOMAIN s.data : w # r.at => x[w] = s.data[w]
  BY <1>3
<1>. HIDE DEF x, t
<1>5. Keeps(s, t)
  BY <1>2, KeepsData DEF Formed
<1>6. /\ t.text = s.text /\ t.labels = s.labels /\ t.table = s.table /\ t.local = s.local
      /\ t.data = x
  BY <1>2 DEF Formed, Well, Parts0
<1>7. Formed(t)
  BY <1>5, <1>6 DEF Formed, Keeps
<1>8. Code(t, r, U \ {u}, dl)
  BY <1>4, <1>6 DEF Code, WordCode, Address
<1>9. ASSUME NEW q \in R, q # r PROVE SameCode(s, t, q)
  <2>1. q.kind = "word" => q.at # r.at
    BY <1>9, SitesApart
  <2>2. q.kind = "word" => q.at \in DOMAIN s.data
    BY DEF Placed, Lies
  <2>. QED BY <1>4, <1>6, <2>1, <2>2 DEF SameCode, Address
<1>. QED BY <1>4, <1>6, <1>7, <1>8, <1>9 DEF t

\* What the evaluation of a use gives.
LEMMA EvalOf ==
    ASSUME NEW s, NEW l \in Nat \ {0}, NEW off \in Int, s.labels[l].addr \in Nat
    PROVE  LET v == Wrap(off + s.labels[l].addr) IN
           /\ Eval(s, Expr(off, l)) = v
           /\ Eval(s, Upper(Expr(off, l))) = High(v) /\ Eval(s, Lower(Expr(off, l))) = Low(v)
BY DEF Eval, Expr, Upper, Lower, None

LEMMA JumpUse ==
    ASSUME NEW s, Formed(s), NEW R, NEW top, Placed(s, R, top), NEW r \in R, r.kind = "jump",
           Address(s, r) \in Nat, NEW U, Tail0(r, U), NEW u \in U, NEW dl, Code(s, r, U, dl)
    PROVE  LET t == ResolveUse(s, r.label, u) IN
           /\ SameText(s, t) /\ Code(t, r, U \ {u}, dl) /\ \A q \in R : q # r => SameCode(s, t, q)
<1>. DEFINE t == ResolveUse(s, r.label, u)
            k == r.at
<1>1. Lies(s, r, top) /\ r.count = 1 /\ r.label \in Nat \ {0} /\ k \in 1 .. Len(s.text)
  <2>1. Lies(s, r, top) /\ r.count = 1 /\ r.at \in Nat \ {0}
    BY DEF Placed, Lies
  <2>2. Final(r) = r.at /\ Final(r) <= Len(s.text) /\ Len(s.text) \in Nat /\ Len(s.labels) \in Nat
    BY <2>1, SpanShape, ListShape DEF Lies, Formed, Well
  <2>. QED BY <2>1, <2>2 DEF Lies
<1>2. Final(r) = k /\ Span(r) = {k}
  <2>1. Final(r) = k /\ k \in Nat
    BY <1>1, SpanShape DEF Lies
  <2>. QED BY <2>1 DEF Span
<1>3. u = InstAt(k) /\ t = Resolved(s, k)
  BY <1>2, SiteShape DEF Tail0, Sites, ResolveUse
<1>4. s.text[k].op = "j" /\ s.text[k].expr = Expr(0, r.label)
  BY DEF Code, JumpCode
<1>. HIDE DEF t
<1>5. /\ SameText(s, t) /\ t.text[k] = [s.text[k] EXCEPT !.imm = ImmAt(s, k)]
      /\ \A j \in 1 .. Len(s.text) : j # k => t.text[j] = s.text[j]
  BY <1>1, <1>3, <1>4, ResolvedShape DEF Carries
<1>6. Eval(s, s.text[k].expr) = Wrap(Address(s, r))
  BY <1>1, <1>4, EvalOf DEF Address
<1>7. ImmAt(s, k) = (Wrap(Address(s, r)) % Region) \div 4
  BY <1>4, <1>6 DEF ImmAt
<1>8. IsInst(s.text[k])
  BY <1>1 DEF Formed
<1>9. t.text[k].op = "j" /\ t.text[k].expr = Expr(0, r.label) /\ t.text[k].imm = ImmAt(s, k)
  BY <1>4, <1>5, <1>8 DEF IsInst
<1>10. Code(t, r, U \ {u}, dl)
  BY <1>5, <1>7, <1>9 DEF Code, JumpCode, SameText, TextOnly, Address
<1>11. \A q \in R : q # r => SameCode(s, t, q)
  BY <1>2, <1>5, OthersSame
<1>. QED BY <1>5, <1>10, <1>11 DEF t

LEMMA TextLength == ASSUME NEW s, Formed(s) PROVE Len(s.text) \in Nat /\ Len(s.labels) \in Nat
BY ListShape DEF Formed, Well

\* Where the instructions of a reference are.
LEMMA InstPlace ==
    ASSUME NEW s, Formed(s), NEW R, NEW top, Placed(s, R, top), NEW r \in R, r.kind # "word"
    PROVE  /\ Lies(s, r, top) /\ r.label \in Nat \ {0} /\ r.label \in 1 .. Len(s.labels)
           /\ r.at \in 1 .. Len(s.text) /\ Final(r) \in 1 .. Len(s.text) /\ r.at <= Final(r)
           /\ \A k \in Span(r) : k \in 1 .. Len(s.text)
<1>1. Lies(s, r, top)
  BY DEF Placed
<1>2. Final(r) <= Len(s.text) /\ Len(s.text) \in Nat /\ Len(s.labels) \in Nat
  BY <1>1, TextLength DEF Lies
<1>3. Final(r) \in Nat /\ r.at <= Final(r) /\ r.at \in Nat \ {0} /\ r.label \in 1 .. Len(s.labels)
  BY <1>1, SpanShape DEF Lies
<1>. HIDE DEF Final
<1>. QED BY <1>1, <1>2, <1>3 DEF Span

\* The immediate of a branch.
LEMMA BranchImm ==
    ASSUME NEW s, NEW i, NEW l \in Nat \ {0}, s.labels[l].addr \in Nat, NEW pc0 \in Int,
           i.expr = [off |-> i.expr.off, sym |-> l, bits |-> i.expr.bits],
           i.expr.bits \in {"all", "lower"}
    PROVE  BranchOffset(s, i, pc0) = Branched(Wrap(s.labels[l].addr - pc0), delayed)
<1>. DEFINE e == [i.expr EXCEPT !.off = 0 - pc0]
            v == Wrap(s.labels[l].addr - pc0)
<1>1. e = [off |-> 0 - pc0, sym |-> l, bits |-> i.expr.bits]
  OBVIOUS
<1>2. (0 - pc0) + s.labels[l].addr = s.labels[l].addr - pc0 /\ s.labels[l].addr - pc0 \in Int
  OBVIOUS
<1>3. Eval(s, e) = IF i.expr.bits = "lower" THEN Low(v) ELSE v
  BY <1>1, <1>2 DEF Eval, None
<1>4. v \in Int
  BY <1>2, WrapIn
<1>. HIDE DEF e, v
<1>5. SignEx(Eval(s, e)) = SignEx(v)
  BY <1>3, <1>4, LowLow
<1>. QED BY <1>5 DEF BranchOffset, Branched, e, v

LEMMA BranchUse ==
    ASSUME NEW s, Formed(s), NEW R, NEW top, Placed(s, R, top), NEW r \in R, r.kind = "branch",
           Address(s, r) \in Nat, NEW U, Tail0(r, U), NEW u \in U, Code(s, r, U, delayed)
    PROVE  LET t == ResolveUse(s, r.label, u) IN
           /\ SameText(s, t) /\ Code(t, r, U \ {u}, delayed)
           /\ \A q \in R : q # r => SameCode(s, t, q)
<1>. DEFINE t == ResolveUse(s, r.label, u)
            k == r.at
<1>1. Lies(s, r, top) /\ r.label \in Nat \ {0} /\ k \in 1 .. Len(s.text) /\ r.count = 1
  BY InstPlace DEF Lies
<1>2. Final(r) = k /\ Span(r) = {k} /\ k \in Nat
  <2>1. Final(r) = k /\ k \in Nat
    BY <1>1, SpanShape DEF Lies
  <2>. QED BY <2>1 DEF Span
<1>3. u = InstAt(k) /\ t = Resolved(s, k)
  BY <1>2, SiteShape DEF Tail0, Sites, ResolveUse
<1>4. s.text[k].op = "b" /\ s.text[k].expr.sym = r.label /\ s.text[k].expr.bits \in {"all", "lower"}
  BY DEF Code, BranchCode
<1>. HIDE DEF t
<1>5. /\ SameText(s, t) /\ t.text[k] = [s.text[k] EXCEPT !.imm = ImmAt(s, k)]
      /\ \A j \in 1 .. Len(s.text) : j # k => t.text[j] = s.text[j]
  BY <1>1, <1>3, <1>4, ResolvedShape DEF Carries
<1>6. IsInst(s.text[k])
  BY <1>1 DEF Formed
<1>7. PcOf(k) \in Int
  BY <1>2, AssemblerAssumption DEF PcOf
<1>8. BranchOffset(s, s.text[k], PcOf(k)) = Branched(Wrap(Address(s, r) - PcOf(k)), delayed)
  BY <1>1, <1>4, <1>6, <1>7, BranchImm DEF IsInst, Address
<1>9. ImmAt(s, k) = Branched(Wrap(Address(s, r) - PcOf(k)), delayed)
  BY <1>4, <1>8 DEF ImmAt
<1>10. /\ t.text[k].op = "b" /\ t.text[k].expr = s.text[k].expr /\ t.text[k].imm = ImmAt(s, k)
  BY <1>4, <1>5, <1>6 DEF IsInst
<1>11. Code(t, r, U \ {u}, delayed)
  BY <1>4, <1>5, <1>9, <1>10 DEF Code, BranchCode, SameText, TextOnly, Address
<1>12. \A q \in R : q # r => SameCode(s, t, q)
  BY <1>2, <1>5, OthersSame
<1>. QED BY <1>5, <1>11, <1>12 DEF t

\* The first use of two halves, the upper one: resolved last.
LEMMA UpperUse ==
    ASSUME NEW s, Formed(s), NEW R, NEW top, Placed(s, R, top), NEW r \in R,
           r.kind \in {"load", "value"}, Address(s, r) \in Nat, NEW U, Tail0(r, U),
           InstAt(r.at) \in U, InstAt(Final(r)) \notin U, HalvesCode(s, r, U)
    PROVE  LET t == Resolved(s, r.at) IN
           /\ SameText(s, t) /\ HalvesCode(t, r, U \ {InstAt(r.at)})
           /\ \A q \in R : q # r => SameCode(s, t, q)
<1>. DEFINE t == Resolved(s, r.at)
            k == r.at
            j == Final(r)
            u == InstAt(r.at)
            off == IF r.kind = "load" THEN r.x.off + Carry(Wrap(r.x.off + Address(s, r))) ELSE r.x.off
            v == Wrap(off + Address(s, r))
<1>1. /\ Lies(s, r, top) /\ r.label \in Nat \ {0} /\ k \in 1 .. Len(s.text)
      /\ j \in 1 .. Len(s.text) /\ k \in Nat /\ r.x.off \in Int
  BY InstPlace, TextLength DEF Lies
<1>2. k \in Span(r) /\ k # j /\ k + 1 # k /\ (r.count = 3 => k + 1 \in 1 .. Len(s.text))
  <2>1. r.count = 2 \/ r.count = 3
    BY DEF HalvesCode
  <2>2. r.count = 3 => k + 1 \in Span(r)
    BY <1>1, SpanShape
  <2>. QED BY <1>1, <2>1, <2>2, SpanShape, InstPlace
<1>3. /\ s.text[k].op = "lui" /\ s.text[k].rt = "at" /\ s.text[k].expr = Upper(Expr(off, r.label))
  BY DEF HalvesCode
<1>4. off \in Int /\ v \in 0 .. Size - 1
  <2>1. Radix \in Int
    BY RadixShape
  <2>2. off \in Int
    BY <1>1, <2>1 DEF Carry
  <2>. HIDE DEF off
  <2>3. off + Address(s, r) \in Int
    BY <2>2
  <2>. QED BY <2>2, <2>3, WrapIn
<1>. HIDE DEF t, off
<1>5. /\ SameText(s, t) /\ t.text[k] = [s.text[k] EXCEPT !.imm = ImmAt(s, k)]
      /\ \A n \in 1 .. Len(s.text) : n # k => t.text[n] = s.text[n]
  BY <1>1, <1>3, ResolvedShape DEF Carries, t
<1>6. ImmAt(s, k) = High(v)
  <2>1. Eval(s, s.text[k].expr) = High(v)
    <3>1. s.labels[r.label].addr \in Nat
      BY DEF Address
    <3>2. Eval(s, Upper(Expr(off, r.label))) = High(Wrap(off + s.labels[r.label].addr))
      BY <1>1, <1>4, <3>1, EvalOf
    <3>. QED BY <1>3, <3>2 DEF Address
  <2>2. ImmAt(s, k) = Low(High(v))
    BY <1>3, <2>1 DEF ImmAt
  <2>. QED BY <1>4, <2>2, HighSmall
<1>. HIDE DEF v
<1>7. IsInst(s.text[k])
  BY <1>1 DEF Formed
<1>8. /\ t.text[k].op = "lui" /\ t.text[k].rt = "at" /\ t.text[k].expr = s.text[k].expr
      /\ t.text[k].imm = High(v)
  BY <1>3, <1>5, <1>6, <1>7 DEF IsInst
<1>9. t.text[j] = s.text[j] /\ (r.count = 3 => t.text[k + 1] = s.text[k + 1]) /\ Address(t, r) = Address(s, r)
  BY <1>1, <1>2, <1>5 DEF SameText, TextOnly, Address
<1>10. InstAt(j) \notin U \ {u} /\ u \notin U \ {u}
  OBVIOUS
<1>11. HalvesCode(t, r, U \ {u})
  <2>. HIDE DEF j, u
  <2>. QED BY <1>3, <1>8, <1>9, <1>10 DEF HalvesCode, v, off, j, u
<1>12. \A q \in R : q # r => SameCode(s, t, q)
  BY <1>2, <1>5, OthersSame
<1>. QED BY <1>5, <1>11, <1>12 DEF t

\* The last use of two halves, the lower one: resolved first, and carried over.
LEMMA LowerUse ==
    ASSUME NEW s, Formed(s), NEW R, NEW top, Placed(s, R, top), NEW r \in R,
           r.kind \in {"load", "value"}, Address(s, r) \in Nat, NEW U, Tail0(r, U),
           InstAt(Final(r)) \in U, HalvesCode(s, r, U)
    PROVE  LET t == Resolved(s, Final(r)) IN
           /\ SameText(s, t) /\ HalvesCode(t, r, U \ {InstAt(Final(r))})
           /\ \A q \in R : q # r => SameCode(s, t, q)
<1>. DEFINE t == Resolved(s, Final(r))
            k == r.at
            j == Final(r)
            u == InstAt(j)
            v == Wrap(r.x.off + Address(s, r))
            i == s.text[k]
<1>1. /\ Lies(s, r, top) /\ r.label \in Nat \ {0} /\ k \in 1 .. Len(s.text)
      /\ j \in 1 .. Len(s.text) /\ k \in Nat /\ r.x.off \in Int
  BY InstPlace, TextLength DEF Lies
<1>2. /\ k \in Span(r) /\ j \in Span(r) /\ k # j /\ (r.count = 2 => j - 1 = k)
      /\ (r.count = 3 => j - 2 = k /\ j - 1 = k + 1 /\ k + 1 \in 1 .. Len(s.text) /\ k + 1 # k /\ k + 1 # j)
      /\ r.count \in {2, 3} /\ k > 0
  <2>1. r.count = 2 \/ r.count = 3
    BY DEF HalvesCode
  <2>2. r.count = 3 => k + 1 \in Span(r) /\ j = k + 2
    BY <1>1, SpanShape
  <2>3. r.count = 2 => j = k + 1
    BY <1>1, SpanShape
  <2>4. r.count = 3 => k + 1 \in 1 .. Len(s.text)
    BY <2>2, InstPlace
  <2>5. k \in Span(r) /\ j \in Span(r)
    BY <1>1, SpanShape
  <2>. HIDE DEF j
  <2>. QED BY <1>1, <2>1, <2>2, <2>3, <2>4, <2>5
<1>3. /\ i.op = "lui" /\ i.rt = "at" /\ i.expr = Upper(Expr(r.x.off, r.label)) /\ i.imm = 0
      /\ r.count = 3 => s.text[k + 1].op = "addu" /\ s.text[k + 1].rt = "at" /\ s.text[k + 1].rs = r.x.base
      /\ s.text[j].op = (IF r.kind = "load" THEN "lw" ELSE "ori") /\ s.text[j].rt = "t0"
      /\ s.text[j].rs = "at" /\ s.text[j].expr = Lower(Expr(r.x.off, r.label))
      /\ r.count = IF r.x.base = "zero" THEN 2 ELSE 3
  BY DEF HalvesCode, Tail0
<1>4. v \in Int /\ r.x.off + Address(s, r) \in Int
  <2>1. r.x.off + Address(s, r) \in Int
    BY <1>1
  <2>. QED BY <2>1, WrapIn
<1>5. Eval(s, s.text[j].expr) = Low(v)
  BY <1>1, <1>3, EvalOf DEF Address
<1>. HIDE DEF t, v, j
<1>6. ImmAt(s, j) = Low(v)
  BY <1>3, <1>4, <1>5, LowLow DEF ImmAt
<1>7. s.text[j].expr.sym = r.label /\ i.expr.sym = r.label /\ i.expr.off = r.x.off
  BY <1>3 DEF Lower, Upper, Expr
<1>8. Lui(s, k, r.label)
  BY <1>2, <1>3, <1>7 DEF Lui
<1>9. LuiOf(s, j) = k
  <2>1. CASE r.count = 2
    BY <1>2, <1>7, <1>8, <2>1 DEF LuiOf
  <2>2. CASE r.count = 3
    <3>1. ~Lui(s, j - 1, r.label)
      BY <1>2, <1>3, <2>2 DEF Lui
    <3>. QED BY <1>2, <1>7, <2>2, <3>1 DEF LuiOf
  <2>. QED BY <1>2, <2>1, <2>2
<1>10. Carries(s, j) <=> r.kind = "load" /\ SignEx(v) # Low(v)
  BY <1>3, <1>4, <1>5, <1>7, <1>8, <1>9, LowLow DEF Carries
<1>11. /\ SameText(s, t) /\ t.text[j] = [s.text[j] EXCEPT !.imm = Low(v)]
       /\ t.text[k] = IF r.kind = "load" /\ SignEx(v) # Low(v) THEN Carried(i) ELSE i
       /\ \A n \in 1 .. Len(s.text) : n # j /\ n # k => t.text[n] = s.text[n]
  BY <1>1, <1>2, <1>6, <1>9, <1>10, ResolvedShape DEF t, j
<1>12. IsInst(i) /\ IsInst(s.text[j])
  BY <1>1 DEF Formed
<1>. DEFINE off == IF r.kind = "load" THEN r.x.off + Carry(v) ELSE r.x.off
<1>13. /\ t.text[k].op = "lui" /\ t.text[k].rt = "at" /\ t.text[k].imm = 0
       /\ t.text[k].expr = Upper(Expr(off, r.label))
  <2>1. CASE r.kind = "load" /\ SignEx(v) # Low(v)
    <3>1. Carried(i) = [op |-> i.op, rt |-> i.rt, rs |-> i.rs, imm |-> i.imm,
                        expr |-> [off |-> i.expr.off + Radix, sym |-> i.expr.sym, bits |-> i.expr.bits]]
      BY <1>12 DEF IsInst, Carried
    <3>2. t.text[k] = Carried(i) /\ off = r.x.off + Radix
      BY <1>11, <2>1 DEF Carry
    <3>. HIDE DEF i, off
    <3>. QED BY <1>3, <3>1, <3>2 DEF Upper, Expr
  <2>2. CASE ~(r.kind = "load" /\ SignEx(v) # Low(v))
    <3>1. t.text[k] = i /\ off = r.x.off
      BY <1>1, <1>11, <2>2 DEF Carry
    <3>. QED BY <1>3, <3>1
  <2>. QED BY <2>1, <2>2
<1>14. /\ t.text[j].op = s.text[j].op /\ t.text[j].rt = "t0" /\ t.text[j].rs = "at"
       /\ t.text[j].expr = s.text[j].expr /\ t.text[j].imm = Low(v)
  BY <1>3, <1>11, <1>12 DEF IsInst
<1>15. (r.count = 3 => t.text[k + 1] = s.text[k + 1]) /\ Address(t, r) = Address(s, r)
  BY <1>2, <1>11 DEF SameText, TextOnly, Address
<1>16. u \notin U \ {u} /\ InstAt(r.at) \in U \ {u}
  BY <1>2, SiteShape DEF Tail0, j
<1>. HIDE DEF off, i
<1>17. HalvesCode(t, r, U \ {u})
  BY <1>3, <1>13, <1>14, <1>15, <1>16 DEF HalvesCode, off, v, j
<1>18. \A q \in R : q # r => SameCode(s, t, q)
  BY <1>2, <1>11, OthersSame
<1>. QED BY <1>11, <1>17, <1>18 DEF t, j

\* A use of any kind.
LEMMA UseResolved ==
    ASSUME NEW s, Formed(s), NEW R, NEW top, Placed(s, R, top), NEW r \in R, Address(s, r) \in Nat,
           NEW U, Tail0(r, U), NEW u \in U, Code(s, r, U, delayed),
           u = InstAt(r.at) => Final(r) = r.at \/ InstAt(Final(r)) \notin U
    PROVE  LET t == ResolveUse(s, r.label, u) IN
           /\ Formed(t) /\ Len(t.text) = Len(s.text) /\ t.labels = s.labels /\ t.table = s.table
           /\ t.local = s.local /\ DOMAIN t.data = DOMAIN s.data
           /\ Tail0(r, U \ {u}) /\ Code(t, r, U \ {u}, delayed)
           /\ \A q \in R : q # r => SameCode(s, t, q)
<1>. DEFINE t == ResolveUse(s, r.label, u)
<1>1. r.kind \in {"load", "value", "branch", "jump", "word"}
  BY DEF Placed, Lies
<1>2. Tail0(r, U \ {u})
  <2>1. r.kind = "word" => InstAt(Final(r)) \notin U
    BY SiteShape DEF Tail0, Sites
  <2>2. InstAt(Final(r)) \in U \ {u} => InstAt(r.at) \in U \ {u}
    <3>. HIDE DEF Final
    <3>. QED BY DEF Tail0
  <2>. QED BY <2>2 DEF Tail0
<1>3. ASSUME SameText(s, t)
      PROVE  /\ Formed(t) /\ Len(t.text) = Len(s.text) /\ t.labels = s.labels /\ t.table = s.table
             /\ t.local = s.local /\ DOMAIN t.data = DOMAIN s.data
  BY <1>3 DEF SameText, TextOnly
<1>4. CASE r.kind = "word"
  <2>1. /\ Formed(t) /\ t.text = s.text /\ t.labels = s.labels /\ t.table = s.table
        /\ t.local = s.local /\ DOMAIN t.data = DOMAIN s.data
        /\ Code(t, r, U \ {u}, delayed) /\ \A q \in R : q # r => SameCode(s, t, q)
    BY <1>4, WordUse
  <2>. HIDE DEF t
  <2>. QED BY <1>2, <2>1 DEF t
<1>5. CASE r.kind = "jump"
  <2>1. SameText(s, t) /\ Code(t, r, U \ {u}, delayed) /\ \A q \in R : q # r => SameCode(s, t, q)
    BY <1>5, JumpUse
  <2>. HIDE DEF t
  <2>. QED BY <1>2, <1>3, <2>1 DEF t
<1>6. CASE r.kind = "branch"
  <2>1. SameText(s, t) /\ Code(t, r, U \ {u}, delayed) /\ \A q \in R : q # r => SameCode(s, t, q)
    BY <1>6, BranchUse
  <2>. HIDE DEF t
  <2>. QED BY <1>2, <1>3, <2>1 DEF t
<1>7. CASE r.kind \in {"load", "value"}
  <2>1. HalvesCode(s, r, U)
    BY <1>7 DEF Code
  <2>2. SameText(s, t) /\ HalvesCode(t, r, U \ {u}) /\ \A q \in R : q # r => SameCode(s, t, q)
    <3>1. CASE u = InstAt(Final(r))
      <4>1. t = Resolved(s, Final(r))
        BY <3>1, SiteShape DEF ResolveUse
      <4>. HIDE DEF t
      <4>. QED BY <1>7, <2>1, <3>1, <4>1, LowerUse
    <3>2. CASE u # InstAt(Final(r))
      <4>1. u = InstAt(r.at) /\ InstAt(Final(r)) \notin U
        BY <1>7, <3>2 DEF Tail0, Sites
      <4>2. t = Resolved(s, r.at)
        BY <4>1, SiteShape DEF ResolveUse
      <4>. HIDE DEF t
      <4>. QED BY <1>7, <2>1, <4>1, <4>2, UpperUse
    <3>. QED BY <3>1, <3>2
  <2>3. Code(t, r, U \ {u}, delayed)
    <3>. HIDE DEF t
    <3>. QED BY <1>7, <2>2 DEF Code
  <2>. HIDE DEF t
  <2>. QED BY <1>2, <1>3, <2>2, <2>3 DEF t
<1>. QED BY <1>1, <1>4, <1>5, <1>6, <1>7

-----------------------------------------------------------------------------
(* The uses of a label are resolved *)

UsesOf(s, l) == Range(s.labels[l].uses)
Waits(s, r) == Sites(r) \subseteq UsesOf(s, r.label) /\ Code(s, r, Sites(r), delayed)

\* Every use is of a reference that waits, the last one first.
UsesFit(s, R, l) ==
    LET u == s.labels[l].uses IN
    /\ \A i \in 1 .. Len(u) : \E r \in R : r.label = l /\ Waits(s, r) /\ u[i] \in Sites(r)
    /\ \A i, j \in 1 .. Len(u) : i < j /\ u[i].kind = u[j].kind => u[i].at > u[j].at

\* After n uses.
Rest(r, u, n) == {w \in Sites(r) : \E j \in n + 1 .. Len(u) : u[j] = w}
Amid(s, t, R, l, n) ==
    /\ Formed(t) /\ Len(t.text) = Len(s.text) /\ t.labels = s.labels /\ t.table = s.table
    /\ t.local = s.local /\ DOMAIN t.data = DOMAIN s.data
    /\ \A r \in R : IF r.label = l /\ Waits(s, r)
                    THEN LET U == Rest(r, s.labels[l].uses, n) IN
                         Tail0(r, U) /\ Code(t, r, U, delayed)
                    ELSE SameCode(s, t, r)

LEMMA PlacedKept ==
    ASSUME NEW s, NEW R, NEW top, Placed(s, R, top), NEW t, Len(t.text) = Len(s.text),
           Len(t.labels) = Len(s.labels), DOMAIN t.data = DOMAIN s.data
    PROVE  Placed(t, R, top)
BY DEF Placed, Lies

LEMMA SitesShape ==
    ASSUME NEW s, NEW r, NEW top, Lies(s, r, top), NEW w \in Sites(r)
    PROVE  w.at \in Nat /\ w.kind = IF r.kind = "word" THEN "data" ELSE "inst"
<1>1. r.at \in Nat /\ Final(r) \in Nat
  BY SpanShape DEF Lies
<1>. HIDE DEF Final
<1>. QED BY <1>1, SiteShape DEF Sites

\* One more use.
LEMMA AmidStep ==
    ASSUME NEW s, Formed(s), NEW R, NEW top, Placed(s, R, top), NEW l \in 1 .. Len(s.labels),
           s.labels[l].addr \in Nat, UsesFit(s, R, l), NEW n \in Nat,
           n + 1 <= Len(s.labels[l].uses), NEW t, Amid(s, t, R, l, n)
    PROVE  Amid(s, ResolveUse(t, l, s.labels[l].uses[n + 1]), R, l, n + 1)
<1>. DEFINE us == s.labels[l].uses
            u == us[n + 1]
            z == ResolveUse(t, l, u)
            U(r) == Rest(r, us, n)
<1>0. Len(us) \in Nat /\ n + 1 \in 1 .. Len(us) /\ \A j \in (n + 1) + 1 .. Len(us) : j \in n + 1 .. Len(us) /\ j \in 1 .. Len(us) /\ n + 1 < j
  <2>1. IsList(us)
    BY DEF Formed, Well
  <2>2. Len(us) \in Nat /\ n + 1 <= Len(us)
    BY <2>1, ListShape
  <2>. HIDE DEF us
  <2>. QED BY <2>2
<1>1. PICK r \in R : r.label = l /\ Waits(s, r) /\ u \in Sites(r)
  BY <1>0 DEF UsesFit
<1>2. Code(t, r, U(r), delayed) /\ Tail0(r, U(r)) /\ Formed(t) /\ Placed(t, R, top)
  BY <1>1, PlacedKept DEF Amid
<1>3. Lies(s, r, top) /\ Address(t, r) \in Nat
  BY <1>1 DEF Placed, Amid, Address
<1>4. \A i, j \in 1 .. Len(us) : i < j /\ us[i].kind = us[j].kind => us[i].at > us[j].at
  BY DEF UsesFit
<1>5. ASSUME NEW w \in Sites(r), NEW j \in (n + 1) + 1 .. Len(us), us[j] = w
      PROVE  w # u /\ (w.kind = u.kind => u.at > w.at)
  <2>1. j \in 1 .. Len(us) /\ n + 1 < j
    BY <1>0
  <2>2. us[n + 1].kind = us[j].kind => us[n + 1].at > us[j].at
    BY <1>0, <1>4, <2>1
  <2>3. u.at \in Nat /\ w.at \in Nat
    BY <1>1, <1>3, SitesShape
  <2>4. w.kind = u.kind => u.at > w.at
    BY <1>5, <2>2
  <2>. HIDE DEF u, us
  <2>. QED BY <2>3, <2>4
<1>6. u \in U(r)
  <2>1. n + 1 \in n + 1 .. Len(us)
    BY <1>0
  <2>. QED BY <1>1, <2>1 DEF Rest
<1>7. Rest(r, us, n + 1) = U(r) \ {u}
  <2>1. ASSUME NEW w \in Sites(r)
        PROVE  w \in Rest(r, us, n + 1) <=> w \in U(r) /\ w # u
    <3>1. w \in Rest(r, us, n + 1) => w \in U(r) /\ w # u
      BY <1>0, <1>5 DEF Rest
    <3>2. w \in U(r) /\ w # u => w \in Rest(r, us, n + 1)
      <4>1. ASSUME NEW j \in n + 1 .. Len(us), us[j] = w, w # u PROVE j \in (n + 1) + 1 .. Len(us)
        <5>1. j # n + 1
          BY <4>1
        <5>. HIDE DEF us
        <5>. QED BY <1>0, <5>1
      <4>. QED BY <4>1 DEF Rest
    <3>. QED BY <3>1, <3>2
  <2>2. Rest(r, us, n + 1) \subseteq Sites(r) /\ U(r) \subseteq Sites(r)
    BY DEF Rest
  <2>. HIDE DEF U, u, us
  <2>. QED BY <2>1, <2>2
<1>8. u = InstAt(r.at) => Final(r) = r.at \/ InstAt(Final(r)) \notin U(r)
  <2>. SUFFICES ASSUME u = InstAt(r.at), InstAt(Final(r)) \in U(r), Final(r) # r.at PROVE FALSE
    OBVIOUS
  <2>1. PICK j \in n + 1 .. Len(us) : us[j] = InstAt(Final(r))
    BY DEF Rest
  <2>2. u # us[j]
    BY <2>1, SiteShape
  <2>3. j # n + 1
    BY <2>2
  <2>4. j \in (n + 1) + 1 .. Len(us)
    <3>. HIDE DEF us, u
    <3>. QED BY <1>0, <2>3
  <2>5. InstAt(Final(r)) \in Sites(r)
    BY DEF Rest
  <2>6. u.at > Final(r)
    BY <1>5, <2>1, <2>4, <2>5, SiteShape
  <2>7. r.at <= Final(r) /\ r.at \in Nat /\ Final(r) \in Nat /\ u.at = r.at
    BY <1>3, SpanShape, SiteShape DEF Lies
  <2>. HIDE DEF u, Final
  <2>. QED BY <2>6, <2>7
<1>. HIDE DEF z, U, us, u
<1>a. z = ResolveUse(t, r.label, u)
  BY <1>1 DEF z
<1>9. /\ Formed(z) /\ Len(z.text) = Len(t.text) /\ z.labels = t.labels /\ z.table = t.table
      /\ z.local = t.local /\ DOMAIN z.data = DOMAIN t.data
      /\ Tail0(r, U(r) \ {u}) /\ Code(z, r, U(r) \ {u}, delayed)
      /\ \A q \in R : q # r => SameCode(t, z, q)
  <2>1. LET x == ResolveUse(t, r.label, u) IN
        /\ Formed(x) /\ Len(x.text) = Len(t.text) /\ x.labels = t.labels /\ x.table = t.table
        /\ x.local = t.local /\ DOMAIN x.data = DOMAIN t.data
        /\ Tail0(r, U(r) \ {u}) /\ Code(x, r, U(r) \ {u}, delayed)
        /\ \A q \in R : q # r => SameCode(t, x, q)
    BY <1>2, <1>3, <1>6, <1>8, UseResolved
  <2>. QED BY <1>a, <2>1
<1>10. ASSUME NEW q \in R, q # r
       PROVE  IF q.label = l /\ Waits(s, q)
              THEN Tail0(q, Rest(q, us, n + 1)) /\ Code(z, q, Rest(q, us, n + 1), delayed)
              ELSE SameCode(s, z, q)
  <2>1. SameCode(t, z, q)
    BY <1>9, <1>10
  <2>2. CASE q.label = l /\ Waits(s, q)
    <3>1. Tail0(q, U(q)) /\ Code(t, q, U(q), delayed)
      BY <2>2 DEF Amid, U, us
    <3>2. u \notin Sites(q)
      BY <1>1, <1>10, SitesApart
    <3>3. Rest(q, us, n + 1) = U(q)
      <4>1. ASSUME NEW w \in Sites(q) PROVE w \in Rest(q, us, n + 1) <=> w \in U(q)
        <5>1. w \in Rest(q, us, n + 1) => w \in U(q)
          BY <1>0 DEF Rest, U
        <5>2. w \in U(q) => w \in Rest(q, us, n + 1)
          <6>1. ASSUME NEW j \in n + 1 .. Len(us), us[j] = w PROVE j \in (n + 1) + 1 .. Len(us)
            <7>1. j # n + 1
              BY <3>2, <6>1 DEF u
            <7>. QED BY <1>0, <7>1
          <6>. QED BY <6>1 DEF Rest, U
        <5>. QED BY <5>1, <5>2
      <4>2. Rest(q, us, n + 1) \subseteq Sites(q) /\ U(q) \subseteq Sites(q)
        BY DEF Rest, U
      <4>. QED BY <4>1, <4>2
    <3>4. Lies(t, q, top)
      BY <1>2 DEF Placed
    <3>5. Code(z, q, U(q), delayed)
      BY <2>1, <3>1, <3>4, CodeSame
    <3>. QED BY <2>2, <3>1, <3>3, <3>5
  <2>3. CASE ~(q.label = l /\ Waits(s, q))
    <3>1. SameCode(s, t, q)
      BY <2>3 DEF Amid
    <3>2. SameCode(s, z, q)
      BY <2>1, <3>1 DEF SameCode
    <3>. QED BY <2>3, <3>2
  <2>. QED BY <2>2, <2>3
<1>11. Amid(s, z, R, l, n + 1)
  <2>1. \A q \in R : IF q.label = l /\ Waits(s, q)
                     THEN LET V == Rest(q, s.labels[l].uses, n + 1) IN
                          Tail0(q, V) /\ Code(z, q, V, delayed)
                     ELSE SameCode(s, z, q)
    BY <1>1, <1>7, <1>9, <1>10 DEF us
  <2>2. /\ Formed(z) /\ Len(z.text) = Len(s.text) /\ z.labels = s.labels /\ z.table = s.table
        /\ z.local = s.local /\ DOMAIN z.data = DOMAIN s.data
    BY <1>9 DEF Amid
  <2>. QED BY <2>1, <2>2 DEF Amid
<1>. QED BY <1>11 DEF z, u, us

\* Before the first use, and after the last.
LEMMA AmidStart ==
    ASSUME NEW s, Formed(s), NEW R, NEW l \in 1 .. Len(s.labels)
    PROVE  Amid(s, s, R, l, 0)
<1>. DEFINE us == s.labels[l].uses
<1>0. IsList(us)
  BY DEF Formed, Well
<1>1. IsList(us) /\ DOMAIN us = 1 .. Len(us) /\ 0 + 1 = 1
  BY <1>0, ListShape
<1>2. ASSUME NEW r \in R, r.label = l, Waits(s, r)
      PROVE  Rest(r, us, 0) = Sites(r) /\ Tail0(r, Sites(r))
  <2>1. \A w \in Sites(r) : \E j \in 1 .. Len(us) : us[j] = w
    BY <1>1, <1>2 DEF Waits, UsesOf, Range
  <2>2. Rest(r, us, 0) = Sites(r)
    BY <1>1, <2>1 DEF Rest
  <2>3. InstAt(Final(r)) \in Sites(r) => InstAt(r.at) \in Sites(r)
    BY SiteShape DEF Sites
  <2>. QED BY <2>2, <2>3 DEF Tail0
<1>3. \A r \in R : SameCode(s, s, r)
  BY DEF SameCode
<1>. QED BY <1>2, <1>3 DEF Amid, Waits

LEMMA AmidEnd ==
    ASSUME NEW s, Formed(s), NEW R, NEW l \in 1 .. Len(s.labels), NEW t,
           Amid(s, t, R, l, Len(s.labels[l].uses)), NEW r \in R, r.label = l, Waits(s, r)
    PROVE  Code(t, r, {}, delayed)
<1>. DEFINE us == s.labels[l].uses
<1>1. Len(us) \in Nat
  <2>1. IsList(us)
    BY DEF Formed, Well
  <2>. QED BY <2>1, ListShape
<1>2. Rest(r, us, Len(us)) = {}
  <2>. HIDE DEF us
  <2>. QED BY <1>1 DEF Rest
<1>. QED BY <1>2 DEF Amid

\* resolve_label_uses: the references that waited for l have their code, the
\* others keep theirs.
LEMMA UsesResolved ==
    ASSUME NEW s, Formed(s), NEW R, NEW top, Placed(s, R, top), NEW l \in 1 .. Len(s.labels),
           s.labels[l].addr \in Nat, UsesFit(s, R, l)
    PROVE  \E t : /\ Amid(s, t, R, l, Len(s.labels[l].uses))
                  /\ ResolveUses(s, l) = [t EXCEPT !.labels[l].uses = <<>>]
<1>. DEFINE q == s.labels[l].uses
            n == Len(q)
<1>1. IsList(q)
  BY DEF Formed, Well
<1>2. n \in Nat /\ DOMAIN q = 1 .. n
  BY <1>1, ListShape
<1>3. PICK f : Stages("use", l, s, q, f) /\ ResolveUses(s, l) = [f[n] EXCEPT !.labels[l].uses = <<>>]
  BY <1>2, UsesStages
<1>. DEFINE T == {i \in Nat : i <= n => Amid(s, f[i], R, l, i)}
<1>4. 0 \in T
  <2>1. f[0] = s
    BY <1>3 DEF Stages
  <2>. QED BY <2>1, AmidStart
<1>5. ASSUME NEW i \in T PROVE i + 1 \in T
  <2>. SUFFICES ASSUME i + 1 <= n PROVE Amid(s, f[i + 1], R, l, i + 1)
    OBVIOUS
  <2>1. i <= n /\ i + 1 \in 1 .. n /\ (i + 1) - 1 = i /\ i \in Nat
    <3>. HIDE DEF n
    <3>. QED BY <1>2
  <2>2. f[i + 1] = ResolveUse(f[i], l, q[i + 1])
    <3>. HIDE DEF q
    <3>. QED BY <1>3, <2>1 DEF Stages, Turn
  <2>3. Amid(s, f[i], R, l, i)
    BY <2>1
  <2>. HIDE DEF T
  <2>. QED BY <2>1, <2>2, <2>3, AmidStep
<1>6. T = Nat
  <2>1. T \subseteq Nat
    OBVIOUS
  <2>. HIDE DEF T
  <2>. QED BY <1>4, <1>5, <2>1, Induction
<1>7. Amid(s, f[n], R, l, n)
  BY <1>2, <1>6
<1>. QED BY <1>3, <1>7

-----------------------------------------------------------------------------
(* Where resolved code arrives *)

\* One instruction after the other.
Arrived(s, r) ==
    LET one == Ran(Registers, s.text[r.at])
        two == Ran(one, s.text[r.at + 1])
    IN CASE r.count = 1 -> one.t0 [] r.count = 2 -> two.t0
         [] OTHER -> Ran(two, s.text[r.at + 2]).t0
Gone(pc0, imm, dl) == Wrap((PcOf(pc0) + Displacement(imm)) + IF dl THEN 4 ELSE 0)
Comes(s, r) ==
    LET i == s.text[r.at] IN
    CASE r.kind = "word" -> s.data[r.at]
      [] r.kind = "jump" -> (Region * (PcOf(r.at) \div Region)) + (4 * i.imm)
      [] r.kind = "branch" -> Gone(r.at, i.imm, delayed)
      [] OTHER -> Arrived(s, r)
Wanted(r, a) == Wrap((a + r.x.off) + Registers[r.x.base])
Solved(s, r) ==
    LET a == Address(s, r) IN a # 0 /\ (Target(r, a) => Comes(s, r) = Wanted(r, a))

Regs(a, t) == [zero |-> 0, at |-> a, base |-> BaseValue, t0 |-> t]

LEMMA RegistersAre ==
    /\ Registers = Regs(0, 0) /\ Registers["zero"] = 0 /\ Registers["base"] = BaseValue
    /\ BaseValue \in 0 .. Size - 1 /\ BaseValue \in Int
    /\ \A a, t : Regs(a, t).t0 = t
<1>1. BaseValue \in 0 .. Size - 1
  BY AssemblerAssumption
<1>2. Registers = [zero |-> 0, at |-> 0, base |-> BaseValue, t0 |-> 0]
  BY DEF Registers
<1>3. Registers["zero"] = 0 /\ Registers["base"] = BaseValue
  BY <1>2
<1>. QED BY <1>1, <1>2, <1>3, SizeShape DEF Regs

LEMMA RanLui ==
    ASSUME NEW i, i.op = "lui", NEW a, NEW t
    PROVE  /\ i.rt = "at" => Ran(Regs(a, t), i) = Regs(i.imm * Radix, t)
           /\ i.rt = "t0" => Ran(Regs(a, t), i) = Regs(a, i.imm * Radix)
BY DEF Ran, Regs

LEMMA RanOri ==
    ASSUME NEW i, i.op = "ori", i.rt = "t0", NEW a, NEW t
    PROVE  /\ i.rs = "at" => Ran(Regs(a, t), i) = Regs(a, a + i.imm)
           /\ i.rs = "zero" => Ran(Regs(a, t), i) = Regs(a, 0 + i.imm)
BY DEF Ran, Regs

LEMMA RanAddu ==
    ASSUME NEW i, i.op = "addu", i.rt = "at", i.rs = "base", NEW a, NEW t
    PROVE  Ran(Regs(a, t), i) = Regs(Wrap(a + BaseValue), t)
BY DEF Ran, Regs

LEMMA RanLoad ==
    ASSUME NEW i, i.op \in {"lw", "addiu"}, i.rt = "t0", NEW a, NEW t
    PROVE  /\ i.rs = "at" => Ran(Regs(a, t), i) = Regs(a, Wrap(a + SignEx(i.imm)))
           /\ i.rs = "zero" => Ran(Regs(a, t), i) = Regs(a, Wrap(0 + SignEx(i.imm)))
           /\ i.rs = "base" => Ran(Regs(a, t), i) = Regs(a, Wrap(BaseValue + SignEx(i.imm)))
<1>. DEFINE w == Wrap(Regs(a, t)[i.rs] + SignEx(i.imm))
<1>1. Ran(Regs(a, t), i) = [Regs(a, t) EXCEPT !["t0"] = w]
  BY DEF Ran
<1>2. \A x : [Regs(a, t) EXCEPT !["t0"] = x] = Regs(a, x)
  BY DEF Regs
<1>3. Regs(a, t)["at"] = a /\ Regs(a, t)["zero"] = 0 /\ Regs(a, t)["base"] = BaseValue
  BY DEF Regs
<1>. QED BY <1>1, <1>2, <1>3

\* An upper half with its carry, and a lower half with its sign.
LEMMA HalvesSum ==
    ASSUME NEW v \in 0 .. Size - 1
    PROVE  LET h == High(Wrap(v + Carry(v))) * Radix IN
           h \in Int /\ \E k \in Int : h + SignEx(Low(v)) = v + (k * Size)
<1>. DEFINE q == High(v)
            e == Low(v)
            w == Wrap(v + Carry(v))
            h == High(w) * Radix
<1>1. /\ Radix \in Nat /\ Radix >= 4 /\ Size \in Nat /\ Size = Radix * Radix /\ v \in Int
      /\ q \in Int /\ e \in 0 .. Radix - 1 /\ v = (q * Radix) + e
  BY RadixShape, SizeShape, LowHigh
<1>2. SignEx(Low(v)) = SignEx(v)
  BY <1>1, LowLow
<1>3. CASE SignEx(v) = Low(v)
  <2>1. w = v
    BY <1>1, <1>3, WrapSmall DEF Carry
  <2>2. h = q * Radix /\ h \in Int
    BY <1>1, <2>1
  <2>. HIDE DEF h, q, e
  <2>3. h + SignEx(Low(v)) = v + (0 * Size)
    BY <1>1, <1>2, <1>3, <2>2 DEF e
  <2>. QED BY <2>2, <2>3 DEF h
<1>4. CASE SignEx(v) # Low(v)
  <2>1. SignEx(v) = (Size - Radix) + e
    BY <1>1, <1>4, SignExShape
  <2>. DEFINE k == (v + Radix) \div Size
  <2>2. w \in 0 .. Size - 1 /\ k \in Int /\ v + Radix = (k * Size) + w
    <3>1. v + Radix \in Int /\ w = Wrap(v + Radix)
      BY <1>1, <1>4 DEF Carry
    <3>. HIDE DEF w
    <3>. QED BY <3>1, WrapIn
  <2>. HIDE DEF q, e, w, k
  <2>3. w = (((q + 1) - (k * Radix)) * Radix) + e /\ (q + 1) - (k * Radix) \in Int /\ w \in Int
    BY <1>1, <2>2
  <2>4. High(w) = (q + 1) - (k * Radix)
    BY <1>1, <2>3, LowOf
  <2>5. h = (q * Radix) + Radix - (k * Size) /\ h \in Int
    BY <1>1, <2>2, <2>4
  <2>. HIDE DEF h
  <2>6. h + SignEx(v) = v + ((1 - k) * Size) /\ 1 - k \in Int
    BY <1>1, <2>1, <2>2, <2>5
  <2>. QED BY <1>2, <2>5, <2>6 DEF h, w
<1>. QED BY <1>3, <1>4

\* A word, a jump and a branch.
LEMMA WordSolved ==
    ASSUME NEW s, NEW r, NEW top, Lies(s, r, top), r.kind = "word",
           Address(s, r) \in 1 .. Size - 1, WordCode(s, r, {})
    PROVE  Solved(s, r)
<1>. DEFINE a == Address(s, r)
<1>1. Comes(s, r) = a
  BY DEF Comes, WordCode
<1>2. r.x.off = 0 /\ Registers[r.x.base] = 0
  BY RegistersAre DEF Lies
<1>3. a \in 0 .. Size - 1 /\ (a + 0) + 0 = a /\ a # 0
  BY SizeShape
<1>. HIDE DEF a
<1>4. Wanted(r, a) = a
  BY <1>2, <1>3, WrapSmall DEF Wanted
<1>. QED BY <1>1, <1>3, <1>4 DEF Solved, a

LEMMA JumpSolved ==
    ASSUME NEW s, NEW r, NEW top, Lies(s, r, top), r.kind = "jump",
           Address(s, r) \in 1 .. Size - 1, s.text[r.at].imm = (Wrap(Address(s, r)) % Region) \div 4
    PROVE  Solved(s, r)
<1>. DEFINE a == Address(s, r)
            e == a % Region
            q == a \div Region
<1>1. r.x.off = 0 /\ Registers[r.x.base] = 0
  BY RegistersAre DEF Lies
<1>2. a \in 0 .. Size - 1 /\ (a + 0) + 0 = a /\ a # 0 /\ a \in Nat
  BY SizeShape
<1>3. Wrap(a) = a
  BY <1>2, WrapSmall
<1>4. Region \in Nat /\ Region >= 4 /\ Region % 4 = 0
  BY RadixShape
<1>5. q \in Int /\ e \in Nat /\ a = (q * Region) + e
  <2>. HIDE DEF a
  <2>. QED BY <1>2, <1>4, DivMod
<1>6. Target(r, a) => a % 4 = 0 /\ q = PcOf(r.at) \div Region
  BY DEF Target, Near
<1>. HIDE DEF a
<1>7. Wanted(r, a) = a
  BY <1>1, <1>2, <1>3 DEF Wanted
<1>8. Comes(s, r) = (Region * (PcOf(r.at) \div Region)) + (4 * (e \div 4))
  BY <1>3 DEF Comes, a
<1>9. ASSUME Target(r, a) PROVE Comes(s, r) = a
  <2>. DEFINE w == Region \div 4
              b == a \div 4
  <2>1. w \in Nat /\ Region = 4 * w
    BY <1>4
  <2>2. b \in Nat /\ a = 4 * b
    <3>1. a % 4 = 0 /\ a \in Nat
      BY <1>2, <1>6, <1>9
    <3>. QED BY <3>1
  <2>. HIDE DEF e, q, w, b
  <2>3. e = 4 * (b - (q * w)) /\ b - (q * w) \in Int
    BY <1>5, <2>1, <2>2
  <2>. DEFINE c == b - (q * w)
  <2>4. e = 4 * c /\ c \in Int
    BY <2>3
  <2>. HIDE DEF c
  <2>5. 4 * (e \div 4) = e
    BY <2>4
  <2>. QED BY <1>4, <1>5, <1>6, <1>8, <1>9, <2>5
<1>. QED BY <1>2, <1>7, <1>9 DEF Solved, a

LEMMA LowNegative ==
    ASSUME NEW x \in Int, Radix + x \in 0 .. Radix - 1
    PROVE  Low(x) = Radix + x
<1>. DEFINE e == Radix + x
<1>1. Radix \in Nat /\ -1 \in Int
  BY RadixShape
<1>2. e \in 0 .. Radix - 1 /\ x = ((-1) * Radix) + e
  BY <1>1
<1>. HIDE DEF e
<1>. QED BY <1>1, <1>2, LowOf DEF e

\* A distance that a branch can say.
LEMMA BranchExact ==
    ASSUME NEW g \in Nat, g >= 1, Radix = 4 * g, NEW c \in Int, -(2 * g) <= 4 * c, 4 * c < 2 * g,
           NEW dl \in BOOLEAN
    PROVE  Displacement(Branched(Wrap(4 * c), dl)) = (4 * c) - (IF dl THEN 4 ELSE 0)
<1>. DEFINE d == 4 * c
            b == IF dl THEN 1 ELSE 0
            e == c - b
            v == Wrap(d)
<1>0. Size \in Nat /\ Size = Radix * Radix /\ Size >= 4 * Radix /\ Radix \in Nat
  BY RadixShape
<1>1. Signed(SignEx(v)) = d
  <2>1. CASE d >= 0
    <3>1. d \in 0 .. Size - 1 /\ d \in 0 .. Radix - 1 /\ 2 * d < Radix /\ d \in Int
      BY <1>0, <2>1
    <3>. HIDE DEF d
    <3>2. v = d /\ Low(d) = d
      BY <3>1, WrapSmall, LowSmall
    <3>3. SignEx(v) = d
      BY <3>1, <3>2, SignExShape
    <3>. HIDE DEF v
    <3>4. ~(2 * d >= Size)
      BY <1>0, <3>1
    <3>. QED BY <3>3, <3>4 DEF Signed
  <2>2. CASE d < 0
    <3>1. /\ d \in Int /\ Size + d \in 0 .. Size - 1 /\ Radix + d \in 0 .. Radix - 1
          /\ 2 * (Radix + d) >= Radix /\ 2 * (Size + d) >= Size /\ d = ((-1) * Size) + (Size + d)
      BY <1>0, <2>2
    <3>. HIDE DEF d
    <3>2. v = Size + d
      BY <3>1, WrapOf
    <3>. HIDE DEF v
    <3>3. Size + d = ((Radix - 1) * Radix) + (Radix + d) /\ Radix - 1 \in Int /\ Size + d \in Int
      BY <1>0, <3>1
    <3>4. Low(v) = Radix + d
      BY <3>1, <3>2, <3>3, LowOf
    <3>5. SignEx(v) = (Size - Radix) + (Radix + d)
      BY <3>1, <3>2, <3>3, <3>4, SignExShape
    <3>6. SignEx(v) = Size + d /\ (Size + d) - Size = d
      BY <1>0, <3>1, <3>5
    <3>. QED BY <3>1, <3>6 DEF Signed
  <2>3. d \in Int
    OBVIOUS
  <2>. HIDE DEF d, v
  <2>. QED BY <2>1, <2>2, <2>3
<1>2. d \div 4 = c /\ e \in Int
  OBVIOUS
<1>. HIDE DEF v
<1>3. Branched(v, dl) = Low(e)
  <2>1. (IF dl THEN c - 1 ELSE c) = e
    OBVIOUS
  <2>. HIDE DEF d, e, b
  <2>. QED BY <1>1, <1>2, <2>1 DEF Branched
<1>4. (IF 2 * Low(e) >= Radix THEN Low(e) - Radix ELSE Low(e)) = e
  <2>1. CASE e >= 0
    <3>1. e \in 0 .. Radix - 1 /\ 2 * e < Radix
      BY <1>0, <2>1
    <3>. HIDE DEF e
    <3>. QED BY <1>0, <3>1, LowSmall
  <2>2. CASE e < 0
    <3>1. Radix + e \in 0 .. Radix - 1 /\ 2 * (Radix + e) >= Radix /\ e = ((-1) * Radix) + (Radix + e) /\ (Radix + e) - Radix = e
      BY <1>0, <2>2
    <3>. HIDE DEF e
    <3>2. Low(e) = Radix + e
      BY <1>2, <3>1, LowNegative
    <3>. QED BY <3>1, <3>2
  <2>. HIDE DEF e
  <2>. QED BY <1>2, <2>1, <2>2
<1>. DEFINE f == 4 * e
<1>5. (IF 2 * Low(f) >= Radix THEN Low(f) - Radix ELSE f) = f
  <2>1. CASE f >= 0
    <3>1. f \in 0 .. Radix - 1 /\ 2 * f < Radix
      BY <1>0, <2>1
    <3>. HIDE DEF f
    <3>2. Low(f) = f
      BY <3>1, LowSmall
    <3>. QED BY <1>0, <3>1, <3>2
  <2>2. CASE f < 0
    <3>1. f \in Int /\ Radix + f \in 0 .. Radix - 1 /\ f = ((-1) * Radix) + (Radix + f) /\ (Radix + f) - Radix = f
      BY <1>0, <2>2
    <3>. HIDE DEF f
    <3>2. Low(f) = Radix + f
      BY <3>1, LowNegative
    <3>. QED BY <3>1, <3>2
  <2>3. f \in Int
    OBVIOUS
  <2>. HIDE DEF f
  <2>. QED BY <2>1, <2>2, <2>3
<1>6. Displacement(Branched(v, dl)) = f
  <2>. HIDE DEF e
  <2>. QED BY <1>3, <1>4, <1>5 DEF Displacement
<1>7. f = (4 * c) - (IF dl THEN 4 ELSE 0)
  OBVIOUS
<1>. QED BY <1>6, <1>7 DEF v

LEMMA BranchSolved ==
    ASSUME NEW s, NEW r, NEW top, Lies(s, r, top), r.kind = "branch", delayed \in BOOLEAN,
           Address(s, r) \in 1 .. Size - 1,
           s.text[r.at].imm = Branched(Wrap(Address(s, r) - PcOf(r.at)), delayed)
    PROVE  Solved(s, r)
<1>. DEFINE a == Address(s, r)
            p == PcOf(r.at)
            g == Radix \div 4
            b == IF delayed THEN 4 ELSE 0
<1>1. r.x.off = 0 /\ Registers[r.x.base] = 0 /\ r.at \in Nat \ {0}
  BY RegistersAre DEF Lies
<1>2. a \in 0 .. Size - 1 /\ (a + 0) + 0 = a /\ a # 0 /\ a \in Int
  BY SizeShape
<1>3. g \in Nat /\ g >= 1 /\ Radix = 4 * g /\ Radix \div 2 = 2 * g
  <2>1. Radix \in Nat \ {0} /\ Radix % 4 = 0
    BY AssemblerAssumption
  <2>. QED BY <2>1
<1>4. p \in Int /\ p % 4 = 0
  <2>1. TextStart \in Nat /\ TextStart % 4 = 0
    BY AssemblerAssumption
  <2>. QED BY <1>1, <2>1 DEF PcOf
<1>5. Target(r, a) => a % 4 = 0 /\ a - p \in -(Radix \div 2) .. (Radix \div 2) - 1
  BY DEF Target, Near
<1>6. s.text[r.at].imm = Branched(Wrap(a - p), delayed)
  OBVIOUS
<1>7. Comes(s, r) = Wrap((p + Displacement(s.text[r.at].imm)) + b)
  BY DEF Comes, Gone
<1>. HIDE DEF a, p, g
<1>8. Wanted(r, a) = Wrap(a)
  BY <1>1, <1>2 DEF Wanted
<1>9. ASSUME Target(r, a) PROVE Comes(s, r) = Wrap(a)
  <2>. DEFINE c == (a - p) \div 4
  <2>1. c \in Int /\ a - p = 4 * c
    BY <1>2, <1>4, <1>5, <1>9
  <2>. HIDE DEF c
  <2>2. -(2 * g) <= 4 * c /\ 4 * c < 2 * g
    BY <1>2, <1>3, <1>4, <1>5, <1>9, <2>1
  <2>3. Displacement(s.text[r.at].imm) = (4 * c) - b
    BY <1>3, <1>6, <2>1, <2>2, BranchExact
  <2>4. (p + ((4 * c) - b)) + b = a
    BY <1>2, <1>4, <2>1
  <2>. QED BY <1>7, <2>3, <2>4
<1>. QED BY <1>2, <1>8, <1>9 DEF Solved, a

\* Two halves as they have to be, with or without an index between them.
HalvesRight(s, r) ==
    LET v == Wrap(r.x.off + Address(s, r))
        i == s.text[r.at]
        n == s.text[r.at + 1]
        j == s.text[Final(r)]
        load == r.kind = "load"
    IN /\ r.count = IF r.x.base = "zero" THEN 2 ELSE 3
       /\ i.op = "lui" /\ i.rt = "at" /\ i.imm = IF load THEN High(Wrap(v + Carry(v))) ELSE High(v)
       /\ r.count = 3 => n.op = "addu" /\ n.rt = "at" /\ n.rs = r.x.base
       /\ j.op = (IF load THEN "lw" ELSE "ori") /\ j.rt = "t0" /\ j.rs = "at" /\ j.imm = Low(v)

LEMMA CodeIsRight ==
    ASSUME NEW s, NEW r, NEW top, Lies(s, r, top), r.kind \in {"load", "value"},
           Address(s, r) \in 1 .. Size - 1, HalvesCode(s, r, {})
    PROVE  HalvesRight(s, r)
<1>. DEFINE a == Address(s, r)
            w == r.x.off + a
            v == Wrap(w)
            i == s.text[r.at]
<1>1. r.x.off \in Int /\ a \in Int /\ w \in Int
  BY SizeShape DEF Lies
<1>2. i.imm = High(Wrap((IF r.kind = "load" THEN r.x.off + Carry(v) ELSE r.x.off) + a))
  BY DEF HalvesCode
<1>3. r.kind # "load" => i.imm = High(v)
  BY <1>2
<1>4. r.kind = "load" => i.imm = High(Wrap(v + Carry(v)))
  <2>1. Carry(v) \in Int
    BY RadixShape DEF Carry
  <2>. DEFINE c == Carry(v)
  <2>2. (r.x.off + c) + a = w + c
    BY <1>1, <2>1
  <2>3. Wrap(w + c) = Wrap(v + c)
    BY <1>1, <2>1, WrapPlus
  <2>. QED BY <1>2, <2>2, <2>3
<1>. QED BY <1>3, <1>4 DEF HalvesCode, HalvesRight


\* Two halves.
LEMMA ValueSolved ==
    ASSUME NEW s, NEW r, NEW top, Lies(s, r, top), r.kind = "value",
           Address(s, r) \in 1 .. Size - 1, HalvesRight(s, r)
    PROVE  Solved(s, r)
<1>. DEFINE a == Address(s, r)
            v == Wrap(r.x.off + a)
            i == s.text[r.at]
            j == s.text[r.at + 1]
<1>1. r.x.off \in Int /\ r.x.base = "zero" /\ Registers[r.x.base] = 0 /\ a # 0 /\ a \in Int
  BY RegistersAre, SizeShape DEF Lies
<1>2. r.count = 2 /\ Final(r) = r.at + 1
  BY <1>1, SpanShape DEF HalvesRight
<1>3. /\ i.op = "lui" /\ i.rt = "at" /\ i.imm = High(v) /\ j.op = "ori" /\ j.rt = "t0" /\ j.rs = "at"
      /\ j.imm = Low(v)
  BY <1>2 DEF HalvesRight
<1>. HIDE DEF i, j, a
<1>4. v \in 0 .. Size - 1 /\ r.x.off + a \in Int
  <2>1. r.x.off + a \in Int
    BY <1>1
  <2>. QED BY <2>1, WrapIn
<1>. HIDE DEF v
<1>5. v = (High(v) * Radix) + Low(v)
  BY <1>4, SizeShape, LowHigh
<1>6. Ran(Registers, i) = Regs(High(v) * Radix, 0)
  BY <1>3, RegistersAre, RanLui
<1>7. Ran(Ran(Registers, i), j) = Regs(High(v) * Radix, v)
  BY <1>3, <1>5, <1>6, RanOri
<1>8. Arrived(s, r) = v
  BY <1>2, <1>7, RegistersAre DEF Arrived, i, j
<1>9. Comes(s, r) = v
  BY <1>8 DEF Comes
<1>10. (a + r.x.off) + 0 = r.x.off + a
  BY <1>1
<1>11. Wanted(r, a) = v
  BY <1>1, <1>10 DEF Wanted, v
<1>. QED BY <1>1, <1>9, <1>11 DEF Solved, a

\* A load's address from its halves, with or without an index.
LEMMA LoadSum ==
    ASSUME NEW v \in 0 .. Size - 1, NEW h, h = High(Wrap(v + Carry(v))) * Radix, NEW b \in Int
    PROVE  Wrap((h + b) + SignEx(Low(v))) = Wrap(v + b) /\ h \in Int
<1>. DEFINE e == SignEx(Low(v))
<1>1. h \in Int /\ \E k \in Int : h + e = v + (k * Size)
  BY HalvesSum
<1>2. PICK k \in Int : h + e = v + (k * Size)
  BY <1>1
<1>3. v \in Int /\ Size \in Int
  BY SizeShape
<1>4. e \in Int
  <2>1. Low(v) \in Int
    BY <1>3, LowLow
  <2>2. SignEx(Low(v)) \in 0 .. Size - 1
    BY <2>1, SignExShape
  <2>. QED BY <1>3, <2>2
<1>. HIDE DEF e
<1>5. (h + b) + e \in Int /\ v + b \in Int /\ (h + b) + e = (v + b) + (k * Size)
  BY <1>1, <1>2, <1>3, <1>4
<1>6. Wrap((h + b) + e) = Wrap(v + b)
  BY <1>5, WrapShift
<1>. QED BY <1>1, <1>6 DEF e

LEMMA LoadSolved ==
    ASSUME NEW s, NEW r, NEW top, Lies(s, r, top), r.kind = "load",
           Address(s, r) \in 1 .. Size - 1, HalvesRight(s, r)
    PROVE  Solved(s, r)
<1>. DEFINE a == Address(s, r)
            w == r.x.off + a
            v == Wrap(w)
            h == High(Wrap(v + Carry(v)))
            i == s.text[r.at]
            n == s.text[r.at + 1]
            j == s.text[Final(r)]
<1>1. r.x.off \in Int /\ a # 0 /\ a \in Int /\ r.x.base \in {"zero", "base"} /\ w \in Int
  BY SizeShape DEF Lies
<1>2. r.count = (IF r.x.base = "zero" THEN 2 ELSE 3) /\ Final(r) = IF r.x.base = "zero" THEN r.at + 1 ELSE r.at + 2
  BY <1>1, SpanShape DEF HalvesRight
<1>3. /\ i.op = "lui" /\ i.rt = "at" /\ i.imm = h
      /\ r.count = 3 => n.op = "addu" /\ n.rt = "at" /\ n.rs = r.x.base
      /\ j.op = "lw" /\ j.rt = "t0" /\ j.rs = "at" /\ j.imm = Low(v)
  BY DEF HalvesRight
<1>. HIDE DEF a
<1>4. v \in 0 .. Size - 1
  BY <1>1, WrapIn
<1>. HIDE DEF i, n, j, v, h
<1>. DEFINE b == IF r.x.base = "zero" THEN 0 ELSE BaseValue
            hi == h * Radix
<1>7. b \in Int /\ Registers[r.x.base] = b
  BY <1>1, RegistersAre
<1>8. Wrap((hi + b) + SignEx(Low(v))) = Wrap(v + b) /\ hi \in Int
  BY <1>4, <1>7, LoadSum DEF h
<1>9. Ran(Registers, i) = Regs(hi, 0)
  BY <1>3, RegistersAre, RanLui
<1>. HIDE DEF hi, b
<1>10. SignEx(Low(v)) \in Int
  <2>1. v \in Int
    BY <1>4, SizeShape
  <2>2. SignEx(Low(v)) \in 0 .. Size - 1
    BY <2>1, LowLow, SignExShape
  <2>. QED BY <2>2, SizeShape
<1>11. Arrived(s, r) = Wrap(v + b)
  <2>1. CASE r.x.base = "zero"
    <3>1. r.count = 2 /\ n = j /\ b = 0
      BY <1>2, <2>1 DEF n, j, b
    <3>2. Ran(Ran(Registers, i), n) = Regs(hi, Wrap(hi + SignEx(Low(v))))
      BY <1>3, <1>9, <3>1, RanLoad
    <3>3. hi = hi + b
      BY <1>8, <3>1
    <3>4. Arrived(s, r) = Wrap(hi + SignEx(Low(v)))
      BY <3>1, <3>2, RegistersAre DEF Arrived, i, n
    <3>. QED BY <1>8, <3>3, <3>4
  <2>2. CASE r.x.base = "base"
    <3>1. r.count = 3 /\ b = BaseValue /\ j = s.text[r.at + 2]
      BY <1>2, <2>2 DEF j, b
    <3>2. Ran(Ran(Registers, i), n) = Regs(Wrap(hi + b), 0)
      BY <1>3, <1>9, <2>2, <3>1, RanAddu
    <3>3. Ran(Ran(Ran(Registers, i), n), j) = Regs(Wrap(hi + b), Wrap(Wrap(hi + b) + SignEx(Low(v))))
      BY <1>3, <3>2, RanLoad
    <3>4. Wrap(Wrap(hi + b) + SignEx(Low(v))) = Wrap((hi + b) + SignEx(Low(v)))
      <4>1. hi + b \in Int
        BY <1>7, <1>8
      <4>. QED BY <1>10, <4>1, WrapPlus
    <3>5. Arrived(s, r) = Wrap(Wrap(hi + b) + SignEx(Low(v)))
      BY <3>1, <3>3, RegistersAre DEF Arrived, i, n
    <3>. QED BY <1>8, <3>4, <3>5
  <2>. QED BY <1>1, <2>1, <2>2
<1>12. Wanted(r, a) = Wrap(v + b)
  <2>1. a + r.x.off = w
    BY <1>1
  <2>2. Wrap(w + b) = Wrap(v + b)
    BY <1>1, <1>7, WrapPlus DEF v
  <2>. QED BY <1>7, <2>1, <2>2 DEF Wanted
<1>. QED BY <1>1, <1>11, <1>12 DEF Solved, Comes, a

\* The code without pending uses arrives at the label.
LEMMA CodeSolved ==
    ASSUME NEW s, NEW r, NEW top, Lies(s, r, top), delayed \in BOOLEAN,
           Address(s, r) \in 1 .. Size - 1, Code(s, r, {}, delayed)
    PROVE  Solved(s, r)
<1>1. r.kind \in {"load", "value", "branch", "jump", "word"}
  BY DEF Lies
<1>2. CASE r.kind = "word"
  BY <1>2, WordSolved DEF Code
<1>3. CASE r.kind = "jump"
  BY <1>3, JumpSolved DEF Code, JumpCode
<1>4. CASE r.kind = "branch"
  BY <1>4, BranchSolved DEF Code, BranchCode
<1>5. CASE r.kind = "value"
  BY <1>5, CodeIsRight, ValueSolved DEF Code
<1>6. CASE r.kind = "load"
  BY <1>6, CodeIsRight, LoadSolved DEF Code
<1>. QED BY <1>1, <1>2, <1>3, <1>4, <1>5, <1>6

-----------------------------------------------------------------------------
(* Images whose code is right *)

Alike(i, j) == j.op = i.op /\ j.rt = i.rt /\ j.rs = i.rs /\ j.imm = i.imm
SameRun(s, t, r) ==
    /\ Address(t, r) = Address(s, r)
    /\ r.kind = "word" => t.data[r.at] = s.data[r.at]
    /\ r.kind # "word" => \A k \in Span(r) : Alike(s.text[k], t.text[k])

LEMMA RanAlike ==
    ASSUME NEW i, NEW j, Alike(i, j), NEW x
    PROVE  Ran(x, j) = Ran(x, i)
BY DEF Alike, Ran

LEMMA SolvedSame ==
    ASSUME NEW s, NEW t, NEW r, NEW top, Lies(s, r, top), SameRun(s, t, r), Solved(s, r)
    PROVE  Solved(t, r)
<1>1. CASE r.kind = "word"
  BY <1>1 DEF Solved, SameRun, Comes
<1>2. CASE r.kind # "word"
  <2>1. /\ Alike(s.text[r.at], t.text[r.at]) /\ r.count \in 1 .. 3
        /\ r.count = 3 => Alike(s.text[r.at + 1], t.text[r.at + 1]) /\ Alike(s.text[r.at + 2], t.text[r.at + 2])
        /\ r.count = 2 => Alike(s.text[r.at + 1], t.text[r.at + 1])
    <3>1. /\ r.at \in Span(r) /\ Final(r) \in Span(r) /\ (r.count = 2 => Final(r) = r.at + 1)
          /\ (r.count = 3 => Final(r) = r.at + 2 /\ r.at + 1 \in Span(r))
      BY SpanShape
    <3>2. r.count \in 1 .. 3
      BY DEF Lies
    <3>. QED BY <1>2, <3>1, <3>2 DEF SameRun
  <2>. DEFINE one == Ran(Registers, s.text[r.at])
              two == Ran(one, s.text[r.at + 1])
  <2>2. Ran(Registers, t.text[r.at]) = one /\ t.text[r.at].imm = s.text[r.at].imm
    BY <2>1, RanAlike DEF Alike
  <2>3. r.count # 1 => Ran(one, t.text[r.at + 1]) = two
    BY <2>1, RanAlike
  <2>4. r.count = 3 => Ran(two, t.text[r.at + 2]) = Ran(two, s.text[r.at + 2])
    BY <2>1, RanAlike
  <2>5. Arrived(t, r) = Arrived(s, r)
    <3>1. CASE r.count = 1
      BY <2>2, <3>1 DEF Arrived
    <3>2. CASE r.count = 2
      BY <2>2, <2>3, <3>2 DEF Arrived
    <3>3. CASE r.count = 3
      BY <2>2, <2>3, <2>4, <3>3 DEF Arrived
    <3>. QED BY <2>1, <3>1, <3>2, <3>3
  <2>6. Comes(t, r) = Comes(s, r)
    BY <1>2, <2>2, <2>5 DEF Comes
  <2>7. Address(t, r) = Address(s, r)
    BY DEF SameRun
  <2>. QED BY <2>6, <2>7 DEF Solved
<1>. QED BY <1>1, <1>2

LEMMA SameIsRun == ASSUME NEW s, NEW t, NEW r, SameCode(s, t, r) PROVE SameRun(s, t, r)
BY DEF SameCode, SameRun, Alike

\* The labels in P are those of the line, for what follows at here; words end before top.
LabelFit(s, P, R, here, l) ==
    LET y == s.labels[l] IN
    /\ y.addr \in Nat /\ y.addr < Size /\ UsesFit(s, R, l)
    /\ l \in P => y.addr = here /\ y.meant = 0
    /\ l \notin P => y.meant = y.addr /\ (y.addr # 0 => y.uses = <<>>)
Sound(s, P, R, here, top) ==
    /\ Formed(s) /\ Placed(s, R, top) /\ delayed \in BOOLEAN
    /\ P \subseteq 1 .. Len(s.labels) /\ (P # {} => here \in 1 .. Size - 1)
    /\ \A l \in 1 .. Len(s.labels) : LabelFit(s, P, R, here, l)
    /\ \A r \in R : Waits(s, r) \/ Solved(s, r)

\* One label is replaced.
LEMMA LabelSet ==
    ASSUME NEW s, Formed(s), NEW l \in 1 .. Len(s.labels), NEW y,
           y = [p \in LabelParts |-> y[p]], IsList(y.uses)
    PROVE  LET t == [s EXCEPT !.labels[l] = y] IN
           /\ Formed(t) /\ t.text = s.text /\ t.data = s.data /\ t.table = s.table /\ t.local = s.local
           /\ Len(t.labels) = Len(s.labels)
           /\ \A k \in 1 .. Len(s.labels) : t.labels[k] = IF k = l THEN y ELSE s.labels[k]
<1>. DEFINE x == [s.labels EXCEPT ![l] = y]
            t == [s EXCEPT !.labels[l] = y]
<1>1. t = [s EXCEPT !.labels = x]
  OBVIOUS
<1>2. DOMAIN s.labels = 1 .. Len(s.labels) /\ IsList(s.labels)
  BY ListShape DEF Formed, Well
<1>3. /\ x = [k \in DOMAIN s.labels |-> x[k]]
      /\ \A k \in 1 .. Len(s.labels) : x[k] = IF k = l THEN y ELSE s.labels[k]
  BY <1>2
<1>. HIDE DEF x, t
<1>4. IsList(x) /\ Len(x) = Len(s.labels)
  BY <1>2, <1>3, SameDomain
<1>5. /\ t.text = s.text /\ t.data = s.data /\ t.table = s.table /\ t.local = s.local /\ t.labels = x
      /\ t = [p \in Parts0 |-> t[p]]
  BY <1>1 DEF Formed, Well, Parts0
<1>6. \A k \in 1 .. Len(x) : x[k] = [p \in LabelParts |-> x[k][p]] /\ IsList(x[k].uses)
  <2>. SUFFICES ASSUME NEW k \in 1 .. Len(x)
                PROVE  x[k] = [p \in LabelParts |-> x[k][p]] /\ IsList(x[k].uses)
    OBVIOUS
  <2>1. k \in 1 .. Len(s.labels)
    BY <1>4
  <2>2. CASE k = l
    BY <1>3, <2>1, <2>2
  <2>3. CASE k # l
    BY <1>3, <2>1, <2>3 DEF Formed, Well
  <2>. QED BY <2>2, <2>3
<1>7. Formed(t)
  BY <1>4, <1>5, <1>6 DEF Formed, Well
<1>8. /\ Formed(t) /\ t.text = s.text /\ t.data = s.data /\ t.table = s.table /\ t.local = s.local
      /\ Len(t.labels) = Len(s.labels)
      /\ \A k \in 1 .. Len(s.labels) : t.labels[k] = IF k = l THEN y ELSE s.labels[k]
  BY <1>3, <1>4, <1>5, <1>7
<1>. QED BY <1>8 DEF t

LEMMA LabelShape ==
    ASSUME NEW s, Formed(s), NEW l \in 1 .. Len(s.labels)
    PROVE  s.labels[l] = [p \in LabelParts |-> s.labels[l][p]] /\ IsList(s.labels[l].uses)
BY DEF Formed, Well

LEMMA NoUsesFit ==
    ASSUME NEW s, NEW R, NEW l, s.labels[l].uses = <<>>
    PROVE  UsesFit(s, R, l)
BY EmptyList DEF UsesFit

\* The references with another label than l are what they were.
LEMMA UsesFitKept ==
    ASSUME NEW s, NEW t, NEW R, NEW S, R \subseteq S, NEW l, t.labels[l].uses = s.labels[l].uses, UsesFit(s, R, l),
           \A r \in R : r.label = l /\ Waits(s, r) => Waits(t, r)
    PROVE  UsesFit(t, S, l)
BY DEF UsesFit

\* clear_labels, for one label.
SameSize(s, t) ==
    /\ t.table = s.table /\ t.local = s.local
    /\ Len(t.text) = Len(s.text) /\ Len(t.labels) = Len(s.labels) /\ DOMAIN t.data = DOMAIN s.data
SameAddresses(s, t) == \A k \in 1 .. Len(s.labels) : t.labels[k].addr = s.labels[k].addr
ClearedOne(s, l, a) == [ResolveUses(s, l) EXCEPT !.labels[l].meant = a]
LEMMA ClearOne ==
    ASSUME NEW s, NEW P, NEW R, NEW here, NEW top, Sound(s, P, R, here, top), NEW l \in P
    PROVE  LET t == ClearedOne(s, l, here) IN
           Sound(t, P \ {l}, R, here, top) /\ SameSize(s, t) /\ SameAddresses(s, t)
<1>. DEFINE n == Len(s.labels[l].uses)
            u == ResolveUses(s, l)
            t == [u EXCEPT !.labels[l].meant = here]
<1>1. /\ Formed(s) /\ Placed(s, R, top) /\ l \in 1 .. Len(s.labels) /\ delayed \in BOOLEAN
      /\ LabelFit(s, P, R, here, l) /\ here \in 1 .. Size - 1
  BY DEF Sound
<1>2. s.labels[l].addr = here /\ s.labels[l].addr \in Nat /\ UsesFit(s, R, l)
  BY <1>1 DEF LabelFit
<1>3. PICK w : Amid(s, w, R, l, n) /\ u = [w EXCEPT !.labels[l].uses = <<>>]
  BY <1>1, <1>2, UsesResolved
<1>. HIDE DEF n, u
<1>4. /\ Formed(w) /\ Len(w.text) = Len(s.text) /\ w.labels = s.labels /\ w.table = s.table
      /\ w.local = s.local /\ DOMAIN w.data = DOMAIN s.data
  BY <1>3 DEF Amid
<1>. DEFINE y == [w.labels[l] EXCEPT !.uses = <<>>]
<1>5. w.labels[l] = [p \in LabelParts |-> w.labels[l][p]]
  BY <1>1, <1>4, LabelShape
<1>6. /\ y = [p \in LabelParts |-> y[p]] /\ y.uses = <<>> /\ y.addr = here
  BY <1>2, <1>4, <1>5 DEF LabelParts
<1>7. u = [w EXCEPT !.labels[l] = y]
  BY <1>3
<1>. HIDE DEF y
<1>8. /\ Formed(u) /\ u.text = w.text /\ u.data = w.data /\ u.table = w.table /\ u.local = w.local
      /\ Len(u.labels) = Len(w.labels)
      /\ \A k \in 1 .. Len(w.labels) : u.labels[k] = IF k = l THEN y ELSE w.labels[k]
  BY <1>1, <1>4, <1>6, <1>7, EmptyList, LabelSet
<1>9. u.labels[l] = y
  BY <1>1, <1>4, <1>8
<1>. DEFINE z == [u.labels[l] EXCEPT !.meant = here]
<1>10. t = [u EXCEPT !.labels[l] = z]
  OBVIOUS
<1>11. z = [p \in LabelParts |-> z[p]] /\ z.uses = <<>> /\ z.addr = here /\ z.meant = here
  BY <1>6, <1>9 DEF LabelParts
<1>. HIDE DEF z, t
<1>12. /\ Formed(t) /\ t.text = u.text /\ t.data = u.data /\ t.table = u.table /\ t.local = u.local
       /\ Len(t.labels) = Len(u.labels)
       /\ \A k \in 1 .. Len(u.labels) : t.labels[k] = IF k = l THEN z ELSE u.labels[k]
  BY <1>1, <1>4, <1>8, <1>10, <1>11, EmptyList, LabelSet
<1>13. /\ Formed(t) /\ t.text = w.text /\ t.data = w.data /\ t.table = s.table /\ t.local = s.local
       /\ Len(t.labels) = Len(s.labels) /\ Len(t.text) = Len(s.text) /\ DOMAIN t.data = DOMAIN s.data
       /\ \A k \in 1 .. Len(s.labels) : t.labels[k] = IF k = l THEN z ELSE s.labels[k]
  BY <1>4, <1>8, <1>12
<1>14. \A k \in 1 .. Len(s.labels) : t.labels[k].addr = s.labels[k].addr
  BY <1>2, <1>11, <1>13
<1>15. Placed(t, R, top)
  BY <1>1, <1>13, PlacedKept
<1>16. ASSUME NEW r \in R
       PROVE  /\ Solved(t, r) \/ Waits(t, r)
              /\ r.label # l /\ Waits(s, r) => Waits(t, r)
  <2>1. Lies(s, r, top) /\ Lies(t, r, top) /\ Lies(w, r, top) /\ r.label \in 1 .. Len(s.labels)
    BY <1>1, <1>4, <1>15, PlacedKept DEF Placed, Lies
  <2>2. Address(t, r) = Address(s, r) /\ Address(w, r) = Address(s, r)
    BY <1>4, <1>14, <2>1 DEF Address
  <2>3. SameCode(w, t, r)
    BY <1>13, <2>2 DEF SameCode
  <2>4. CASE r.label = l /\ Waits(s, r)
    <3>1. Code(w, r, {}, delayed)
      BY <1>1, <1>3, <2>4, AmidEnd DEF n
    <3>2. Code(t, r, {}, delayed)
      BY <2>1, <2>3, <3>1, CodeSame
    <3>3. Address(t, r) \in 1 .. Size - 1
      BY <1>1, <1>2, <2>2, <2>4 DEF Address
    <3>4. Solved(t, r)
      BY <1>1, <2>1, <3>2, <3>3, CodeSolved
    <3>. QED BY <2>4, <3>4
  <2>5. CASE ~(r.label = l /\ Waits(s, r))
    <3>1. SameCode(s, w, r)
      BY <1>3, <2>5 DEF Amid
    <3>2. SameCode(s, t, r)
      BY <2>3, <3>1 DEF SameCode
    <3>3. Solved(s, r) => Solved(t, r)
      BY <2>1, <3>2, SameIsRun, SolvedSame
    <3>4. ASSUME Waits(s, r), r.label # l PROVE Waits(t, r)
      <4>1. t.labels[r.label] = s.labels[r.label]
        BY <1>13, <2>1, <3>4
      <4>2. Code(t, r, Sites(r), delayed)
        BY <2>1, <3>2, <3>4, CodeSame DEF Waits
      <4>. QED BY <3>4, <4>1, <4>2 DEF Waits, UsesOf
    <3>5. Waits(s, r) \/ Solved(s, r)
      BY DEF Sound
    <3>. QED BY <2>5, <3>3, <3>4, <3>5
  <2>. QED BY <2>4, <2>5
<1>17. ASSUME NEW k \in 1 .. Len(s.labels) PROVE LabelFit(t, P \ {l}, R, here, k)
  <2>1. CASE k = l
    <3>1. t.labels[k] = z /\ UsesFit(t, R, k)
      BY <1>11, <1>13, <2>1, NoUsesFit
    <3>2. here \in Nat /\ here < Size
      BY <1>1, SizeShape
    <3>. QED BY <1>11, <2>1, <3>1, <3>2 DEF LabelFit
  <2>2. CASE k # l
    <3>1. t.labels[k] = s.labels[k] /\ LabelFit(s, P, R, here, k)
      BY <1>13, <2>2 DEF Sound
    <3>2. UsesFit(t, R, k)
      BY <1>16, <2>2, <3>1, UsesFitKept DEF LabelFit
    <3>. QED BY <2>2, <3>1, <3>2 DEF LabelFit
  <2>. QED BY <2>1, <2>2
<1>18. Sound(t, P \ {l}, R, here, top)
  BY <1>1, <1>13, <1>15, <1>16, <1>17 DEF Sound
<1>19. ClearedOne(s, l, here) = t
  BY DEF ClearedOne, t, u
<1>20. SameSize(s, t) /\ SameAddresses(s, t)
  BY <1>13, <1>14 DEF SameSize, SameAddresses
<1>. QED BY <1>18, <1>19, <1>20

-----------------------------------------------------------------------------
(* The labels of the line: the images between them *)

Distinct(q) == \A i, j \in 1 .. Len(q) : q[i] = q[j] => i = j
After(q, i) == {q[j] : j \in i + 1 .. Len(q)}

LEMMA AfterShape ==
    ASSUME NEW q, IsList(q), Distinct(q)
    PROVE  /\ After(q, 0) = Range(q) /\ After(q, Len(q)) = {} /\ Len(q) \in Nat
           /\ DOMAIN q = 1 .. Len(q)
           /\ \A i \in Nat : i + 1 <= Len(q) => /\ q[i + 1] \in After(q, i)
                                                /\ After(q, i + 1) = After(q, i) \ {q[i + 1]}
<1>1. Len(q) \in Nat /\ DOMAIN q = 1 .. Len(q)
  BY ListShape
<1>. DEFINE n == Len(q)
<1>2. 0 + 1 .. n = 1 .. n /\ n + 1 .. n = {}
  BY <1>1
<1>3. After(q, 0) = Range(q) /\ After(q, n) = {}
  BY <1>1, <1>2 DEF After, Range
<1>4. ASSUME NEW i \in Nat, i + 1 <= n
      PROVE  q[i + 1] \in After(q, i) /\ After(q, i + 1) = After(q, i) \ {q[i + 1]}
  <2>1. /\ i + 1 \in i + 1 .. n /\ i + 1 \in 1 .. n /\ i + 1 .. n = {i + 1} \cup ((i + 1) + 1 .. n)
        /\ \A j \in (i + 1) + 1 .. n : j \in 1 .. n /\ j # i + 1
    BY <1>1, <1>4
  <2>2. \A j \in (i + 1) + 1 .. n : q[j] # q[i + 1]
    BY <2>1 DEF Distinct
  <2>. HIDE DEF n
  <2>. QED BY <2>1, <2>2 DEF After, n
<1>. QED BY <1>1, <1>3, <1>4

\* clear_labels
LEMMA ClearedSound ==
    ASSUME IsList(line), Distinct(line), NEW s, NEW R, NEW a, NEW top, Sound(s, Range(line), R, a, top)
    PROVE  LET t == Cleared(s, a) IN
           /\ Sound(t, {}, R, a, top) /\ SameSize(s, t) /\ SameAddresses(s, t)
<1>. DEFINE n == Len(line)
            Like(t) == SameSize(s, t) /\ SameAddresses(s, t)
<1>1. /\ n \in Nat /\ DOMAIN line = 1 .. n /\ After(line, 0) = Range(line) /\ After(line, n) = {}
      /\ \A i \in Nat : i + 1 <= n => /\ line[i + 1] \in After(line, i)
                                      /\ After(line, i + 1) = After(line, i) \ {line[i + 1]}
  BY AfterShape
<1>2. PICK f : Stages("label", a, s, line, f) /\ Cleared(s, a) = f[n]
  BY <1>1, ClearedStages
<1>. HIDE DEF n
<1>. DEFINE T == {i \in Nat : i <= n => Sound(f[i], After(line, i), R, a, top) /\ Like(f[i])}
<1>3. 0 \in T
  <2>1. f[0] = s
    BY <1>2 DEF Stages
  <2>2. Like(s)
    BY DEF SameSize, SameAddresses
  <2>. HIDE DEF Like
  <2>. QED BY <1>1, <2>1, <2>2
<1>4. ASSUME NEW i \in T PROVE i + 1 \in T
  <2>. SUFFICES ASSUME i + 1 <= n
                PROVE  Sound(f[i + 1], After(line, i + 1), R, a, top) /\ Like(f[i + 1])
    OBVIOUS
  <2>. DEFINE l == line[i + 1]
              t == f[i]
  <2>1. i \in Nat /\ i <= n /\ i + 1 \in 1 .. n /\ (i + 1) - 1 = i
    BY <1>1
  <2>2. f[i + 1] = ClearedOne(t, l, a)
    BY <1>1, <1>2, <2>1 DEF Stages, Turn, n, ClearedOne
  <2>3. Sound(t, After(line, i), R, a, top) /\ Like(t)
    BY <2>1
  <2>4. l \in After(line, i) /\ After(line, i + 1) = After(line, i) \ {l}
    BY <1>1, <2>1
  <2>. HIDE DEF t, l
  <2>. DEFINE Q == After(line, i)
  <2>a. Sound(t, Q, R, a, top) /\ l \in Q
    BY <2>3, <2>4
  <2>. HIDE DEF Q, T, Like
  <2>. DEFINE u == f[i + 1]
  <2>5. Sound(u, Q \ {l}, R, a, top) /\ SameSize(t, u) /\ SameAddresses(t, u)
    BY <2>2, <2>a, ClearOne
  <2>. HIDE DEF u
  <2>7. Like(u)
    BY <2>3, <2>5 DEF SameSize, SameAddresses, Like
  <2>. QED BY <2>4, <2>5, <2>7 DEF u, Q
<1>5. T = Nat
  <2>. HIDE DEF T
  <2>1. T \subseteq Nat
    BY DEF T
  <2>. QED BY <1>3, <1>4, <2>1, Induction
<1>6. Sound(f[n], {}, R, a, top) /\ Like(f[n])
  <2>. HIDE DEF Like
  <2>1. n \in T
    BY <1>1, <1>5
  <2>2. n <= n
    BY <1>1
  <2>. QED BY <1>1, <2>1, <2>2
<1>. QED BY <1>2, <1>6

\* What waits does not depend on the label's address.
LEMMA WaitsKept ==
    ASSUME NEW s, NEW t, NEW r, NEW top, Lies(s, r, top), Waits(s, r), t.text = s.text, t.data = s.data,
           t.labels[r.label].uses = s.labels[r.label].uses
    PROVE  Waits(t, r)
<1>1. Sites(r) \subseteq UsesOf(t, r.label)
  BY DEF Waits, UsesOf
<1>2. /\ r.kind \in {"load", "value", "branch", "jump", "word"}
      /\ r.kind = "word" => DataAt(r.at) \in Sites(r)
      /\ r.kind # "word" => InstAt(r.at) \in Sites(r) /\ InstAt(Final(r)) \in Sites(r)
  BY DEF Lies, Sites
<1>. DEFINE U == Sites(r)
<1>3. Code(s, r, U, delayed)
  BY DEF Waits
<1>. HIDE DEF U
<1>4. /\ r.kind = "word" => DataAt(r.at) \in U
      /\ r.kind # "word" => InstAt(r.at) \in U /\ InstAt(Final(r)) \in U
  BY <1>2 DEF U
<1>5. Code(t, r, U, delayed)
  <2>1. CASE r.kind = "word"
    BY <1>4, <2>1 DEF Code, WordCode
  <2>2. CASE r.kind = "branch"
    BY <1>3, <1>4, <2>2 DEF Code, BranchCode
  <2>3. CASE r.kind = "jump"
    BY <1>3, <1>4, <2>3 DEF Code, JumpCode
  <2>4. CASE r.kind \in {"load", "value"}
    BY <1>3, <1>4, <2>4 DEF Code, HalvesCode
  <2>. QED BY <1>2, <2>1, <2>2, <2>3, <2>4
<1>. QED BY <1>1, <1>5 DEF Waits, U

\* Labels whose references all wait get another address.
Moves(s, t, P, R, Q, b) ==
    /\ Formed(t) /\ t.text = s.text /\ t.data = s.data /\ Len(t.labels) = Len(s.labels)
    /\ Q \subseteq 1 .. Len(s.labels) /\ P \subseteq Q /\ (Q # {} => b \in 1 .. Size - 1)
    /\ \A r \in R : r.label \in Q => Waits(s, r)
    /\ \A k \in 1 .. Len(s.labels) :
          /\ t.labels[k].uses = s.labels[k].uses
          /\ k \in Q => t.labels[k].addr = b /\ t.labels[k].meant = 0
          /\ k \notin Q => t.labels[k].addr = s.labels[k].addr /\ t.labels[k].meant = s.labels[k].meant

MovesTo(t, Q, R, b, top) == Sound(t, Q, R, b, top) /\ \A r \in R : r.label \in Q => Waits(t, r)

LEMMA Moved ==
    ASSUME NEW s, NEW P, NEW R, NEW a, NEW top, Sound(s, P, R, a, top), NEW t, NEW Q, NEW b,
           Moves(s, t, P, R, Q, b)
    PROVE  MovesTo(t, Q, R, b, top)
<1>a. /\ Formed(t) /\ t.text = s.text /\ t.data = s.data /\ Len(t.labels) = Len(s.labels)
      /\ Q \subseteq 1 .. Len(s.labels) /\ P \subseteq Q /\ (Q # {} => b \in 1 .. Size - 1)
      /\ \A r \in R : r.label \in Q => Waits(s, r)
      /\ \A k \in 1 .. Len(s.labels) :
            /\ t.labels[k].uses = s.labels[k].uses
            /\ k \in Q => t.labels[k].addr = b /\ t.labels[k].meant = 0
            /\ k \notin Q => t.labels[k].addr = s.labels[k].addr /\ t.labels[k].meant = s.labels[k].meant
  BY DEF Moves
<1>1. /\ Placed(s, R, top) /\ delayed \in BOOLEAN
      /\ \A k \in 1 .. Len(s.labels) : LabelFit(s, P, R, a, k)
      /\ \A r \in R : Waits(s, r) \/ Solved(s, r)
  BY DEF Sound
<1>2. Placed(t, R, top)
  BY <1>a, <1>1, PlacedKept
<1>3. \A r \in R : Lies(s, r, top) /\ r.label \in 1 .. Len(s.labels)
  BY <1>1 DEF Placed, Lies
<1>4. ASSUME NEW r \in R, Waits(s, r) PROVE Waits(t, r)
  BY <1>a, <1>3, <1>4, WaitsKept
<1>5. ASSUME NEW r \in R, ~Waits(s, r) PROVE Solved(t, r)
  <2>1. r.label \notin Q /\ Solved(s, r)
    BY <1>a, <1>1, <1>5
  <2>2. SameRun(s, t, r)
    BY <1>a, <1>3, <2>1 DEF SameRun, Alike, Address
  <2>. QED BY <1>3, <2>1, <2>2, SolvedSame
<1>6. ASSUME NEW k \in 1 .. Len(s.labels) PROVE LabelFit(t, Q, R, b, k)
  <2>1. LabelFit(s, P, R, a, k)
    BY <1>1
  <2>2. UsesFit(t, R, k)
    BY <1>a, <1>4, <2>1, UsesFitKept DEF LabelFit
  <2>3. CASE k \in Q
    <3>1. b \in Nat /\ b < Size
      BY <1>a, <2>3, SizeShape
    <3>. QED BY <1>a, <2>2, <2>3, <3>1 DEF LabelFit
  <2>4. CASE k \notin Q
    BY <1>a, <2>1, <2>2, <2>4 DEF LabelFit
  <2>. QED BY <2>3, <2>4
<1>7. Sound(t, Q, R, b, top)
  BY <1>a, <1>1, <1>2, <1>4, <1>5, <1>6 DEF Sound
<1>. QED BY <1>a, <1>4, <1>7 DEF MovesTo

\* fix_current_label_address, label by label.
LEMMA FixedShape ==
    ASSUME NEW s, Formed(s), NEW a, IsList(line), \A l \in Range(line) : l \in 1 .. Len(s.labels)
    PROVE  LET t == Fixed(s, a) IN
           /\ Formed(t) /\ t.text = s.text /\ t.data = s.data /\ t.table = s.table /\ t.local = s.local
           /\ Len(t.labels) = Len(s.labels)
           /\ \A k \in 1 .. Len(s.labels) :
                 t.labels[k] = IF k \in Range(line) THEN [s.labels[k] EXCEPT !.addr = a] ELSE s.labels[k]
<1>. DEFINE n == Len(line)
            Upto(i) == {line[j] : j \in 1 .. i}
            Like(t, i) ==
              /\ Formed(t) /\ t.text = s.text /\ t.data = s.data /\ t.table = s.table /\ t.local = s.local
              /\ Len(t.labels) = Len(s.labels)
              /\ \A k \in 1 .. Len(s.labels) :
                    t.labels[k] = IF k \in Upto(i) THEN [s.labels[k] EXCEPT !.addr = a] ELSE s.labels[k]
<1>1. n \in Nat /\ DOMAIN line = 1 .. n
  BY ListShape
<1>a. Upto(0) = {} /\ Upto(n) = Range(line) /\ \A i \in Nat : Upto(i + 1) = Upto(i) \cup {line[i + 1]}
  <2>1. ASSUME NEW i \in Nat PROVE 1 .. i + 1 = (1 .. i) \cup {i + 1}
    OBVIOUS
  <2>2. 1 .. 0 = {}
    OBVIOUS
  <2>. HIDE DEF n
  <2>. QED BY <1>1, <2>1, <2>2 DEF Range
<1>2. PICK f : Stages("fix", a, s, line, f) /\ Fixed(s, a) = f[n]
  BY <1>1, FixedStages
<1>. HIDE DEF n, Upto
<1>. DEFINE T == {i \in Nat : i <= n => Like(f[i], i)}
<1>3. 0 \in T
  <2>1. f[0] = s
    BY <1>2 DEF Stages
  <2>2. Like(s, 0)
    BY <1>a
  <2>. HIDE DEF Like
  <2>. QED BY <2>1, <2>2
<1>4. ASSUME NEW i \in T PROVE i + 1 \in T
  <2>. SUFFICES ASSUME i + 1 <= n PROVE Like(f[i + 1], i + 1)
    OBVIOUS
  <2>. DEFINE l == line[i + 1]
              t == f[i]
              y == [t.labels[l] EXCEPT !.addr = a]
              u == [t EXCEPT !.labels[l] = y]
  <2>1. i \in Nat /\ i <= n /\ i + 1 \in 1 .. n /\ (i + 1) - 1 = i
    BY <1>1
  <2>2. f[i + 1] = u
    BY <1>1, <1>2, <2>1 DEF Stages, Turn, n
  <2>3. Like(t, i)
    BY <2>1
  <2>4. l \in 1 .. Len(t.labels)
    BY <1>1, <2>1, <2>3 DEF Range
  <2>5. Upto(i + 1) = Upto(i) \cup {l}
    BY <1>a, <2>1
  <2>. HIDE DEF t, l
  <2>6. t.labels[l] = [p \in LabelParts |-> t.labels[l][p]] /\ IsList(t.labels[l].uses)
    BY <2>3, <2>4, LabelShape
  <2>7. y = [p \in LabelParts |-> y[p]] /\ y.uses = t.labels[l].uses
    BY <2>6 DEF LabelParts
  <2>8. t.labels[l] = s.labels[l] \/ t.labels[l] = [s.labels[l] EXCEPT !.addr = a]
    BY <2>3, <2>4
  <2>9. y = [s.labels[l] EXCEPT !.addr = a]
    <3>1. s.labels[l] = [p \in LabelParts |-> s.labels[l][p]]
      BY <2>3, <2>4, LabelShape
    <3>. QED BY <2>8, <3>1
  <2>. HIDE DEF y
  <2>10. /\ Formed(u) /\ u.text = t.text /\ u.data = t.data /\ u.table = t.table /\ u.local = t.local
         /\ Len(u.labels) = Len(t.labels)
         /\ \A k \in 1 .. Len(t.labels) : u.labels[k] = IF k = l THEN y ELSE t.labels[k]
    BY <2>3, <2>4, <2>6, <2>7, LabelSet
  <2>. HIDE DEF u
  <2>11. ASSUME NEW k \in 1 .. Len(s.labels)
         PROVE  u.labels[k] = IF k \in Upto(i + 1) THEN [s.labels[k] EXCEPT !.addr = a] ELSE s.labels[k]
    BY <2>3, <2>5, <2>9, <2>10
  <2>12. Like(u, i + 1)
    BY <2>3, <2>10, <2>11
  <2>. HIDE DEF Like
  <2>. QED BY <2>2, <2>12
<1>5. T = Nat
  <2>. HIDE DEF T
  <2>1. T \subseteq Nat
    BY DEF T
  <2>. QED BY <1>3, <1>4, <2>1, Induction
<1>6. Like(f[n], n)
  <2>. HIDE DEF Like
  <2>1. n \in T
    BY <1>1, <1>5
  <2>. QED BY <1>1, <2>1
<1>. QED BY <1>2, <1>6, <1>a

LEMMA FixedSound ==
    ASSUME IsList(line), NEW s, NEW R, NEW a, NEW top, Sound(s, Range(line), R, a, top),
           \A r \in R : r.label \in Range(line) => Waits(s, r), NEW b \in 1 .. Size - 1
    PROVE  LET t == Fixed(s, b) IN
           Sound(t, Range(line), R, b, top) /\ SameSize(s, t) /\ t.text = s.text
<1>. DEFINE t == Fixed(s, b)
<1>1. Formed(s) /\ Range(line) \subseteq 1 .. Len(s.labels)
      /\ \A k \in 1 .. Len(s.labels) : LabelFit(s, Range(line), R, a, k)
  BY DEF Sound
<1>2. /\ Formed(t) /\ t.text = s.text /\ t.data = s.data /\ t.table = s.table /\ t.local = s.local
      /\ Len(t.labels) = Len(s.labels)
      /\ \A k \in 1 .. Len(s.labels) :
            t.labels[k] = IF k \in Range(line) THEN [s.labels[k] EXCEPT !.addr = b] ELSE s.labels[k]
  <2>1. \A l \in Range(line) : l \in 1 .. Len(s.labels)
    BY <1>1
  <2>. QED BY <1>1, <2>1, FixedShape
<1>. HIDE DEF t
<1>3. ASSUME NEW k \in 1 .. Len(s.labels)
      PROVE  /\ t.labels[k].uses = s.labels[k].uses
             /\ k \in Range(line) => t.labels[k].addr = b /\ t.labels[k].meant = 0
             /\ k \notin Range(line) => t.labels[k].addr = s.labels[k].addr /\ t.labels[k].meant = s.labels[k].meant
  <2>1. s.labels[k] = [p \in LabelParts |-> s.labels[k][p]] /\ LabelFit(s, Range(line), R, a, k)
    BY <1>1, LabelShape
  <2>2. k \in Range(line) => s.labels[k].meant = 0
    BY <2>1 DEF LabelFit
  <2>. QED BY <1>2, <2>1, <2>2 DEF LabelParts
<1>4. Sound(t, Range(line), R, b, top)
  <2>1. Moves(s, t, Range(line), R, Range(line), b)
    BY <1>1, <1>2, <1>3 DEF Moves
  <2>. QED BY <2>1, Moved DEF MovesTo
<1>. QED BY <1>2, <1>4 DEF t, SameSize

-----------------------------------------------------------------------------
(* Code for an address not known yet *)

LEMMA ConsShape ==
    ASSUME NEW f, IsList(f), NEW e
    PROVE  LET g == <<e>> \o f IN
           /\ IsList(g) /\ Range(g) = {e} \cup Range(f) /\ Len(g) = Len(f) + 1 /\ g[1] = e
           /\ \A k \in 2 .. Len(f) + 1 : g[k] = f[k - 1]
<1>. DEFINE S == {f[k] : k \in DOMAIN f} \cup {e}
            g == <<e>> \o f
<1>1. f \in Seq(S) /\ <<e>> \in Seq(S)
  <2>1. \A k \in 1 .. Len(f) : f[k] \in S
    BY ListShape
  <2>2. f \in [1 .. Len(f) -> S] /\ Len(f) \in Nat
    BY <2>1, ListShape
  <2>. QED BY <2>2, SeqDef
<1>. HIDE DEF S
<1>2. Len(g) = Len(f) + 1 /\ g[1] = e /\ \A k \in 2 .. Len(f) + 1 : g[k] = f[k - 1]
  BY <1>1, ConcatProperties, ListShape
<1>. QED BY <1>2, ListCons

\* Uses in the order they are resolved.
Ordered(u) == \A i, j \in 1 .. Len(u) : i < j /\ u[i].kind = u[j].kind => u[i].at > u[j].at

LEMMA OrderedCons ==
    ASSUME NEW u, IsList(u), Ordered(u), NEW w,
           \A v \in Range(u) : v.kind = w.kind => w.at > v.at
    PROVE  Ordered(<<w>> \o u)
<1>. DEFINE g == <<w>> \o u
<1>1. /\ Len(g) = Len(u) + 1 /\ g[1] = w /\ \A k \in 2 .. Len(u) + 1 : g[k] = u[k - 1]
      /\ Len(u) \in Nat /\ DOMAIN u = 1 .. Len(u)
  BY ConsShape, ListShape
<1>. HIDE DEF g
<1>2. ASSUME NEW i \in 1 .. Len(g), NEW j \in 1 .. Len(g), i < j, g[i].kind = g[j].kind
      PROVE  g[i].at > g[j].at
  <2>1. j \in 2 .. Len(u) + 1 /\ j - 1 \in 1 .. Len(u) /\ g[j] = u[j - 1]
    BY <1>1, <1>2
  <2>2. CASE i = 1
    <3>1. u[j - 1] \in Range(u)
      BY <1>1, <2>1 DEF Range
    <3>. QED BY <1>1, <1>2, <2>1, <2>2, <3>1
  <2>3. CASE i # 1
    <3>1. i \in 2 .. Len(u) + 1 /\ i - 1 \in 1 .. Len(u) /\ i - 1 < j - 1 /\ g[i] = u[i - 1]
      BY <1>1, <1>2, <2>3
    <3>. QED BY <1>2, <2>1, <3>1 DEF Ordered
  <2>. QED BY <2>2, <2>3
<1>3. Ordered(g)
  BY <1>2 DEF Ordered
<1>. QED BY <1>3 DEF g

\* Instructions appended; the uses of one label changed.
Extends(s, t) ==
    /\ Formed(t) /\ t.data = s.data /\ t.table = s.table /\ t.local = s.local
    /\ Len(t.labels) = Len(s.labels) /\ Len(s.text) <= Len(t.text)
    /\ \A k \in 1 .. Len(s.text) : t.text[k] = s.text[k]
UsesBut(s, t, l, us) ==
    \A k \in 1 .. Len(s.labels) :
        /\ t.labels[k].addr = s.labels[k].addr /\ t.labels[k].meant = s.labels[k].meant
        /\ t.labels[k].uses = IF k = l THEN us ELSE s.labels[k].uses

LEMMA ExtendsTrans ==
    ASSUME NEW s, Formed(s), NEW t, Extends(s, t), NEW u, Extends(t, u)
    PROVE  Extends(s, u)
<1>1. Len(s.text) \in Nat /\ Len(t.text) \in Nat /\ Len(u.text) \in Nat
  BY TextLength DEF Extends
<1>2. \A k \in 1 .. Len(s.text) : k \in 1 .. Len(t.text)
  BY <1>1 DEF Extends
<1>. QED BY <1>1, <1>2 DEF Extends

LEMMA Appended ==
    ASSUME NEW s, Formed(s), NEW i, IsInst(i)
    PROVE  LET t == [s EXCEPT !.text = Append(@, i)] IN
           /\ Extends(s, t) /\ t.labels = s.labels /\ Len(t.text) = Len(s.text) + 1
           /\ t.text[Len(s.text) + 1] = i
<1>. DEFINE x == Append(s.text, i)
            t == [s EXCEPT !.text = Append(@, i)]
<1>1. t = [s EXCEPT !.text = x]
  OBVIOUS
<1>2. /\ IsList(x) /\ Len(x) = Len(s.text) + 1 /\ x[Len(s.text) + 1] = i
      /\ \A k \in 1 .. Len(s.text) : x[k] = s.text[k]
  BY ListAppend DEF Formed, Well
<1>3. Len(s.text) \in Nat
  BY TextLength
<1>. HIDE DEF x, t
<1>4. \A k \in 1 .. Len(x) : IsInst(x[k])
  <2>1. \A k \in 1 .. Len(x) : k = Len(s.text) + 1 \/ k \in 1 .. Len(s.text)
    BY <1>2, <1>3
  <2>. QED BY <1>2, <2>1 DEF Formed
<1>5. TextOnly(s, t) /\ t.text = x
  BY <1>1, <1>2, <1>4, TextSet
<1>6. Extends(s, t) /\ t.labels = s.labels /\ Len(t.text) = Len(s.text) + 1 /\ t.text[Len(s.text) + 1] = i
  BY <1>2, <1>3, <1>5 DEF Extends, TextOnly
<1>. QED BY <1>6 DEF t

LEMMA RecordedShape ==
    ASSUME NEW s, Formed(s), NEW l \in 1 .. Len(s.labels), NEW w
    PROVE  LET t == Recorded(s, l, w) IN
           /\ Extends(s, t) /\ t.text = s.text /\ UsesBut(s, t, l, <<w>> \o s.labels[l].uses)
<1>. DEFINE us == <<w>> \o s.labels[l].uses
            y == [s.labels[l] EXCEPT !.uses = us]
            t == Recorded(s, l, w)
<1>1. t = [s EXCEPT !.labels[l] = y]
  BY DEF Recorded
<1>2. s.labels[l] = [p \in LabelParts |-> s.labels[l][p]] /\ IsList(s.labels[l].uses)
  BY LabelShape
<1>3. IsList(us)
  BY <1>2, ListCons
<1>. HIDE DEF us, t
<1>4. /\ y = [p \in LabelParts |-> y[p]] /\ y.uses = us /\ y.addr = s.labels[l].addr
      /\ y.meant = s.labels[l].meant
  BY <1>2 DEF LabelParts
<1>. HIDE DEF y
<1>5. /\ Formed(t) /\ t.text = s.text /\ t.data = s.data /\ t.table = s.table /\ t.local = s.local
      /\ Len(t.labels) = Len(s.labels)
      /\ \A k \in 1 .. Len(s.labels) : t.labels[k] = IF k = l THEN y ELSE s.labels[k]
  BY <1>1, <1>3, <1>4, LabelSet
<1>6. Len(s.text) \in Nat
  BY TextLength
<1>7. Extends(s, t) /\ t.text = s.text
  BY <1>5, <1>6 DEF Extends
<1>8. UsesBut(s, t, l, us)
  BY <1>4, <1>5 DEF UsesBut
<1>. QED BY <1>7, <1>8 DEF t, us

\* i_type_inst and j_type_inst for a label without an address.
LEMMA SingleUnknown ==
    ASSUME NEW s, Formed(s), NEW l \in 1 .. Len(s.labels), s.labels[l].addr = 0,
           NEW op, NEW rt, NEW rs, NEW e, IsExpr(e), e.sym = l
    PROVE  LET t == Single(s, op, rt, rs, e)
               k == Len(s.text) + 1 IN
           /\ Extends(s, t) /\ Len(t.text) = k /\ t.text[k] = Inst(op, rt, rs, e)
           /\ UsesBut(s, t, l, <<InstAt(k)>> \o s.labels[l].uses)
<1>. DEFINE i == Inst(op, rt, rs, e)
            a == [s EXCEPT !.text = Append(@, i)]
            k == Len(s.text) + 1
            t == Single(s, op, rt, rs, e)
<1>1. IsInst(i)
  BY DEF IsInst, Inst, IsExpr
<1>. HIDE DEF i
<1>2. /\ Extends(s, a) /\ a.labels = s.labels /\ Len(a.text) = Len(s.text) + 1
      /\ a.text[Len(s.text) + 1] = i
  BY <1>1, Appended
<1>3. l # None
  BY TextLength DEF None
<1>4. t = Recorded(a, l, InstAt(k))
  <2>1. ~IsKnown(s, e)
    BY <1>3 DEF IsKnown
  <2>. QED BY <1>2, <2>1 DEF Single, i, InstAt
<1>. HIDE DEF a, t
<1>5. Formed(a) /\ l \in 1 .. Len(a.labels)
  BY <1>2 DEF Extends
<1>6. /\ Extends(a, Recorded(a, l, InstAt(k))) /\ Recorded(a, l, InstAt(k)).text = a.text
      /\ UsesBut(a, Recorded(a, l, InstAt(k)), l, <<InstAt(k)>> \o a.labels[l].uses)
  BY <1>5, RecordedShape
<1>7. Extends(a, t) /\ t.text = a.text /\ UsesBut(a, t, l, <<InstAt(k)>> \o a.labels[l].uses)
  BY <1>4, <1>6
<1>8. Extends(s, t) /\ Len(t.text) = k /\ t.text[k] = i
  BY <1>2, <1>7, ExtendsTrans
<1>9. UsesBut(s, t, l, <<InstAt(k)>> \o s.labels[l].uses)
  BY <1>2, <1>7 DEF UsesBut
<1>. QED BY <1>8, <1>9 DEF t, i

\* lookup_label makes a label that no reference has.
Tabled(s) == \A n \in Names : s.table[n] \in 0 .. Len(s.labels)
LEMMA LookedSound ==
    ASSUME NEW s, NEW P, NEW R, NEW a, NEW top, Sound(s, P, R, a, top), Tabled(s), NEW n \in Names
    PROVE  LET t == Looked(s, n) IN
           /\ Sound(t, P, R, a, top) /\ Tabled(t) /\ t.table[n] \in 1 .. Len(t.labels)
           /\ t.text = s.text /\ t.data = s.data
           /\ \A r \in R : Waits(s, r) => Waits(t, r)
<1>1. /\ Formed(s) /\ Placed(s, R, top) /\ delayed \in BOOLEAN
      /\ P \subseteq 1 .. Len(s.labels) /\ (P # {} => a \in 1 .. Size - 1)
      /\ \A l \in 1 .. Len(s.labels) : LabelFit(s, P, R, a, l)
      /\ \A r \in R : Waits(s, r) \/ Solved(s, r)
  BY DEF Sound
<1>2. Len(s.labels) \in Nat /\ s.table[n] \in 0 .. Len(s.labels) /\ Well(s)
  BY <1>1, TextLength DEF Tabled, Formed
<1>3. CASE s.table[n] # None
  <2>1. Looked(s, n) = s
    BY <1>3 DEF Looked
  <2>2. s.table[n] \in 1 .. Len(s.labels)
    BY <1>2, <1>3 DEF None
  <2>. QED BY <2>1, <2>2
<1>4. CASE s.table[n] = None
  <2>. DEFINE t == Looked(s, n)
              k == Len(s.labels) + 1
  <2>1. /\ Well(t) /\ Len(t.labels) = k /\ k \in Nat \ {0} /\ t.local = s.local
        /\ \A l \in 1 .. Len(s.labels) : t.labels[l] = s.labels[l]
        /\ t.table = [s.table EXCEPT ![n] = k] /\ t.table[n] = k
    BY <1>2, <1>4, LookedShape
  <2>2. /\ t.text = s.text /\ t.data = s.data
        /\ t.labels = Append(s.labels, Undefined(n))
    BY <1>2, <1>4 DEF Looked, Well, Parts0
  <2>3. t.labels[k] = Undefined(n)
    BY <1>2, <2>2, ListAppend DEF Well
  <2>. HIDE DEF t
  <2>4. Formed(t)
    BY <1>1, <2>1, <2>2 DEF Formed
  <2>5. \A l \in 1 .. Len(s.labels) : l \in 1 .. k /\ l # k
    BY <1>2
  <2>a. Tabled(t) /\ t.table[n] \in 1 .. Len(t.labels)
    <3>1. ASSUME NEW q \in Names PROVE t.table[q] \in 0 .. k
      <4>1. t.table[q] = (IF q = n THEN k ELSE s.table[q]) /\ s.table[q] \in 0 .. Len(s.labels)
        BY <1>2, <2>1 DEF Tabled, Well
      <4>. QED BY <1>2, <4>1
    <3>. QED BY <2>1, <3>1 DEF Tabled
  <2>6. ASSUME NEW r \in R PROVE Lies(s, r, top) /\ Lies(t, r, top) /\ t.labels[r.label] = s.labels[r.label]
    <3>1. Lies(s, r, top) /\ r.label \in 1 .. Len(s.labels)
      BY <1>1 DEF Placed, Lies
    <3>. QED BY <2>1, <2>2, <2>5, <3>1 DEF Lies
  <2>7. Placed(t, R, top)
    BY <1>1, <2>6 DEF Placed
  <2>8. ASSUME NEW r \in R
        PROVE  /\ Waits(s, r) => Waits(t, r)
               /\ Solved(s, r) => Solved(t, r)
    <3>1. Waits(s, r) => Waits(t, r)
      BY <2>2, <2>6, WaitsKept
    <3>2. SameRun(s, t, r)
      BY <2>2, <2>6 DEF SameRun, Alike, Address
    <3>. QED BY <2>6, <3>1, <3>2, SolvedSame
  <2>9. ASSUME NEW l \in 1 .. k PROVE LabelFit(t, P, R, a, l)
    <3>1. CASE l = k
      <4>1. t.labels[l].addr = 0 /\ t.labels[l].uses = <<>> /\ t.labels[l].meant = 0
        BY <2>3, <3>1 DEF Undefined
      <4>2. l \notin P
        BY <1>1, <1>2, <3>1
      <4>. QED BY <4>1, <4>2, NoUsesFit, SizeShape DEF LabelFit
    <3>2. CASE l # k
      <4>1. l \in 1 .. Len(s.labels)
        BY <1>2, <3>2
      <4>2. LabelFit(s, P, R, a, l) /\ t.labels[l] = s.labels[l]
        BY <1>1, <2>1, <4>1
      <4>3. UsesFit(t, R, l)
        BY <2>8, <4>2, UsesFitKept DEF LabelFit
      <4>. QED BY <4>2, <4>3 DEF LabelFit
    <3>. QED BY <3>1, <3>2
  <2>10. P \subseteq 1 .. k
    BY <1>1, <2>5
  <2>11. Sound(t, P, R, a, top)
    BY <1>1, <2>1, <2>4, <2>7, <2>8, <2>9, <2>10 DEF Sound
  <2>. QED BY <2>2, <2>8, <2>11, <2>a DEF t
<1>. QED BY <1>3, <1>4

\* A use more, of an instruction at the end.
Recent(u, n) ==
    IsList(u) /\ Ordered(u) /\ \A v \in Range(u) : v.kind = "inst" => v.at \in Nat /\ v.at <= n

LEMMA RecentCons ==
    ASSUME NEW n \in Nat, NEW u, Recent(u, n), NEW k \in Nat, k > n
    PROVE  LET g == <<InstAt(k)>> \o u IN Recent(g, k) /\ Range(g) = {InstAt(k)} \cup Range(u)
<1>. DEFINE w == InstAt(k)
            g == <<w>> \o u
<1>1. w.at = k /\ w.kind = "inst"
  BY SiteShape
<1>. HIDE DEF w
<1>2. \A v \in Range(u) : v.kind = w.kind => w.at > v.at
  BY <1>1 DEF Recent
<1>3. Ordered(g)
  BY <1>2, OrderedCons DEF Recent
<1>4. IsList(g) /\ Range(g) = {w} \cup Range(u)
  BY ConsShape DEF Recent
<1>. HIDE DEF g
<1>5. \A v \in Range(g) : v.kind = "inst" => v.at \in Nat /\ v.at <= k
  BY <1>1, <1>4 DEF Recent
<1>. QED BY <1>3, <1>4, <1>5 DEF Recent, g, w

\* The uses met are of instructions and words there are.
LEMMA UsesPlaced ==
    ASSUME NEW s, NEW R, NEW top \in Int, Formed(s), Placed(s, R, top), NEW l \in 1 .. Len(s.labels),
           UsesFit(s, R, l)
    PROVE  /\ Recent(s.labels[l].uses, Len(s.text))
           /\ \A v \in UsesOf(s, l) : v.kind = "data" => v.at \in Nat /\ v.at < top
<1>. DEFINE u == s.labels[l].uses
<1>1. IsList(u) /\ DOMAIN u = 1 .. Len(u)
  BY LabelShape, ListShape
<1>2. Ordered(u)
  BY DEF UsesFit, Ordered
<1>3. ASSUME NEW v \in Range(u)
      PROVE  /\ v.kind = "inst" => v.at \in Nat /\ v.at <= Len(s.text)
             /\ v.kind = "data" => v.at \in Nat /\ v.at < top
  <2>1. PICK i \in 1 .. Len(u) : u[i] = v
    BY <1>1 DEF Range
  <2>2. PICK r \in R : v \in Sites(r)
    BY <2>1 DEF UsesFit
  <2>3. Lies(s, r, top) /\ Len(s.text) \in Nat
    BY TextLength DEF Placed
  <2>4. CASE r.kind = "word"
    BY <2>2, <2>3, <2>4, SiteShape DEF Sites, Lies
  <2>5. CASE r.kind # "word"
    <3>1. r.at \in Nat /\ Final(r) \in Nat /\ r.at <= Final(r) /\ Final(r) <= Len(s.text)
      BY <2>3, <2>5, SpanShape DEF Lies
    <3>2. v = InstAt(r.at) \/ v = InstAt(Final(r))
      BY <2>2, <2>5 DEF Sites
    <3>. HIDE DEF Final
    <3>. QED BY <2>3, <3>1, <3>2, SiteShape
  <2>. QED BY <2>4, <2>5
<1>. QED BY <1>1, <1>2, <1>3 DEF Recent, UsesOf

\* A LUI and the instruction that takes the lower half, with or without an index.
Pair(s, rs, op, rt, e) == Single(Addu(Single(s, "lui", "at", "zero", Upper(e)), rs), op, rt, "at", Lower(e))
Length(rs) == IF rs = "zero" THEN 2 ELSE 3

LEMMA AdduShape ==
    ASSUME NEW s, Formed(s), NEW rs
    PROVE  LET t == Addu(s, rs) IN
           /\ Extends(s, t) /\ t.labels = s.labels
           /\ rs = "zero" => t = s
           /\ rs # "zero" => /\ Len(t.text) = Len(s.text) + 1
                             /\ t.text[Len(s.text) + 1] = Inst("addu", "at", rs, Const(0))
<1>1. Len(s.text) \in Nat
  BY TextLength
<1>2. CASE rs = "zero"
  BY <1>1, <1>2 DEF Addu, Extends
<1>3. CASE rs # "zero"
  <2>. DEFINE i == Inst("addu", "at", rs, Const(0))
  <2>1. IsInst(i)
    BY DEF IsInst, Inst, Const, Expr
  <2>2. Addu(s, rs) = [s EXCEPT !.text = Append(@, i)]
    BY <1>3 DEF Addu
  <2>. HIDE DEF i
  <2>3. LET t == [s EXCEPT !.text = Append(@, i)] IN
        /\ Extends(s, t) /\ t.labels = s.labels /\ Len(t.text) = Len(s.text) + 1
        /\ t.text[Len(s.text) + 1] = i
    BY <2>1, Appended
  <2>. QED BY <1>3, <2>2, <2>3 DEF i
<1>. QED BY <1>2, <1>3

\* What that makes for a label without an address.
PairMade(s, t, l, rs, op, rt, e) ==
    LET k == Len(s.text) + 1
        j == Len(s.text) + Length(rs) IN
    /\ Extends(s, t) /\ Len(t.text) = j /\ t.text[k] = Inst("lui", "at", "zero", Upper(e))
    /\ rs # "zero" => t.text[k + 1] = Inst("addu", "at", rs, Const(0))
    /\ t.text[j] = Inst(op, rt, "at", Lower(e))
    /\ \E us : /\ UsesBut(s, t, l, us) /\ Recent(us, j)
               /\ Range(us) = Range(s.labels[l].uses) \cup {InstAt(k), InstAt(j)}

LEMMA PairUnknown ==
    ASSUME NEW s, Formed(s), NEW l \in 1 .. Len(s.labels), s.labels[l].addr = 0,
           Recent(s.labels[l].uses, Len(s.text)), NEW rs, NEW op, NEW rt, NEW e, IsExpr(e), e.sym = l
    PROVE  PairMade(s, Pair(s, rs, op, rt, e), l, rs, op, rt, e)
<1>. DEFINE a == Single(s, "lui", "at", "zero", Upper(e))
            b == Addu(a, rs)
            t == Pair(s, rs, op, rt, e)
            k == Len(s.text) + 1
            j == Len(s.text) + Length(rs)
            u0 == s.labels[l].uses
            u1 == <<InstAt(k)>> \o u0
            u2 == <<InstAt(j)>> \o u1
<1>1. Len(s.text) \in Nat /\ k \in Nat /\ j \in Nat /\ j > k /\ (rs # "zero" => j = (k + 1) + 1) /\ (rs = "zero" => j = k + 1)
  <2>1. (rs = "zero" => Length(rs) = 2) /\ (rs # "zero" => Length(rs) = 3)
    BY DEF Length
  <2>2. Len(s.text) \in Nat
    BY TextLength
  <2>. QED BY <2>1, <2>2
<1>2. /\ IsExpr(Upper(e)) /\ Upper(e).sym = l /\ IsExpr(Lower(e)) /\ Lower(e).sym = l
  BY DEF IsExpr, Upper, Lower
<1>3. /\ Extends(s, a) /\ Len(a.text) = k /\ a.text[k] = Inst("lui", "at", "zero", Upper(e))
      /\ UsesBut(s, a, l, u1)
  BY <1>2, SingleUnknown
<1>4. t = Single(b, op, rt, "at", Lower(e))
  BY DEF Pair
<1>. HIDE DEF a, t
<1>5. Formed(a) /\ l \in 1 .. Len(a.labels)
  BY <1>3 DEF Extends
<1>6. /\ Extends(a, b) /\ b.labels = a.labels
      /\ rs = "zero" => b = a
      /\ rs # "zero" => Len(b.text) = k + 1 /\ b.text[k + 1] = Inst("addu", "at", rs, Const(0))
  BY <1>3, <1>5, AdduShape
<1>. HIDE DEF b
<1>7. Formed(b) /\ l \in 1 .. Len(b.labels) /\ b.labels[l].addr = 0 /\ b.labels[l].uses = u1
  <2>1. a.labels[l].addr = 0 /\ a.labels[l].uses = u1
    <3>. HIDE DEF u1
    <3>. QED BY <1>3 DEF UsesBut
  <2>2. Formed(b) /\ b.labels = a.labels
    BY <1>6 DEF Extends
  <2>. HIDE DEF u1
  <2>. QED BY <1>5, <2>1, <2>2
<1>8. Len(b.text) + 1 = j
  BY <1>1, <1>3, <1>6
<1>9. /\ Extends(b, t) /\ Len(t.text) = j /\ t.text[j] = Inst(op, rt, "at", Lower(e))
      /\ UsesBut(b, t, l, u2)
  <2>1. LET y == Single(b, op, rt, "at", Lower(e))
            w == Len(b.text) + 1 IN
        /\ Extends(b, y) /\ Len(y.text) = w /\ y.text[w] = Inst(op, rt, "at", Lower(e))
        /\ UsesBut(b, y, l, <<InstAt(w)>> \o b.labels[l].uses)
    BY <1>2, <1>7, SingleUnknown
  <2>. HIDE DEF u1, j
  <2>. QED BY <1>4, <1>7, <1>8, <2>1
<1>10. Recent(u1, k) /\ Range(u1) = {InstAt(k)} \cup Range(u0)
  <2>1. k > Len(s.text)
    BY <1>1
  <2>. HIDE DEF k
  <2>. QED BY <1>1, <2>1, RecentCons
<1>. HIDE DEF u0, u1
<1>11. Recent(u2, j) /\ Range(u2) = {InstAt(j)} \cup Range(u1)
  <2>. HIDE DEF k, j
  <2>. QED BY <1>1, <1>10, RecentCons
<1>. HIDE DEF u2, k, j
<1>12. UsesBut(s, t, l, u2)
  BY <1>3, <1>6, <1>9 DEF UsesBut, Extends
<1>13. Extends(a, t) /\ Extends(s, t)
  BY <1>3, <1>5, <1>6, <1>9, ExtendsTrans
<1>14. Len(b.text) \in Nat /\ Len(a.text) \in Nat
  BY <1>5, <1>7, TextLength
<1>15. t.text[k] = Inst("lui", "at", "zero", Upper(e))
  <2>1. k \in 1 .. Len(a.text)
    BY <1>1, <1>3 DEF k
  <2>. QED BY <1>3, <1>13, <2>1 DEF Extends
<1>16. rs # "zero" => t.text[k + 1] = Inst("addu", "at", rs, Const(0))
  <2>1. rs # "zero" => k + 1 \in 1 .. Len(b.text)
    BY <1>1, <1>6
  <2>. QED BY <1>6, <1>9, <2>1 DEF Extends
<1>17. Range(u2) = Range(u0) \cup {InstAt(k), InstAt(j)}
  BY <1>10, <1>11
<1>18. \E us : UsesBut(s, t, l, us) /\ Recent(us, j) /\ Range(us) = Range(u0) \cup {InstAt(k), InstAt(j)}
  BY <1>11, <1>12, <1>17
<1>. QED BY <1>9, <1>13, <1>15, <1>16, <1>18 DEF k, j, t, u0, PairMade

-----------------------------------------------------------------------------
(* A reference more *)

LEMMA ReferenceMore ==
    ASSUME NEW s, NEW P, NEW R, NEW a, NEW top, Sound(s, P, R, a, top), NEW t, Formed(t),
           Len(t.labels) = Len(s.labels), NEW top2, NEW r,
           \A q \in R : /\ Lies(t, q, top2) /\ SameRun(s, t, q) /\ Apart(q, r) /\ Apart(r, q)
                        /\ Waits(s, q) => Waits(t, q),
           Lies(t, r, top2), Waits(t, r) \/ Solved(t, r),
           \A k \in 1 .. Len(s.labels) :
               /\ t.labels[k].addr = s.labels[k].addr /\ t.labels[k].meant = s.labels[k].meant
               /\ t.labels[k].uses = s.labels[k].uses \/ s.labels[k].addr = 0
               /\ UsesFit(t, R \cup {r}, k)
    PROVE  Sound(t, P, R \cup {r}, a, top2)
<1>1. /\ Placed(s, R, top) /\ delayed \in BOOLEAN
      /\ P \subseteq 1 .. Len(s.labels) /\ (P # {} => a \in 1 .. Size - 1)
      /\ \A l \in 1 .. Len(s.labels) : LabelFit(s, P, R, a, l)
      /\ \A q \in R : Waits(s, q) \/ Solved(s, q)
  BY DEF Sound
<1>2. Placed(t, R \cup {r}, top2)
  <2>1. \A p, q \in R : p # q => Apart(p, q)
    BY <1>1 DEF Placed
  <2>. QED BY <2>1 DEF Placed
<1>3. ASSUME NEW q \in R PROVE Waits(t, q) \/ Solved(t, q)
  <2>1. Lies(s, q, top)
    BY <1>1 DEF Placed
  <2>2. Solved(s, q) => Solved(t, q)
    BY <2>1, SolvedSame
  <2>. QED BY <1>1, <2>2
<1>4. ASSUME NEW k \in 1 .. Len(s.labels) PROVE LabelFit(t, P, R \cup {r}, a, k)
  <2>1. LabelFit(s, P, R, a, k)
    BY <1>1
  <2>. QED BY <2>1 DEF LabelFit
<1>5. \A l \in 1 .. Len(t.labels) : LabelFit(t, P, R \cup {r}, a, l)
  BY <1>4
<1>6. \A q \in R \cup {r} : Waits(t, q) \/ Solved(t, q)
  BY <1>3
<1>. QED BY <1>1, <1>2, <1>5, <1>6 DEF Sound

\* Code and words added after all there are.
Widens(s, t, top) ==
    /\ Formed(t) /\ Len(t.labels) = Len(s.labels) /\ Len(s.text) <= Len(t.text)
    /\ \A k \in 1 .. Len(s.text) : t.text[k] = s.text[k]
    /\ \A w \in DOMAIN s.data : w \in DOMAIN t.data /\ (w < top => t.data[w] = s.data[w])
Beyond(s, r, top) == IF r.kind = "word" THEN r.at >= top ELSE r.at > Len(s.text)

LEMMA ExtendsWidens ==
    ASSUME NEW s, NEW t, NEW top, Extends(s, t)
    PROVE  Widens(s, t, top)
BY DEF Extends, Widens

LEMMA Further ==
    ASSUME NEW s, NEW R, NEW top \in Int, NEW top2 \in Int, top <= top2, Formed(s), Placed(s, R, top),
           NEW t, Formed(t), Len(t.labels) = Len(s.labels), Len(s.text) <= Len(t.text),
           \A w \in DOMAIN s.data : w \in DOMAIN t.data, NEW q \in R
    PROVE  /\ Lies(s, q, top) /\ Lies(t, q, top2)
           /\ \A r : Beyond(s, r, top) /\ Lies(t, r, top2) => Apart(q, r) /\ Apart(r, q)
<1>1. Lies(s, q, top) /\ Len(s.text) \in Nat /\ Len(t.text) \in Nat
  BY TextLength DEF Placed
<1>2. Final(q) \in Nat /\ q.at \in Nat
  BY <1>1, SpanShape DEF Lies
<1>3. Lies(t, q, top2)
  <2>1. CASE q.kind = "word"
    BY <1>1, <1>2, <2>1 DEF Lies
  <2>2. CASE q.kind # "word"
    <3>1. Final(q) <= Len(s.text)
      BY <1>1, <2>2 DEF Lies
    <3>2. Final(q) <= Len(t.text)
      <4>. HIDE DEF Final
      <4>. QED BY <1>1, <1>2, <3>1
    <3>. QED BY <1>1, <2>2, <3>2 DEF Lies
  <2>. QED BY <2>1, <2>2
<1>4. ASSUME NEW r, Beyond(s, r, top), Lies(t, r, top2) PROVE Apart(q, r) /\ Apart(r, q)
  <2>1. r.at \in Nat
    BY <1>4 DEF Lies
  <2>2. CASE q.kind = "word" /\ r.kind = "word"
    <3>1. q.at < top /\ r.at >= top
      BY <1>1, <1>4, <2>2 DEF Lies, Beyond
    <3>2. q.at # r.at
      BY <1>2, <2>1, <3>1
    <3>. QED BY <2>2, <3>2 DEF Apart
  <2>3. CASE q.kind # "word" /\ r.kind # "word"
    <3>1. Final(q) <= Len(s.text) /\ r.at > Len(s.text)
      BY <1>1, <1>4, <2>3 DEF Lies, Beyond
    <3>2. Final(q) < r.at
      <4>. HIDE DEF Final
      <4>. QED BY <1>1, <1>2, <2>1, <3>1
    <3>. QED BY <2>3, <3>2 DEF Apart
  <2>4. CASE (q.kind = "word") # (r.kind = "word")
    BY <2>4 DEF Apart
  <2>. QED BY <2>2, <2>3, <2>4
<1>. QED BY <1>1, <1>3, <1>4

LEMMA WaitsWider ==
    ASSUME NEW s, NEW R, NEW top \in Int, Formed(s), Placed(s, R, top), NEW t, Widens(s, t, top),
           NEW q \in R, Address(t, q) = Address(s, q)
    PROVE  /\ SameCode(s, t, q)
           /\ UsesOf(s, q.label) \subseteq UsesOf(t, q.label) /\ Waits(s, q) => Waits(t, q)
<1>1. Lies(s, q, top)
  BY DEF Placed
<1>2. SameCode(s, t, q)
  <2>1. CASE q.kind = "word"
    BY <1>1, <2>1 DEF SameCode, Widens, Lies
  <2>2. CASE q.kind # "word"
    BY <2>2, InstPlace DEF SameCode, Widens
  <2>. QED BY <2>1, <2>2
<1>3. ASSUME Waits(s, q), UsesOf(s, q.label) \subseteq UsesOf(t, q.label) PROVE Waits(t, q)
  <2>1. Code(t, q, Sites(q), delayed)
    BY <1>1, <1>2, <1>3, CodeSame DEF Waits
  <2>2. Sites(q) \subseteq UsesOf(t, q.label)
    BY <1>3 DEF Waits
  <2>. QED BY <2>1, <2>2 DEF Waits
<1>. QED BY <1>2, <1>3

\* A sound image with a reference more, to a label that has no address yet.
Awaiting(s, t, P, R, r, a, top) ==
    /\ Sound(t, P, R \cup {r}, a, top) /\ Waits(t, r)
    /\ \A q \in R : Waits(s, q) => Waits(t, q)

LEMMA PendsSound ==
    ASSUME NEW s, NEW P, NEW R, NEW a, NEW top \in Int, Sound(s, P, R, a, top),
           NEW l \in 1 .. Len(s.labels), s.labels[l].addr = 0, NEW top2 \in Int, top <= top2,
           NEW t, Widens(s, t, top), NEW us, UsesBut(s, t, l, us), IsList(us), Ordered(us),
           NEW r, r.label = l, Range(us) = UsesOf(s, l) \cup Sites(r),
           Lies(t, r, top2), Beyond(s, r, top), Code(t, r, Sites(r), delayed)
    PROVE  Awaiting(s, t, P, R, r, a, top2)
<1>1. /\ Formed(s) /\ Placed(s, R, top) /\ Formed(t)
      /\ \A k \in 1 .. Len(s.labels) : LabelFit(s, P, R, a, k)
  BY DEF Sound, Widens
<1>2. Waits(t, r)
  <2>1. t.labels[l].uses = us
    BY DEF UsesBut
  <2>. QED BY <2>1 DEF Waits, UsesOf
<1>3. ASSUME NEW q \in R
      PROVE  /\ Lies(t, q, top2) /\ SameRun(s, t, q) /\ Apart(q, r) /\ Apart(r, q)
             /\ Waits(s, q) => Waits(t, q)
  <2>1. /\ Lies(s, q, top) /\ Lies(t, q, top2) /\ Apart(q, r) /\ Apart(r, q)
    BY <1>1, Further DEF Widens
  <2>2. q.label \in 1 .. Len(s.labels)
    BY <2>1 DEF Lies
  <2>3. Address(t, q) = Address(s, q) /\ UsesOf(s, q.label) \subseteq UsesOf(t, q.label)
    BY <2>2 DEF UsesBut, Address, UsesOf
  <2>4. SameCode(s, t, q) /\ (Waits(s, q) => Waits(t, q))
    BY <1>1, <2>3, WaitsWider
  <2>. QED BY <2>1, <2>4, SameIsRun
<1>4. ASSUME NEW k \in 1 .. Len(s.labels) PROVE UsesFit(t, R \cup {r}, k)
  <2>1. UsesFit(s, R, k)
    BY <1>1 DEF LabelFit
  <2>2. CASE k # l
    <3>1. t.labels[k].uses = s.labels[k].uses
      BY <2>2 DEF UsesBut
    <3>2. \A q \in R : q.label = k /\ Waits(s, q) => Waits(t, q)
      BY <1>3
    <3>. QED BY <2>1, <3>1, <3>2, UsesFitKept
  <2>3. CASE k = l
    <3>1. t.labels[k].uses = us /\ DOMAIN us = 1 .. Len(us)
      BY <2>3, ListShape DEF UsesBut
    <3>2. IsList(s.labels[k].uses)
      BY <1>1, LabelShape
    <3>3. DOMAIN s.labels[k].uses = 1 .. Len(s.labels[k].uses)
      BY <3>2, ListShape
    <3>4. ASSUME NEW i \in 1 .. Len(us)
          PROVE  \E q \in R \cup {r} : q.label = k /\ Waits(t, q) /\ us[i] \in Sites(q)
      <4>1. us[i] \in UsesOf(s, l) \cup Sites(r)
        BY <3>1 DEF Range
      <4>2. CASE us[i] \in Sites(r)
        BY <1>2, <2>3, <4>2
      <4>3. CASE us[i] \in UsesOf(s, l)
        <5>1. PICK j \in 1 .. Len(s.labels[k].uses) : s.labels[k].uses[j] = us[i]
          BY <2>3, <3>3, <4>3 DEF UsesOf, Range
        <5>2. PICK q \in R : q.label = k /\ Waits(s, q) /\ us[i] \in Sites(q)
          BY <2>1, <5>1 DEF UsesFit
        <5>. QED BY <1>3, <5>2
      <4>. QED BY <4>1, <4>2, <4>3
    <3>. QED BY <3>1, <3>4 DEF UsesFit, Ordered
  <2>. QED BY <2>2, <2>3
<1>5. \A k \in 1 .. Len(s.labels) :
         /\ t.labels[k].addr = s.labels[k].addr /\ t.labels[k].meant = s.labels[k].meant
         /\ t.labels[k].uses = s.labels[k].uses \/ s.labels[k].addr = 0
         /\ UsesFit(t, R \cup {r}, k)
  BY <1>4 DEF UsesBut
<1>6. Sound(t, P, R \cup {r}, a, top2)
  <2>1. Len(t.labels) = Len(s.labels)
    BY DEF Widens
  <2>. QED BY <1>1, <1>2, <1>3, <1>5, <2>1, ReferenceMore
<1>. QED BY <1>2, <1>3, <1>6 DEF Awaiting

\* The references of programs, and what is made for one.
Form(kind, op, rt, x) ==
    /\ x.off \in Int /\ x.base \in {"zero", "base"}
    /\ \/ kind = "load" /\ op = "lw" /\ rt = "t0"
       \/ kind = "value" /\ op \in {"ori", "addiu"} /\ rt = "t0" /\ x.base = "zero"
       \/ /\ (kind = "branch" /\ op = "b") \/ (kind = "jump" /\ op = "j")
          /\ rt = "zero" /\ x.base = "zero" /\ x.off = 0
ExprOf(s, op, x, l) == Expr(IF op = "b" THEN Wrap(-TextPc(s)) ELSE x.off, l)
Made(s, op, rt, x, e) == IF op = "j" THEN Single(s, op, rt, "zero", e) ELSE IType(s, op, rt, x.base, e)
IsRef(s, t, r, kind, l, x) ==
    /\ r.kind = kind /\ r.label = l /\ r.at = Len(s.text) + 1
    /\ r.count = Len(t.text) - Len(s.text) /\ r.x = x

LEMMA MadeLies ==
    ASSUME NEW s, Formed(s), NEW t, Formed(t), Len(t.labels) = Len(s.labels), NEW kind, NEW op, NEW rt, NEW x,
           Form(kind, op, rt, x), NEW l \in 1 .. Len(s.labels), NEW r, IsRef(s, t, r, kind, l, x),
           r.count \in 1 .. 3, op \in {"b", "j"} => r.count = 1
    PROVE  (\A top : Lies(t, r, top) /\ Beyond(s, r, top)) /\ Final(r) = Len(t.text)
<1>1. Len(s.text) \in Nat /\ Len(t.text) \in Nat
  BY TextLength
<1>2. r.at = Len(s.text) + 1 /\ r.count = Len(t.text) - Len(s.text)
  BY DEF IsRef
<1>3. Final(r) = Len(t.text)
  <2>1. ASSUME NEW y \in Nat, NEW z \in Nat PROVE ((y + 1) + (z - y)) - 1 = z
    OBVIOUS
  <2>2. Final(r) = ((Len(s.text) + 1) + (Len(t.text) - Len(s.text))) - 1
    BY <1>2 DEF Final
  <2>. QED BY <1>1, <2>1, <2>2
<1>4. /\ r.kind \in {"load", "value", "branch", "jump"} /\ r.label = l
      /\ r.x.off \in Int /\ r.x.base \in {"zero", "base"}
      /\ r.kind # "load" => r.x.base = "zero"
      /\ r.kind \in {"branch", "jump"} => r.count = 1 /\ r.x.off = 0
  BY DEF IsRef, Form
<1>5. Final(r) <= Len(t.text) /\ r.at \in Nat \ {0} /\ r.at > Len(s.text)
  BY <1>1, <1>2, <1>3
<1>6. \A top : Lies(t, r, top)
  BY <1>4, <1>5 DEF Lies
<1>7. \A top : Beyond(s, r, top)
  BY <1>4, <1>5 DEF Beyond
<1>. QED BY <1>3, <1>6, <1>7

LEMMA MadeUnknown ==
    ASSUME NEW s, NEW P, NEW R, NEW a, NEW top \in Int, Sound(s, P, R, a, top),
           NEW l \in 1 .. Len(s.labels), s.labels[l].addr = 0, NEW kind, NEW op, NEW rt, NEW x,
           Form(kind, op, rt, x), NEW t, t = Made(s, op, rt, x, ExprOf(s, op, x, l)),
           NEW r, IsRef(s, t, r, kind, l, x)
    PROVE  /\ Awaiting(s, t, P, R, r, a, top)
           /\ t.table = s.table /\ t.local = s.local /\ Len(t.labels) = Len(s.labels)
<1>. DEFINE e == ExprOf(s, op, x, l)
            k == Len(s.text) + 1
            u0 == s.labels[l].uses
<1>1. /\ Formed(s) /\ Placed(s, R, top) /\ UsesFit(s, R, l)
      /\ Len(s.text) \in Nat /\ k \in Nat /\ k > Len(s.text)
  BY TextLength DEF Sound, LabelFit
<1>2. Recent(u0, Len(s.text)) /\ UsesOf(s, l) = Range(u0)
  BY <1>1, UsesPlaced DEF UsesOf
<1>3. IsExpr(e) /\ e.sym = l /\ e.bits = "all" /\ IsExpr(Lower(e)) /\ Lower(e).sym = l /\ Lower(e).bits = "lower"
  BY DEF ExprOf, Expr, IsExpr, Lower
<1>4. l # None
  BY <1>1, TextLength DEF None
<1>5. ~IsKnown(s, e)
  BY <1>3, <1>4 DEF IsKnown
<1>6. op # "b" => e = Expr(x.off, l)
  BY DEF ExprOf
<1>7. SUFFICES ASSUME TRUE
               PROVE  /\ Extends(s, t) /\ Lies(t, r, top) /\ Beyond(s, r, top) /\ Code(t, r, Sites(r), delayed)
                      /\ \E us : UsesBut(s, t, l, us) /\ IsList(us) /\ Ordered(us) /\ Range(us) = Range(u0) \cup Sites(r)
  <2>1. r.label = l
    BY DEF IsRef
  <2>2. Widens(s, t, top) /\ t.table = s.table /\ t.local = s.local /\ Len(t.labels) = Len(s.labels)
    BY <1>7, ExtendsWidens DEF Extends
  <2>3. PICK us : UsesBut(s, t, l, us) /\ IsList(us) /\ Ordered(us) /\ Range(us) = Range(u0) \cup Sites(r)
    BY <1>7
  <2>. HIDE DEF e, u0
  <2>4. top <= top /\ Range(us) = UsesOf(s, l) \cup Sites(r)
    BY <1>2, <2>3
  <2>5. Lies(t, r, top) /\ Beyond(s, r, top) /\ Code(t, r, Sites(r), delayed)
    BY <1>7
  <2>6. Awaiting(s, t, P, R, r, a, top)
    BY <2>1, <2>2, <2>3, <2>4, <2>5, PendsSound
  <2>. QED BY <2>2, <2>6
<1>8. CASE op \in {"b", "j"}
  <2>. DEFINE f == IF op = "b" THEN Lower(e) ELSE e
  <2>1. t = Single(s, op, rt, "zero", f) /\ IsExpr(f) /\ f.sym = l
    <3>1. op = "b" => t = Single(s, op, rt, "zero", f)
      BY <1>5 DEF Form, Made, IType
    <3>2. op = "j" => t = Single(s, op, rt, "zero", f)
      BY DEF Made
    <3>. QED BY <1>3, <1>8, <3>1, <3>2
  <2>2. f.bits \in {"all", "lower"} /\ (op = "j" => f = Expr(0, l))
    BY <1>3, <1>6 DEF Form
  <2>. DEFINE us == <<InstAt(k)>> \o u0
  <2>. HIDE DEF e, f
  <2>3. Extends(s, t) /\ Len(t.text) = k /\ t.text[k] = Inst(op, rt, "zero", f) /\ UsesBut(s, t, l, us)
    BY <1>1, <2>1, SingleUnknown
  <2>4. Recent(us, k) /\ Range(us) = {InstAt(k)} \cup Range(u0)
    <3>. HIDE DEF k, u0
    <3>. QED BY <1>1, <1>2, RecentCons
  <2>5. Formed(t) /\ Len(t.labels) = Len(s.labels) /\ Len(t.text) = Len(s.text) + 1
    BY <2>3 DEF Extends
  <2>a. r.count = 1
    BY <1>1, <2>5 DEF IsRef
  <2>6. Lies(t, r, top) /\ Beyond(s, r, top) /\ Final(r) = k
    BY <1>1, <2>5, <2>a, MadeLies
  <2>7. r.at = k /\ r.label = l /\ r.kind \in {"branch", "jump"} /\ (r.kind = "branch" <=> op = "b")
    BY <1>8 DEF IsRef, Form
  <2>8. Sites(r) = {InstAt(k)}
    BY <2>6, <2>7 DEF Sites
  <2>. HIDE DEF us, k, u0
  <2>9. Code(t, r, Sites(r), delayed)
    <3>1. t.text[r.at].op = op /\ t.text[r.at].expr = f /\ InstAt(r.at) \in Sites(r)
      BY <2>3, <2>7, <2>8 DEF Inst
    <3>2. CASE r.kind = "branch"
      BY <2>1, <2>2, <2>7, <3>1, <3>2 DEF Code, BranchCode
    <3>3. CASE r.kind = "jump"
      BY <1>8, <2>2, <2>7, <3>1, <3>3 DEF Code, JumpCode
    <3>. QED BY <2>7, <3>2, <3>3
  <2>10. IsList(us) /\ Ordered(us) /\ Range(us) = Range(u0) \cup Sites(r)
    BY <2>4, <2>8 DEF Recent
  <2>. QED BY <2>3, <2>6, <2>9, <2>10
<1>9. CASE op \notin {"b", "j"}
  <2>. DEFINE last == IF op = "lw" THEN "lw" ELSE "ori"
              c == Length(x.base)
              j == Len(s.text) + c
  <2>1. /\ rt = "t0" /\ e = Expr(x.off, l) /\ r.x = x /\ r.label = l /\ r.at = k
        /\ r.kind \in {"load", "value"} /\ (r.kind = "load" <=> op = "lw")
    BY <1>6, <1>9 DEF Form, IsRef
  <2>2. t = Pair(s, x.base, last, rt, e)
    <3>1. op = "lw" => t = Pair(s, x.base, "lw", rt, e)
      BY <1>5 DEF Made, IType, UnknownLoad, Pair
    <3>2. op # "lw" => t = Pair(s, "zero", "ori", rt, e) /\ x.base = "zero"
      BY <1>5, <1>9 DEF Made, IType, ProduceImmediate, Pair, Addu, Form
    <3>. QED BY <3>1, <3>2
  <2>. HIDE DEF e, last, u0
  <2>3. /\ Extends(s, t) /\ Len(t.text) = j /\ t.text[k] = Inst("lui", "at", "zero", Upper(e))
        /\ x.base # "zero" => t.text[k + 1] = Inst("addu", "at", x.base, Const(0))
        /\ t.text[j] = Inst(last, rt, "at", Lower(e))
        /\ \E us : /\ UsesBut(s, t, l, us) /\ Recent(us, j)
                   /\ Range(us) = Range(u0) \cup {InstAt(k), InstAt(j)}
    <3>1. PairMade(s, t, l, x.base, last, rt, e)
      BY <1>1, <1>2, <1>3, <2>2, PairUnknown DEF u0
    <3>. QED BY <3>1 DEF PairMade, u0
  <2>4. Formed(t) /\ Len(t.labels) = Len(s.labels) /\ Len(t.text) = Len(s.text) + c /\ c \in 1 .. 3
    BY <2>3 DEF Extends, Length
  <2>a. r.count = c
    <3>. HIDE DEF c
    <3>. QED BY <1>1, <2>4 DEF IsRef
  <2>5. Lies(t, r, top) /\ Beyond(s, r, top) /\ r.count = c /\ Final(r) = j
    <3>1. r.count \in 1 .. 3 /\ (op \in {"b", "j"} => r.count = 1)
      BY <1>9, <2>4, <2>a
    <3>. HIDE DEF c
    <3>. QED BY <1>1, <2>3, <2>4, <2>a, <3>1, MadeLies
  <2>6. Sites(r) = {InstAt(k), InstAt(j)}
    BY <2>1, <2>5 DEF Sites
  <2>7. InstAt(r.at) \in Sites(r) /\ InstAt(Final(r)) \in Sites(r)
    BY <2>1, <2>5, <2>6
  <2>8. Code(t, r, Sites(r), delayed)
    <3>1. /\ t.text[r.at] = Inst("lui", "at", "zero", Upper(e))
          /\ r.count = 3 => t.text[r.at + 1] = Inst("addu", "at", x.base, Const(0))
          /\ t.text[Final(r)] = Inst(last, "t0", "at", Lower(e))
          /\ r.count = IF r.x.base = "zero" THEN 2 ELSE 3
      <4>1. c = IF x.base = "zero" THEN 2 ELSE 3
        BY DEF Length
      <4>. HIDE DEF c, j, k
      <4>. QED BY <2>1, <2>3, <2>5, <4>1
    <3>2. e = Expr(r.x.off, r.label) /\ last = IF r.kind = "load" THEN "lw" ELSE "ori"
      BY <2>1 DEF last
    <3>. DEFINE U == Sites(r)
    <3>. HIDE DEF U, k, j, c
    <3>3. HalvesCode(t, r, U)
      <4>1. InstAt(r.at) \in U /\ InstAt(Final(r)) \in U
        BY <2>7 DEF U
      <4>2. /\ t.text[r.at].op = "lui" /\ t.text[r.at].rt = "at" /\ t.text[r.at].imm = 0
            /\ t.text[r.at].expr = Upper(Expr(r.x.off, r.label))
        BY <3>1, <3>2 DEF Inst
      <4>3. r.count = 3 => /\ t.text[r.at + 1].op = "addu" /\ t.text[r.at + 1].rt = "at"
                           /\ t.text[r.at + 1].rs = r.x.base
        BY <2>1, <3>1 DEF Inst
      <4>4. /\ t.text[Final(r)].op = (IF r.kind = "load" THEN "lw" ELSE "ori")
            /\ t.text[Final(r)].rt = "t0" /\ t.text[Final(r)].rs = "at"
            /\ t.text[Final(r)].expr = Lower(Expr(r.x.off, r.label))
        BY <3>1, <3>2 DEF Inst
      <4>. QED BY <3>1, <4>1, <4>2, <4>3, <4>4 DEF HalvesCode
    <3>. QED BY <2>1, <3>3 DEF Code, U
  <2>9. PICK us : /\ UsesBut(s, t, l, us) /\ Recent(us, j)
                  /\ Range(us) = Range(u0) \cup {InstAt(k), InstAt(j)}
    BY <2>3
  <2>10. IsList(us) /\ Ordered(us) /\ Range(us) = Range(u0) \cup Sites(r)
    BY <2>6, <2>9 DEF Recent
  <2>. QED BY <2>3, <2>5, <2>8, <2>9, <2>10
<1>. QED BY <1>8, <1>9

-----------------------------------------------------------------------------
(* Code for an address that is known *)

\* Nothing runs otherwise; of what was there, only expressions with a symbol
\* of X are changed.
Grows(s, t, X) ==
    /\ Formed(t) /\ t.data = s.data /\ t.table = s.table /\ t.local = s.local
    /\ t.labels = s.labels /\ Len(s.text) <= Len(t.text)
    /\ \A k \in 1 .. Len(s.text) :
          /\ Alike(s.text[k], t.text[k]) /\ t.text[k].expr.sym = s.text[k].expr.sym
          /\ s.text[k].expr.sym \notin X => t.text[k] = s.text[k]

LEMMA GrowsTrans ==
    ASSUME NEW s, Formed(s), NEW t, NEW u, NEW X, Grows(s, t, X), Grows(t, u, X)
    PROVE  Grows(s, u, X)
<1>1. Len(s.text) \in Nat /\ Len(t.text) \in Nat /\ Len(u.text) \in Nat
  BY TextLength DEF Grows
<1>2. \A k \in 1 .. Len(s.text) : k \in 1 .. Len(t.text)
  BY <1>1 DEF Grows
<1>3. \A k \in 1 .. Len(s.text) : Alike(s.text[k], t.text[k]) /\ Alike(t.text[k], u.text[k])
  BY <1>2 DEF Grows
<1>4. \A k \in 1 .. Len(s.text) : Alike(s.text[k], u.text[k])
  BY <1>3 DEF Alike
<1>5. \A k \in 1 .. Len(s.text) :
          /\ u.text[k].expr.sym = s.text[k].expr.sym
          /\ s.text[k].expr.sym \notin X => u.text[k] = s.text[k]
  BY <1>2 DEF Grows
<1>. QED BY <1>1, <1>4, <1>5 DEF Grows

LEMMA GrowsMore ==
    ASSUME NEW s, NEW t, NEW X, NEW Y, X \subseteq Y, Grows(s, t, X)
    PROVE  Grows(s, t, Y)
BY DEF Grows

LEMMA ExtendsGrows ==
    ASSUME NEW s, NEW t, Extends(s, t), t.labels = s.labels, NEW X
    PROVE  Grows(s, t, X)
BY DEF Extends, Grows, Alike

\* The immediate of a new instruction, and what it may compensate.
NewImm(s, i) ==
    CASE i.op = "b" -> BranchOffset(s, i, PcOf(Len(s.text) + 1))
      [] i.op = "j" -> (Eval(s, i.expr) % Region) \div 4 [] OTHER -> Low(Eval(s, i.expr))
Touched(s, op, e) == IF op = "lw" /\ SignEx(Eval(s, e)) # Low(Eval(s, e)) THEN {e.sym} ELSE {}

\* i_type_inst and j_type_inst for an address that is known.
LEMMA SingleKnown ==
    ASSUME NEW s, Formed(s), NEW op, NEW rt, NEW rs, NEW e, IsExpr(e), IsKnown(s, e)
    PROVE  LET t == Single(s, op, rt, rs, e)
               k == Len(s.text) + 1
               i == Inst(op, rt, rs, e) IN
           /\ Grows(s, t, Touched(s, op, e)) /\ Len(t.text) = k /\ t.text[k] = [i EXCEPT !.imm = NewImm(s, i)]
<1>. DEFINE i == Inst(op, rt, rs, e)
            a == [s EXCEPT !.text = Append(@, i)]
            k == Len(s.text) + 1
            t == Single(s, op, rt, rs, e)
            X == Touched(s, op, e)
<1>1. IsInst(i) /\ i.expr = e /\ i.op = op
  BY DEF IsInst, Inst, IsExpr
<1>2. t = Resolved(a, Len(a.text))
  BY DEF Single
<1>. HIDE DEF i, t
<1>3. /\ Extends(s, a) /\ a.labels = s.labels /\ Len(a.text) = k /\ a.text[k] = i
  BY <1>1, Appended
<1>. HIDE DEF a
<1>4. Formed(a) /\ Len(s.text) \in Nat /\ k \in 1 .. Len(a.text)
  BY <1>3, TextLength DEF Extends
<1>5. /\ SameText(a, t)
      /\ \A j \in 1 .. Len(a.text) :
            t.text[j] = IF j = k THEN [a.text[k] EXCEPT !.imm = ImmAt(a, k)]
                        ELSE IF j = LuiOf(a, k) /\ Carries(a, k) THEN Carried(a.text[j]) ELSE a.text[j]
  <2>1. LET y == Resolved(a, k) IN
        /\ SameText(a, y)
        /\ \A j \in 1 .. Len(a.text) :
              y.text[j] = IF j = k THEN [a.text[k] EXCEPT !.imm = ImmAt(a, k)]
                          ELSE IF j = LuiOf(a, k) /\ Carries(a, k) THEN Carried(a.text[j]) ELSE a.text[j]
    BY <1>4, ResolvedShape
  <2>2. t = Resolved(a, k)
    BY <1>2, <1>3
  <2>. HIDE DEF k
  <2>. QED BY <2>1, <2>2
<1>6. \A f : Eval(a, f) = Eval(s, f)
  BY <1>3 DEF Eval
<1>7. ImmAt(a, k) = NewImm(s, i)
  BY <1>3, <1>6 DEF ImmAt, NewImm, BranchOffset
<1>8. t.text[k] = [i EXCEPT !.imm = NewImm(s, i)]
  BY <1>3, <1>4, <1>5, <1>7
<1>9. ASSUME NEW j \in 1 .. Len(s.text)
      PROVE  /\ Alike(s.text[j], t.text[j]) /\ t.text[j].expr.sym = s.text[j].expr.sym
             /\ s.text[j].expr.sym \notin X => t.text[j] = s.text[j]
  <2>1. j \in 1 .. Len(a.text) /\ j # k /\ a.text[j] = s.text[j] /\ IsInst(s.text[j])
    BY <1>3, <1>4 DEF Extends, Formed
  <2>2. CASE j = LuiOf(a, k) /\ Carries(a, k)
    <3>1. t.text[j] = Carried(s.text[j])
      BY <1>5, <2>1, <2>2
    <3>2. Alike(s.text[j], t.text[j]) /\ t.text[j].expr.sym = s.text[j].expr.sym
      BY <2>1, <3>1 DEF Carried, Alike, IsInst
    <3>3. s.text[j].expr.sym = e.sym /\ op = "lw" /\ SignEx(Eval(s, e)) # Low(Eval(s, e))
      BY <1>1, <1>3, <1>6, <2>1, <2>2 DEF Carries, Lui
    <3>. QED BY <3>2, <3>3 DEF Touched
  <2>3. CASE ~(j = LuiOf(a, k) /\ Carries(a, k))
    <3>1. t.text[j] = s.text[j]
      BY <1>5, <2>1, <2>3
    <3>. QED BY <3>1 DEF Alike
  <2>. QED BY <2>2, <2>3
<1>10. Grows(s, t, X) /\ Len(t.text) = k
  <2>1. /\ Formed(t) /\ t.data = s.data /\ t.table = s.table /\ t.local = s.local
        /\ t.labels = s.labels /\ Len(t.text) = k
    BY <1>3, <1>5 DEF SameText, TextOnly, Extends
  <2>2. Len(s.text) <= Len(t.text)
    BY <1>4, <2>1
  <2>. QED BY <1>9, <2>1, <2>2 DEF Grows
<1>. QED BY <1>8, <1>10 DEF t, i

\* What waits, and what is solved, is so still.
LEMMA GrownSame ==
    ASSUME NEW s, NEW R, NEW top \in Int, Formed(s), Placed(s, R, top), NEW t, NEW X, Grows(s, t, X),
           NEW q \in R, Waits(s, q) => q.label \notin X
    PROVE  Lies(s, q, top) /\ Lies(t, q, top) /\ SameRun(s, t, q) /\ (Waits(s, q) => Waits(t, q))
<1>1. Lies(s, q, top) /\ Lies(t, q, top)
  <2>1. /\ Formed(t) /\ Len(t.labels) = Len(s.labels) /\ Len(s.text) <= Len(t.text)
        /\ \A w \in DOMAIN s.data : w \in DOMAIN t.data
    BY DEF Grows
  <2>. QED BY <2>1, Further
<1>2. Address(t, q) = Address(s, q) /\ UsesOf(t, q.label) = UsesOf(s, q.label) /\ t.data = s.data
  BY DEF Grows, Address, UsesOf
<1>3. ASSUME q.kind # "word", NEW k \in Span(q)
      PROVE  /\ Alike(s.text[k], t.text[k])
             /\ s.text[k].expr.sym \notin X => t.text[k] = s.text[k]
  BY <1>3, InstPlace DEF Grows
<1>4. SameRun(s, t, q)
  BY <1>2, <1>3 DEF SameRun
<1>5. ASSUME Waits(s, q) PROVE Waits(t, q)
  <2>. DEFINE U == Sites(q)
  <2>1. Code(s, q, U, delayed) /\ q.label \notin X
    BY <1>5 DEF Waits
  <2>2. q.kind \in {"load", "value", "branch", "jump", "word"}
    BY <1>1 DEF Lies
  <2>3. q.kind # "word" => q.at \in Span(q) /\ Final(q) \in Span(q) /\ (q.count = 3 => q.at + 1 \in Span(q))
    BY <1>1, SpanShape
  <2>4. Code(t, q, U, delayed)
    <3>1. CASE q.kind = "word"
      BY <1>2, <2>1, <3>1 DEF Code, WordCode
    <3>2. CASE q.kind = "branch"
      <4>1. s.text[q.at].expr.sym = q.label
        BY <2>1, <3>2 DEF Code, BranchCode
      <4>2. t.text[q.at] = s.text[q.at]
        BY <1>3, <2>1, <2>3, <3>2, <4>1
      <4>. QED BY <1>2, <2>1, <3>2, <4>2 DEF Code, BranchCode
    <3>3. CASE q.kind = "jump"
      <4>1. s.text[q.at].expr.sym = q.label
        BY <2>1, <3>3 DEF Code, JumpCode, Expr
      <4>2. t.text[q.at] = s.text[q.at]
        BY <1>3, <2>1, <2>3, <3>3, <4>1
      <4>. QED BY <1>2, <2>1, <3>3, <4>2 DEF Code, JumpCode
    <3>4. CASE q.kind \in {"load", "value"}
      <4>. HIDE DEF U
      <4>1. HalvesCode(s, q, U)
        BY <2>1, <3>4 DEF Code
      <4>2. s.text[q.at].expr.sym = q.label /\ s.text[Final(q)].expr.sym = q.label
        BY <4>1 DEF HalvesCode, Expr, Upper, Lower
      <4>3. t.text[q.at] = s.text[q.at] /\ t.text[Final(q)] = s.text[Final(q)]
        BY <1>3, <2>1, <2>3, <3>4, <4>2
      <4>4. q.count = 3 => Alike(s.text[q.at + 1], t.text[q.at + 1])
        BY <1>3, <2>3, <3>4
      <4>5. HalvesCode(t, q, U)
        BY <1>2, <4>1, <4>3, <4>4 DEF HalvesCode, Alike
      <4>. QED BY <3>4, <4>5 DEF Code
    <3>. QED BY <2>2, <3>1, <3>2, <3>3, <3>4
  <2>. QED BY <1>2, <1>5, <2>4 DEF Waits
<1>. QED BY <1>1, <1>4, <1>5

LEMMA GrownSound ==
    ASSUME NEW s, NEW P, NEW R, NEW a, NEW top \in Int, Sound(s, P, R, a, top), NEW t, NEW X, Grows(s, t, X),
           \A q \in R : Waits(s, q) => q.label \notin X,
           NEW r, Lies(t, r, top), Beyond(s, r, top), Solved(t, r)
    PROVE  Sound(t, P, R \cup {r}, a, top) /\ \A q \in R : Waits(s, q) => Waits(t, q)
<1>1. Formed(s) /\ Placed(s, R, top) /\ \A k \in 1 .. Len(s.labels) : LabelFit(s, P, R, a, k)
  BY DEF Sound
<1>2. /\ Formed(t) /\ t.labels = s.labels /\ Len(t.labels) = Len(s.labels) /\ Len(s.text) <= Len(t.text)
      /\ \A w \in DOMAIN s.data : w \in DOMAIN t.data
  BY DEF Grows
<1>3. ASSUME NEW q \in R
      PROVE  /\ Lies(t, q, top) /\ SameRun(s, t, q) /\ Apart(q, r) /\ Apart(r, q)
             /\ Waits(s, q) => Waits(t, q)
  <2>2. Apart(q, r) /\ Apart(r, q)
    <3>1. top <= top
      OBVIOUS
    <3>. QED BY <1>1, <1>2, <3>1, Further
  <2>3. Lies(t, q, top) /\ SameRun(s, t, q) /\ (Waits(s, q) => Waits(t, q))
    BY <1>1, GrownSame
  <2>. QED BY <2>2, <2>3
<1>4. ASSUME NEW k \in 1 .. Len(s.labels) PROVE UsesFit(t, R \cup {r}, k)
  <2>1. UsesFit(s, R, k) /\ t.labels[k].uses = s.labels[k].uses
    BY <1>1, <1>2 DEF LabelFit
  <2>. QED BY <1>3, <2>1, UsesFitKept
<1>5. \A k \in 1 .. Len(s.labels) :
         /\ t.labels[k].addr = s.labels[k].addr /\ t.labels[k].meant = s.labels[k].meant
         /\ t.labels[k].uses = s.labels[k].uses \/ s.labels[k].addr = 0
         /\ UsesFit(t, R \cup {r}, k)
  BY <1>2, <1>4
<1>6. Sound(t, P, R \cup {r}, a, top)
  BY <1>2, <1>3, <1>5, ReferenceMore
<1>. QED BY <1>3, <1>6

\* One instruction that has the address.
OneRight(r, i, v) ==
    /\ i.rt = "t0"
    /\ \/ i.op \in {"addiu", "lw"} /\ i.rs = r.x.base /\ i.imm = Low(v) /\ SignEx(v) = v
       \/ i.op = "ori" /\ i.rs = "zero" /\ r.x.base = "zero" /\ i.imm = v
       \/ i.op = "lui" /\ r.x.base = "zero" /\ i.imm * Radix = v

LEMMA OneSolved ==
    ASSUME NEW s, NEW r, NEW top, Lies(s, r, top), r.kind \in {"load", "value"}, r.count = 1,
           Address(s, r) \in 1 .. Size - 1, OneRight(r, s.text[r.at], Wrap(r.x.off + Address(s, r)))
    PROVE  Solved(s, r)
<1>. DEFINE a == Address(s, r)
            v == Wrap(r.x.off + a)
            i == s.text[r.at]
<1>0. /\ i.rt = "t0"
      /\ \/ i.op \in {"addiu", "lw"} /\ i.rs = r.x.base /\ i.imm = Low(v) /\ SignEx(v) = v
         \/ i.op = "ori" /\ i.rs = "zero" /\ r.x.base = "zero" /\ i.imm = v
         \/ i.op = "lui" /\ r.x.base = "zero" /\ i.imm * Radix = v
  BY DEF OneRight
<1>. DEFINE b == Registers[r.x.base]
<1>a. v = Wrap(r.x.off + a) /\ i = s.text[r.at]
  OBVIOUS
<1>. HIDE DEF v, i
<1>1. /\ r.x.off \in Int /\ r.x.base \in {"zero", "base"} /\ a \in Int /\ a # 0 /\ b \in Int
      /\ r.x.off + a \in Int /\ (r.x.base = "zero" => b = 0) /\ (r.x.base = "base" => b = BaseValue)
  BY RegistersAre, SizeShape DEF Lies
<1>2. v \in 0 .. Size - 1 /\ v \in Int
  <2>. DEFINE w == r.x.off + a
  <2>1. w \in Int
    BY <1>1
  <2>. HIDE DEF w
  <2>2. Wrap(w) \in 0 .. Size - 1
    BY <2>1, WrapIn
  <2>3. Wrap(w) \in Int
    BY <2>2, SizeShape
  <2>. QED BY <1>a, <2>2, <2>3 DEF w
<1>3. Wanted(r, a) = Wrap(b + v)
  <2>1. (a + r.x.off) + b = b + (r.x.off + a)
    BY <1>1
  <2>2. Wrap(b + Wrap(r.x.off + a)) = Wrap(b + (r.x.off + a))
    <3>. DEFINE w == r.x.off + a
    <3>1. w \in Int /\ b \in Int
      BY <1>1
    <3>. HIDE DEF w, a, b
    <3>2. Wrap(b + Wrap(w)) = Wrap(w + b) /\ w + b = b + w
      BY <3>1, WrapPlus
    <3>. QED BY <3>2 DEF w
  <2>. HIDE DEF a, b
  <2>3. Wanted(r, a) = Wrap((a + r.x.off) + b)
    BY DEF Wanted, b
  <2>4. v = Wrap(r.x.off + a)
    BY <1>a
  <2>. QED BY <2>1, <2>2, <2>3, <2>4
<1>4. Comes(s, r) = Ran(Registers, i).t0
  BY <1>a DEF Comes, Arrived
<1>5. CASE i.op \in {"addiu", "lw"}
  <2>1. i.rs = r.x.base /\ SignEx(i.imm) = v
    BY <1>0, <1>2, <1>5, LowLow
  <2>2. Ran(Registers, i) = Regs(0, Wrap(b + v))
    BY <1>0, <1>1, <1>5, <2>1, RegistersAre, RanLoad
  <2>. QED BY <1>1, <1>3, <1>4, <2>2, RegistersAre DEF Solved
<1>6. CASE i.op = "ori"
  <2>1. Ran(Registers, i) = Regs(0, 0 + v)
    BY <1>0, <1>6, RegistersAre, RanOri
  <2>2. 0 + v = v /\ b = 0 /\ b + v = v
    BY <1>0, <1>1, <1>2, <1>6
  <2>3. Wrap(v) = v
    BY <1>2, WrapSmall
  <2>. QED BY <1>1, <1>3, <1>4, <2>1, <2>2, <2>3, RegistersAre DEF Solved
<1>7. CASE i.op = "lui"
  <2>1. Ran(Registers, i) = Regs(0, v)
    BY <1>0, <1>7, RegistersAre, RanLui
  <2>2. b = 0 /\ b + v = v
    BY <1>0, <1>1, <1>2, <1>7
  <2>3. Wrap(v) = v
    BY <1>2, WrapSmall
  <2>. QED BY <1>1, <1>3, <1>4, <2>1, <2>2, <2>3, RegistersAre DEF Solved
<1>. QED BY <1>0, <1>5, <1>6, <1>7

\* Two halves, known both.
PairFields(s, t, rs, op, rt, f, g) ==
    LET k == Len(s.text) + 1
        j == Len(s.text) + Length(rs) IN
    /\ Grows(s, t, Touched(s, op, g)) /\ Len(t.text) = j
    /\ t.text[k].op = "lui" /\ t.text[k].rt = "at" /\ t.text[k].imm = Low(Eval(s, f))
    /\ rs # "zero" => t.text[k + 1].op = "addu" /\ t.text[k + 1].rt = "at" /\ t.text[k + 1].rs = rs
    /\ t.text[j].op = op /\ t.text[j].rt = rt /\ t.text[j].rs = "at" /\ t.text[j].imm = Low(Eval(s, g))

LEMMA PairKnown ==
    ASSUME NEW s, Formed(s), NEW rs, NEW op \in {"lw", "ori"}, NEW rt,
           NEW f, IsExpr(f), IsKnown(s, f), NEW g, IsExpr(g), IsKnown(s, g)
    PROVE  PairFields(s, Single(Addu(Single(s, "lui", "at", "zero", f), rs), op, rt, "at", g), rs, op, rt, f, g)
<1>. DEFINE a == Single(s, "lui", "at", "zero", f)
            b == Addu(a, rs)
            t == Single(b, op, rt, "at", g)
            k == Len(s.text) + 1
            j == Len(s.text) + Length(rs)
            X == Touched(s, op, g)
            i1 == Inst("lui", "at", "zero", f)
            i3 == Inst(op, rt, "at", g)
<1>1. /\ Len(s.text) \in Nat /\ k \in Nat /\ j \in Nat /\ j > k
      /\ (rs # "zero" => j = (k + 1) + 1) /\ (rs = "zero" => j = k + 1)
  <2>1. (rs = "zero" => Length(rs) = 2) /\ (rs # "zero" => Length(rs) = 3)
    BY DEF Length
  <2>2. Len(s.text) \in Nat
    BY TextLength
  <2>. QED BY <2>1, <2>2
<1>2. Grows(s, a, X) /\ Len(a.text) = k /\ a.text[k] = [i1 EXCEPT !.imm = NewImm(s, i1)]
  <2>1. Touched(s, "lui", f) \subseteq X
    BY DEF Touched
  <2>. QED BY <2>1, SingleKnown, GrowsMore
<1>3. Formed(a) /\ a.labels = s.labels
  BY <1>2 DEF Grows
<1>. HIDE DEF a
<1>4. /\ Grows(a, b, X) /\ b.labels = a.labels /\ Formed(b)
      /\ rs = "zero" => b = a
      /\ rs # "zero" => Len(b.text) = k + 1 /\ b.text[k + 1] = Inst("addu", "at", rs, Const(0))
  <2>1. LET y == Addu(a, rs) IN
        /\ Extends(a, y) /\ y.labels = a.labels
        /\ rs = "zero" => y = a
        /\ rs # "zero" => /\ Len(y.text) = Len(a.text) + 1
                          /\ y.text[Len(a.text) + 1] = Inst("addu", "at", rs, Const(0))
    BY <1>3, AdduShape
  <2>. HIDE DEF b
  <2>2. /\ Extends(a, b) /\ b.labels = a.labels
        /\ rs = "zero" => b = a
        /\ rs # "zero" => Len(b.text) = k + 1 /\ b.text[k + 1] = Inst("addu", "at", rs, Const(0))
    BY <1>2, <2>1 DEF b
  <2>3. Grows(a, b, X)
    BY <2>2, ExtendsGrows
  <2>. QED BY <2>2, <2>3 DEF Extends
<1>. HIDE DEF b
<1>5. (\A h : Eval(b, h) = Eval(s, h)) /\ IsKnown(b, g) /\ Len(b.text) + 1 = j
  BY <1>1, <1>2, <1>3, <1>4 DEF Eval, IsKnown
<1>6. Touched(b, op, g) = X
  BY <1>5 DEF Touched
<1>7. Grows(b, t, X) /\ Len(t.text) = j /\ t.text[j] = [i3 EXCEPT !.imm = NewImm(b, i3)]
  <2>1. LET y == Single(b, op, rt, "at", g)
            w == Len(b.text) + 1 IN
        /\ Grows(b, y, Touched(b, op, g)) /\ Len(y.text) = w /\ y.text[w] = [i3 EXCEPT !.imm = NewImm(b, i3)]
    BY <1>4, <1>5, SingleKnown
  <2>. HIDE DEF t, j, i3, X
  <2>. QED BY <1>5, <1>6, <2>1 DEF t
<1>. HIDE DEF t
<1>8. Grows(s, b, X) /\ Grows(a, t, X)
  BY <1>2, <1>3, <1>4, <1>7, GrowsTrans
<1>9. Grows(s, t, X)
  BY <1>7, <1>8, GrowsTrans
<1>10. t.text[k].op = "lui" /\ t.text[k].rt = "at" /\ t.text[k].imm = Low(Eval(s, f))
  <2>1. NewImm(s, i1) = Low(Eval(s, f))
    BY DEF NewImm, Inst
  <2>2. a.text[k].op = "lui" /\ a.text[k].rt = "at" /\ a.text[k].imm = Low(Eval(s, f))
    BY <1>2, <2>1 DEF Inst
  <2>3. k \in 1 .. Len(a.text)
    BY <1>1, <1>2
  <2>. HIDE DEF k
  <2>. QED BY <1>8, <2>2, <2>3 DEF Grows, Alike
<1>11. rs # "zero" => t.text[k + 1].op = "addu" /\ t.text[k + 1].rt = "at" /\ t.text[k + 1].rs = rs
  <2>. SUFFICES ASSUME rs # "zero" PROVE t.text[k + 1].op = "addu" /\ t.text[k + 1].rt = "at" /\ t.text[k + 1].rs = rs
    OBVIOUS
  <2>1. k + 1 \in 1 .. Len(b.text)
    BY <1>1, <1>4
  <2>2. b.text[k + 1].op = "addu" /\ b.text[k + 1].rt = "at" /\ b.text[k + 1].rs = rs
    BY <1>4 DEF Inst
  <2>. HIDE DEF k
  <2>. QED BY <1>7, <2>1, <2>2 DEF Grows, Alike
<1>12. t.text[j].op = op /\ t.text[j].rt = rt /\ t.text[j].rs = "at" /\ t.text[j].imm = Low(Eval(s, g))
  <2>1. NewImm(b, i3) = Low(Eval(s, g))
    BY <1>5 DEF NewImm, Inst
  <2>. HIDE DEF j
  <2>. QED BY <1>7, <2>1 DEF Inst
<1>. QED BY <1>7, <1>9, <1>10, <1>11, <1>12 DEF PairFields, t, a, b

\* The upper half with the carry of the lower one, in 16 bits.
LEMMA HighOf ==
    ASSUME NEW v \in 0 .. Size - 1
    PROVE  LET high == IF SignEx(v) = Low(v) THEN High(v) ELSE High(v) + 1 IN
           high \in Int /\ Low(Wrap(high)) = High(Wrap(v + Carry(v)))
<1>. DEFINE q == High(v)
            e == Low(v)
<1>1. /\ Radix \in Nat /\ Radix >= 4 /\ Size \in Nat /\ Size = Radix * Radix /\ Size >= 4 * Radix /\ v \in Int
      /\ q \in 0 .. Radix - 1 /\ q \in Int /\ e \in 0 .. Radix - 1 /\ v = (q * Radix) + e /\ Low(q) = q
  BY RadixShape, SizeShape, LowHigh, HighSmall
<1>2. Wrap(v) = v
  BY WrapSmall
<1>. HIDE DEF q, e
<1>3. q \in 0 .. Size - 1 /\ q + 1 \in 0 .. Size - 1
  BY <1>1
<1>4. Wrap(q) = q /\ Wrap(q + 1) = q + 1
  BY <1>3, WrapSmall
<1>5. CASE SignEx(v) = Low(v)
  <2>1. v + Carry(v) = v
    BY <1>1, <1>5 DEF Carry
  <2>. QED BY <1>1, <1>2, <1>4, <1>5, <2>1 DEF q
<1>6. CASE SignEx(v) # Low(v)
  <2>1. v + Carry(v) = v + Radix /\ v + Radix \in Int /\ v + Radix = ((q + 1) * Radix) + e
    BY <1>1, <1>6 DEF Carry
  <2>2. CASE q + 1 < Radix
    <3>1. v + Radix \in 0 .. Size - 1
      <4>1. (Radix - 1) - (q + 1) \in Nat
        BY <1>1, <2>2
      <4>2. ((Radix - 1) - (q + 1)) * Radix >= 0
        BY <1>1, <4>1
      <4>3. ((Radix - 1) - (q + 1)) * Radix = (Size - Radix) - ((q + 1) * Radix)
        BY <1>1
      <4>. QED BY <1>1, <2>1, <4>2, <4>3
    <3>2. Wrap(v + Radix) = v + Radix
      BY <3>1, WrapSmall
    <3>3. High(v + Radix) = q + 1
      <4>. DEFINE x == v + Radix
                  p == q + 1
      <4>1. x \in Int /\ p \in Int /\ e \in 0 .. Radix - 1 /\ x = (p * Radix) + e
        BY <1>1, <2>1
      <4>. HIDE DEF x, p
      <4>2. High(x) = p
        BY <4>1, LowOf
      <4>. QED BY <4>2 DEF x, p
    <3>4. Low(q + 1) = q + 1
      <4>1. q + 1 \in 0 .. Radix - 1
        BY <1>1, <2>2
      <4>. QED BY <4>1, LowSmall
    <3>. QED BY <1>1, <1>4, <1>6, <2>1, <3>2, <3>3, <3>4 DEF q
  <2>3. CASE ~(q + 1 < Radix)
    <3>1. q + 1 = Radix
      BY <1>1, <2>3
    <3>2. v + Radix = (1 * Size) + e /\ e \in 0 .. Size - 1
      BY <1>1, <2>1, <3>1
    <3>3. Wrap(v + Radix) = e
      BY <2>1, <3>2, WrapOf
    <3>4. High(e) = 0
      BY <1>1, LowSmall
    <3>5. Low(q + 1) = 0
      <4>. DEFINE p == q + 1
      <4>1. p \in Int /\ 1 \in Int /\ p = (1 * Radix) + 0 /\ 0 \in 0 .. Radix - 1
        BY <1>1, <3>1
      <4>. HIDE DEF p
      <4>2. Low(p) = 0
        BY <4>1, LowOf
      <4>. QED BY <4>2 DEF p
    <3>. QED BY <1>1, <1>4, <1>6, <2>1, <3>3, <3>4, <3>5 DEF q
  <2>. QED BY <2>2, <2>3
<1>. QED BY <1>5, <1>6

\* What is made for an address that is known.
Answered(s, t, P, R, r, a, top) ==
    /\ Sound(t, P, R \cup {r}, a, top)
    /\ \A q \in R : Waits(s, q) => Waits(t, q)
    /\ t.table = s.table /\ t.local = s.local /\ Len(t.labels) = Len(s.labels)
Answers(s, t, r, top) ==
    \E X : /\ Grows(s, t, X) /\ X \subseteq {None, r.label} /\ (r.label \in X => s.labels[r.label].uses = <<>>)
           /\ Lies(t, r, top) /\ Beyond(s, r, top) /\ Solved(t, r)

LEMMA AnswersSound ==
    ASSUME NEW s, NEW P, NEW R, NEW a, NEW top \in Int, Sound(s, P, R, a, top), NEW t, NEW r,
           r.label \in 1 .. Len(s.labels), Answers(s, t, r, top)
    PROVE  Answered(s, t, P, R, r, a, top)
<1>1. PICK X : /\ Grows(s, t, X) /\ X \subseteq {None, r.label}
               /\ r.label \in X => s.labels[r.label].uses = <<>>
               /\ Lies(t, r, top) /\ Beyond(s, r, top) /\ Solved(t, r)
  BY DEF Answers
<1>2. ASSUME NEW q \in R, Waits(s, q) PROVE q.label \notin X
  <2>1. q.label \in 1 .. Len(s.labels) /\ Len(s.labels) \in Nat
    BY TextLength DEF Sound, Placed, Lies
  <2>2. q.label # None
    BY <2>1 DEF None
  <2>3. CASE q.label = r.label
    <3>1. SUFFICES ASSUME r.label \in X PROVE FALSE
      BY <2>3
    <3>2. UsesOf(s, q.label) = {}
      BY <1>1, <2>3, <3>1 DEF UsesOf, Range
    <3>3. Sites(q) # {}
      BY DEF Sites
    <3>. QED BY <1>2, <3>2, <3>3 DEF Waits
  <2>. QED BY <1>1, <2>2, <2>3
<1>3. Sound(t, P, R \cup {r}, a, top) /\ \A q \in R : Waits(s, q) => Waits(t, q)
  BY <1>1, <1>2, GrownSound
<1>. QED BY <1>1, <1>3 DEF Answered, Grows

\* The expression of a reference to a label with an address.
Evaluates(s, e, l, v) ==
    /\ v \in 0 .. Size - 1 /\ v \in Int
    /\ IsExpr(e) /\ IsKnown(s, e) /\ Eval(s, e) = v /\ e.sym = l
    /\ IsExpr(Upper(e)) /\ IsKnown(s, Upper(e)) /\ Eval(s, Upper(e)) = High(v) /\ Upper(e).sym = l
    /\ IsExpr(Lower(e)) /\ IsKnown(s, Lower(e)) /\ Eval(s, Lower(e)) = Low(v) /\ Lower(e).sym = l

LEMMA KnownExpr ==
    ASSUME NEW s, Formed(s), NEW l \in 1 .. Len(s.labels), s.labels[l].addr \in 1 .. Size - 1, NEW off \in Int
    PROVE  Evaluates(s, Expr(off, l), l, Wrap(off + s.labels[l].addr))
<1>. DEFINE e == Expr(off, l)
<1>1. l \in Nat \ {0} /\ s.labels[l].addr \in Nat /\ s.labels[l].addr # 0 /\ off + s.labels[l].addr \in Int
  BY TextLength, SizeShape
<1>2. Wrap(off + s.labels[l].addr) \in 0 .. Size - 1 /\ Wrap(off + s.labels[l].addr) \in Int
  <2>. DEFINE y == off + s.labels[l].addr
  <2>1. y \in Int
    BY <1>1
  <2>. HIDE DEF y
  <2>2. Wrap(y) \in 0 .. Size - 1
    BY <2>1, WrapIn
  <2>3. Wrap(y) \in Int
    BY <2>2, SizeShape
  <2>. QED BY <2>2, <2>3 DEF y
<1>3. LET v == Wrap(off + s.labels[l].addr) IN
      /\ Eval(s, Expr(off, l)) = v
      /\ Eval(s, Upper(Expr(off, l))) = High(v) /\ Eval(s, Lower(Expr(off, l))) = Low(v)
  BY <1>1, EvalOf
<1>4. IsExpr(e) /\ e.sym = l /\ IsExpr(Upper(e)) /\ Upper(e).sym = l /\ IsExpr(Lower(e)) /\ Lower(e).sym = l
  BY DEF Expr, IsExpr, Upper, Lower
<1>5. \A f : f.sym = l => IsKnown(s, f)
  BY <1>1 DEF IsKnown
<1>. QED BY <1>2, <1>3, <1>4, <1>5 DEF Evaluates

\* One instruction.
OneMade(s, t, r, o, rt, rs, f, top) ==
    LET i == Inst(o, rt, rs, f) IN
    /\ Grows(s, t, Touched(s, o, f)) /\ Lies(t, r, top) /\ Beyond(s, r, top)
    /\ r.count = 1 /\ r.at = Len(s.text) + 1 /\ Address(t, r) = Address(s, r)
    /\ t.text[r.at] = [i EXCEPT !.imm = NewImm(s, i)]

LEMMA SingleMade ==
    ASSUME NEW s, Formed(s), NEW kind, NEW op, NEW rt, NEW x, Form(kind, op, rt, x), NEW l \in 1 .. Len(s.labels),
           NEW o, NEW rs, NEW f, IsExpr(f), IsKnown(s, f), NEW t, t = Single(s, o, rt, rs, f),
           NEW r, IsRef(s, t, r, kind, l, x), NEW top
    PROVE  OneMade(s, t, r, o, rt, rs, f, top)
<1>1. LET y == Single(s, o, rt, rs, f)
          k == Len(s.text) + 1
          i == Inst(o, rt, rs, f) IN
      /\ Grows(s, y, Touched(s, o, f)) /\ Len(y.text) = k /\ y.text[k] = [i EXCEPT !.imm = NewImm(s, i)]
  BY SingleKnown
<1>2. /\ Grows(s, t, Touched(s, o, f)) /\ Len(t.text) = Len(s.text) + 1
      /\ t.text[Len(s.text) + 1] = [Inst(o, rt, rs, f) EXCEPT !.imm = NewImm(s, Inst(o, rt, rs, f))]
  BY <1>1
<1>3. Formed(t) /\ t.labels = s.labels /\ Len(t.labels) = Len(s.labels)
  BY <1>2 DEF Grows
<1>4. r.at = Len(s.text) + 1 /\ r.count = 1
  <2>1. Len(s.text) \in Nat
    BY TextLength
  <2>. QED BY <1>2, <2>1 DEF IsRef
<1>5. Lies(t, r, top) /\ Beyond(s, r, top)
  BY <1>3, <1>4, MadeLies
<1>. QED BY <1>2, <1>3, <1>4, <1>5 DEF OneMade, Address

\* Two halves.
LEMMA HalvesMade ==
    ASSUME NEW s, Formed(s), NEW kind \in {"load", "value"}, NEW op, NEW x, Form(kind, op, "t0", x),
           NEW l \in 1 .. Len(s.labels), s.labels[l].addr \in 1 .. Size - 1,
           NEW v, v = Wrap(x.off + s.labels[l].addr),
           NEW f, IsExpr(f), IsKnown(s, f),
           Low(Eval(s, f)) = IF kind = "load" THEN High(Wrap(v + Carry(v))) ELSE High(v),
           NEW g, IsExpr(g), IsKnown(s, g), Low(Eval(s, g)) = Low(v),
           NEW last, last = IF kind = "load" THEN "lw" ELSE "ori",
           NEW t, t = Single(Addu(Single(s, "lui", "at", "zero", f), x.base), last, "t0", "at", g),
           NEW r, IsRef(s, t, r, kind, l, x), NEW top
    PROVE  /\ Grows(s, t, Touched(s, last, g)) /\ Lies(t, r, top) /\ Beyond(s, r, top)
           /\ Solved(t, r)
<1>. DEFINE rs == x.base
            k == Len(s.text) + 1
            j == Len(s.text) + Length(rs)
<1>1. last \in {"lw", "ori"}
  OBVIOUS
<1>2. PairFields(s, t, rs, last, "t0", f, g)
  <2>1. PairFields(s, Single(Addu(Single(s, "lui", "at", "zero", f), rs), last, "t0", "at", g), rs, last, "t0", f, g)
    BY <1>1, PairKnown
  <2>. QED BY <2>1
<1>3. /\ Grows(s, t, Touched(s, last, g)) /\ Len(t.text) = j
      /\ t.text[k].op = "lui" /\ t.text[k].rt = "at" /\ t.text[k].imm = Low(Eval(s, f))
      /\ rs # "zero" => t.text[k + 1].op = "addu" /\ t.text[k + 1].rt = "at" /\ t.text[k + 1].rs = rs
      /\ t.text[j].op = last /\ t.text[j].rt = "t0" /\ t.text[j].rs = "at" /\ t.text[j].imm = Low(Eval(s, g))
  BY <1>2 DEF PairFields
<1>4. Formed(t) /\ t.labels = s.labels /\ Len(t.labels) = Len(s.labels)
  BY <1>3 DEF Grows
<1>5. Length(rs) \in 1 .. 3 /\ Length(rs) = IF rs = "zero" THEN 2 ELSE 3
  BY DEF Length
<1>6. r.at = k /\ r.count = Length(rs) /\ r.label = l /\ r.kind = kind /\ r.x = x
  <2>1. ASSUME NEW y \in Nat, NEW z \in 1 .. 3 PROVE (y + z) - y = z
    OBVIOUS
  <2>2. r.count = (Len(s.text) + Length(rs)) - Len(s.text)
    BY <1>3 DEF IsRef
  <2>3. Len(s.text) \in Nat
    BY TextLength
  <2>. QED BY <1>5, <2>1, <2>2, <2>3 DEF IsRef
<1>7. op \notin {"b", "j"}
  BY DEF Form
<1>8. Lies(t, r, top) /\ Beyond(s, r, top) /\ Final(r) = j
  <2>1. r.count \in 1 .. 3 /\ (op \in {"b", "j"} => r.count = 1)
    BY <1>5, <1>6, <1>7
  <2>. HIDE DEF j, k
  <2>. QED BY <1>3, <1>4, <2>1, MadeLies
<1>9. Address(t, r) = s.labels[l].addr /\ v = Wrap(r.x.off + Address(t, r))
  BY <1>4, <1>6 DEF Address
<1>10. HalvesRight(t, r)
  <2>. HIDE DEF j, k
  <2>1. r.count = IF r.x.base = "zero" THEN 2 ELSE 3
    BY <1>5, <1>6
  <2>2. /\ t.text[r.at].op = "lui" /\ t.text[r.at].rt = "at"
        /\ t.text[r.at].imm = IF r.kind = "load" THEN High(Wrap(v + Carry(v))) ELSE High(v)
    BY <1>3, <1>6
  <2>3. r.count = 3 => /\ t.text[r.at + 1].op = "addu" /\ t.text[r.at + 1].rt = "at"
                       /\ t.text[r.at + 1].rs = r.x.base
    BY <1>3, <1>5, <1>6
  <2>4. /\ t.text[Final(r)].op = (IF r.kind = "load" THEN "lw" ELSE "ori") /\ t.text[Final(r)].rt = "t0"
        /\ t.text[Final(r)].rs = "at" /\ t.text[Final(r)].imm = Low(v)
    BY <1>3, <1>6, <1>8
  <2>. HIDE DEF rs
  <2>. QED BY <1>9, <2>1, <2>2, <2>3, <2>4 DEF HalvesRight
<1>11. Solved(t, r)
  <2>1. CASE kind = "load"
    BY <1>6, <1>8, <1>9, <1>10, <2>1, LoadSolved
  <2>2. CASE kind = "value"
    BY <1>6, <1>8, <1>9, <1>10, <2>2, ValueSolved
  <2>. QED BY <2>1, <2>2
<1>. QED BY <1>3, <1>8, <1>11

\* The two halves of a known value.
LEMMA ConstHalves ==
    ASSUME NEW s, NEW v \in 0 .. Size - 1, NEW high,
           high = IF SignEx(v) = Low(v) THEN High(v) ELSE High(v) + 1,
           NEW f, f = Const(high), NEW g, g = Lower(Const(Low(v)))
    PROVE  /\ IsExpr(f) /\ IsKnown(s, f) /\ Low(Eval(s, f)) = High(Wrap(v + Carry(v)))
           /\ IsExpr(g) /\ IsKnown(s, g) /\ Low(Eval(s, g)) = Low(v) /\ g.sym = None
<1>1. high \in Int /\ Low(Wrap(high)) = High(Wrap(v + Carry(v)))
  BY HighOf
<1>2. v \in Int
  BY SizeShape
<1>3. Low(v) \in 0 .. Radix - 1 /\ Low(v) \in Int /\ Low(Low(v)) = Low(v)
  BY <1>2, LowHigh, LowLow
<1>4. Low(v) \in 0 .. Size - 1
  BY <1>3, RadixShape
<1>5. Wrap(Low(v)) = Low(v)
  BY <1>4, WrapSmall
<1>6. Low(v) + 0 = Low(v) /\ high + 0 = high
  BY <1>1, <1>3
<1>7. f.sym = None /\ f.off = high /\ f.bits = "all" /\ IsExpr(f)
  BY DEF Const, Expr, IsExpr
<1>8. g.sym = None /\ g.off = Low(v) /\ g.bits = "lower" /\ IsExpr(g)
  BY DEF Const, Expr, Lower, IsExpr
<1>9. Eval(s, f) = Wrap(high)
  BY <1>6, <1>7 DEF Eval
<1>10. Eval(s, g) = Low(Wrap(Low(v)))
  BY <1>6, <1>8 DEF Eval
<1>. QED BY <1>1, <1>3, <1>5, <1>7, <1>8, <1>9, <1>10 DEF IsKnown

\* The code of each kind, for a label that has an address.
LEMMA JumpKnown ==
    ASSUME NEW s, Formed(s), NEW rt, NEW x, Form("jump", "j", rt, x), NEW l \in 1 .. Len(s.labels),
           s.labels[l].addr \in 1 .. Size - 1, NEW t, t = Single(s, "j", rt, "zero", Expr(x.off, l)),
           NEW r, IsRef(s, t, r, "jump", l, x), NEW top
    PROVE  Answers(s, t, r, top)
<1>. DEFINE e == Expr(x.off, l)
            i == Inst("j", rt, "zero", e)
<1>1. x.off = 0
  BY DEF Form
<1>2. IsExpr(e) /\ IsKnown(s, e) /\ Eval(s, e) = Wrap(x.off + s.labels[l].addr)
  <2>1. x.off \in Int
    BY <1>1
  <2>2. Evaluates(s, Expr(x.off, l), l, Wrap(x.off + s.labels[l].addr))
    BY <2>1, KnownExpr
  <2>. QED BY <2>2 DEF Evaluates
<1>3. OneMade(s, t, r, "j", rt, "zero", e, top)
  BY <1>2, SingleMade
<1>. HIDE DEF e
<1>4. /\ Grows(s, t, Touched(s, "j", e)) /\ Lies(t, r, top) /\ Beyond(s, r, top)
      /\ Address(t, r) = Address(s, r) /\ t.text[r.at] = [i EXCEPT !.imm = NewImm(s, i)]
  BY <1>3 DEF OneMade
<1>5. r.label = l /\ r.kind = "jump" /\ Address(t, r) = s.labels[l].addr
  BY <1>4 DEF IsRef, Address
<1>6. NewImm(s, i) = (Wrap(s.labels[l].addr) % Region) \div 4
  <2>1. 0 + s.labels[l].addr = s.labels[l].addr
    BY SizeShape
  <2>2. Eval(s, i.expr) = Wrap(s.labels[l].addr)
    BY <1>1, <1>2, <2>1 DEF Inst
  <2>. QED BY <2>2 DEF NewImm, Inst
<1>7. t.text[r.at].imm = (Wrap(Address(t, r)) % Region) \div 4
  BY <1>4, <1>5, <1>6 DEF Inst
<1>8. Solved(t, r)
  BY <1>4, <1>5, <1>7, JumpSolved
<1>9. Touched(s, "j", e) = {}
  BY DEF Touched
<1>. QED BY <1>4, <1>8, <1>9 DEF Answers

LEMMA BranchKnown ==
    ASSUME NEW s, Formed(s), delayed \in BOOLEAN, NEW rt, NEW x, Form("branch", "b", rt, x),
           NEW l \in 1 .. Len(s.labels), s.labels[l].addr \in 1 .. Size - 1, NEW f, IsExpr(f), f.sym = l,
           f.bits \in {"all", "lower"}, NEW t, t = Single(s, "b", rt, "zero", f),
           NEW r, IsRef(s, t, r, "branch", l, x), NEW top
    PROVE  Answers(s, t, r, top)
<1>. DEFINE i == Inst("b", rt, "zero", f)
            k == Len(s.text) + 1
<1>1. l \in Nat \ {0} /\ s.labels[l].addr \in Nat /\ s.labels[l].addr # 0 /\ Len(s.text) \in Nat
  BY TextLength, SizeShape
<1>2. IsKnown(s, f)
  BY <1>1 DEF IsKnown
<1>3. OneMade(s, t, r, "b", rt, "zero", f, top)
  BY <1>2, SingleMade
<1>4. /\ Grows(s, t, Touched(s, "b", f)) /\ Lies(t, r, top) /\ Beyond(s, r, top) /\ r.at = k
      /\ Address(t, r) = Address(s, r) /\ t.text[r.at] = [i EXCEPT !.imm = NewImm(s, i)]
  BY <1>3 DEF OneMade
<1>5. r.label = l /\ r.kind = "branch" /\ Address(t, r) = s.labels[l].addr
  BY <1>4 DEF IsRef, Address
<1>6. PcOf(k) \in Int
  <2>1. TextStart \in Nat
    BY AssemblerAssumption
  <2>. QED BY <1>1, <2>1 DEF PcOf
<1>7. i.expr = f /\ i.expr = [off |-> i.expr.off, sym |-> l, bits |-> i.expr.bits] /\ i.op = "b"
      /\ i.expr.bits \in {"all", "lower"}
  BY DEF Inst, IsExpr
<1>. HIDE DEF i, k
<1>8. BranchOffset(s, i, PcOf(k)) = Branched(Wrap(s.labels[l].addr - PcOf(k)), delayed)
  <2>. DEFINE p == PcOf(k)
  <2>1. p \in Int /\ s.labels[l].addr \in Nat /\ l \in Nat \ {0} /\ i.expr.sym = l
        /\ i.expr = [off |-> i.expr.off, sym |-> i.expr.sym, bits |-> i.expr.bits] /\ i.expr.bits \in {"all", "lower"}
    BY <1>1, <1>6, <1>7
  <2>. HIDE DEF p
  <2>2. BranchOffset(s, i, p) = Branched(Wrap(s.labels[l].addr - p), delayed)
    BY <2>1, BranchImm
  <2>. QED BY <2>2 DEF p
<1>9. NewImm(s, i) = Branched(Wrap(s.labels[l].addr - PcOf(k)), delayed)
  BY <1>7, <1>8 DEF NewImm, k
<1>10. t.text[r.at].imm = Branched(Wrap(Address(t, r) - PcOf(r.at)), delayed)
  BY <1>4, <1>5, <1>9 DEF i, Inst
<1>11. Solved(t, r)
  BY <1>4, <1>5, <1>10, BranchSolved
<1>12. Touched(s, "b", f) = {}
  BY DEF Touched
<1>. QED BY <1>4, <1>11, <1>12 DEF Answers

LEMMA ValueKnown ==
    ASSUME NEW s, Formed(s), NEW op, NEW x, Form("value", op, "t0", x), NEW l \in 1 .. Len(s.labels),
           s.labels[l].addr \in 1 .. Size - 1, NEW t, t = IType(s, op, "t0", x.base, Expr(x.off, l)),
           NEW r, IsRef(s, t, r, "value", l, x), NEW top
    PROVE  Answers(s, t, r, top)
<1>. DEFINE e == Expr(x.off, l)
            v == Wrap(x.off + s.labels[l].addr)
<1>1. op \in {"ori", "addiu"} /\ x.base = "zero" /\ x.off \in Int
  BY DEF Form
<1>2. /\ v \in 0 .. Size - 1 /\ v \in Int
      /\ IsExpr(e) /\ IsKnown(s, e) /\ Eval(s, e) = v /\ e.sym = l
      /\ IsExpr(Upper(e)) /\ IsKnown(s, Upper(e)) /\ Eval(s, Upper(e)) = High(v) /\ Upper(e).sym = l
      /\ IsExpr(Lower(e)) /\ IsKnown(s, Lower(e)) /\ Eval(s, Lower(e)) = Low(v) /\ Lower(e).sym = l
  <2>1. Evaluates(s, Expr(x.off, l), l, Wrap(x.off + s.labels[l].addr))
    BY <1>1, KnownExpr
  <2>. QED BY <2>1 DEF Evaluates
<1>3. t = IType(s, op, "t0", "zero", e)
  BY <1>1
<1>4. /\ r.label = l /\ r.x = x /\ r.kind = "value" /\ Address(s, r) = s.labels[l].addr
      /\ v = Wrap(r.x.off + Address(s, r))
  BY DEF IsRef, Address
<1>5. High(v) \in 0 .. Radix - 1 /\ Low(High(v)) = High(v) /\ Low(v) \in 0 .. Radix - 1 /\ Low(Low(v)) = Low(v)
      /\ High(v) \in Int /\ v = (High(v) * Radix) + Low(v)
  BY <1>2, HighSmall, LowHigh, LowLow
<1>6. \A o, g : o # "lw" => Touched(s, o, g) = {}
  BY DEF Touched
<1>. HIDE DEF e, v
<1>7. ASSUME NEW o, NEW rs, NEW f, IsExpr(f), IsKnown(s, f), t = Single(s, o, "t0", rs, f), o # "lw",
             \/ o = "addiu" /\ rs = "zero" /\ Low(Eval(s, f)) = Low(v) /\ SignEx(v) = v
             \/ o = "ori" /\ rs = "zero" /\ Low(Eval(s, f)) = v
             \/ o = "lui" /\ Low(Eval(s, f)) * Radix = v
      PROVE  Answers(s, t, r, top)
  <2>. DEFINE i == Inst(o, "t0", rs, f)
  <2>1. OneMade(s, t, r, o, "t0", rs, f, top)
    BY <1>7, SingleMade
  <2>2. /\ Grows(s, t, {}) /\ Lies(t, r, top) /\ Beyond(s, r, top) /\ r.count = 1
        /\ Address(t, r) = Address(s, r) /\ t.text[r.at] = [i EXCEPT !.imm = NewImm(s, i)]
    BY <1>6, <1>7, <2>1 DEF OneMade
  <2>3. /\ t.text[r.at].op = o /\ t.text[r.at].rt = "t0" /\ t.text[r.at].rs = rs
        /\ t.text[r.at].imm = Low(Eval(s, f))
    <3>1. NewImm(s, i) = Low(Eval(s, f))
      BY <1>7 DEF NewImm, Inst
    <3>. QED BY <2>2, <3>1 DEF Inst
  <2>. HIDE DEF i
  <2>4. v = Wrap(r.x.off + Address(t, r)) /\ Address(t, r) \in 1 .. Size - 1 /\ r.x.base = "zero"
    BY <1>1, <1>4, <2>2
  <2>5. Solved(t, r)
    <3>1. OneRight(r, t.text[r.at], v)
      BY <1>7, <2>3, <2>4 DEF OneRight
    <3>. QED BY <1>4, <2>2, <2>4, <3>1, OneSolved
  <2>. QED BY <2>2, <2>5 DEF Answers
<1>8. CASE Fits(op, v)
  <2>1. t = Single(s, op, "t0", "zero", e)
    BY <1>2, <1>3, <1>8 DEF IType
  <2>2. CASE op = "addiu"
    <3>1. SignEx(v) = v
      BY <1>8, <2>2 DEF Fits
    <3>. QED BY <1>2, <1>7, <2>1, <2>2, <3>1
  <2>3. CASE op = "ori"
    <3>1. v \in 0 .. Radix - 1
      BY <1>2, <1>8, <2>3, RadixShape DEF Fits
    <3>2. Low(v) = v
      BY <3>1, LowSmall
    <3>. QED BY <1>2, <1>7, <2>1, <2>3, <3>2
  <2>. QED BY <1>1, <2>2, <2>3
<1>9. CASE ~Fits(op, v)
  <2>1. t = ProduceImmediate(s, "t0", e)
    BY <1>1, <1>2, <1>3, <1>9 DEF IType
  <2>2. CASE Low(v) = 0
    <3>1. t = Single(s, "lui", "t0", "zero", Upper(e))
      BY <1>2, <2>1, <2>2 DEF ProduceImmediate
    <3>2. Low(Eval(s, Upper(e))) * Radix = v
      BY <1>2, <1>5, <2>2, RadixShape
    <3>. QED BY <1>2, <1>7, <3>1, <3>2
  <2>3. CASE Low(v) # 0 /\ High(v) = 0
    <3>1. t = Single(s, "ori", "t0", "zero", Lower(e))
      BY <1>2, <2>1, <2>3 DEF ProduceImmediate
    <3>2. Low(Eval(s, Lower(e))) = v
      BY <1>2, <1>5, <2>3, RadixShape
    <3>. QED BY <1>2, <1>7, <3>1, <3>2
  <2>4. CASE Low(v) # 0 /\ High(v) # 0
    <3>1. t = Single(Addu(Single(s, "lui", "at", "zero", Upper(e)), x.base), "ori", "t0", "at", Lower(e))
      BY <1>1, <1>2, <2>1, <2>4 DEF ProduceImmediate, Addu
    <3>2. /\ IsExpr(Upper(e)) /\ IsKnown(s, Upper(e)) /\ Low(Eval(s, Upper(e))) = High(v)
          /\ IsExpr(Lower(e)) /\ IsKnown(s, Lower(e)) /\ Low(Eval(s, Lower(e))) = Low(v)
      BY <1>2, <1>5
    <3>. DEFINE f == Upper(e)
                g == Lower(e)
                kind == "value"
                last == "ori"
    <3>3. /\ IsExpr(f) /\ IsKnown(s, f) /\ IsExpr(g) /\ IsKnown(s, g) /\ Low(Eval(s, g)) = Low(v)
          /\ Low(Eval(s, f)) = (IF kind = "load" THEN High(Wrap(v + Carry(v))) ELSE High(v))
          /\ kind \in {"load", "value"} /\ last = (IF kind = "load" THEN "lw" ELSE "ori")
          /\ t = Single(Addu(Single(s, "lui", "at", "zero", f), x.base), last, "t0", "at", g)
          /\ Form(kind, op, "t0", x) /\ IsRef(s, t, r, kind, l, x) /\ v = Wrap(x.off + s.labels[l].addr)
          /\ Touched(s, last, g) = {}
      BY <1>6, <3>1, <3>2 DEF v
    <3>. HIDE DEF f, g, kind, last
    <3>4. /\ Grows(s, t, Touched(s, last, g)) /\ Lies(t, r, top) /\ Beyond(s, r, top) /\ Solved(t, r)
      BY <3>3, HalvesMade
    <3>. QED BY <3>3, <3>4 DEF Answers
  <2>. QED BY <2>2, <2>3, <2>4
<1>. QED BY <1>8, <1>9

LEMMA LoadKnown ==
    ASSUME NEW s, Formed(s), NEW x, Form("load", "lw", "t0", x), NEW l \in 1 .. Len(s.labels),
           s.labels[l].addr \in 1 .. Size - 1, NEW t, t = IType(s, "lw", "t0", x.base, Expr(x.off, l)),
           Wrap(x.off + s.labels[l].addr) < Size - (Radix \div 2) \/ s.labels[l].uses = <<>>,
           NEW r, IsRef(s, t, r, "load", l, x), NEW top
    PROVE  Answers(s, t, r, top)
<1>. DEFINE e == Expr(x.off, l)
            v == Wrap(x.off + s.labels[l].addr)
<1>1. x.off \in Int
  BY DEF Form
<1>2. /\ v \in 0 .. Size - 1 /\ v \in Int /\ IsExpr(e) /\ IsKnown(s, e) /\ Eval(s, e) = v /\ e.sym = l
  <2>1. Evaluates(s, Expr(x.off, l), l, Wrap(x.off + s.labels[l].addr))
    BY <1>1, KnownExpr
  <2>. QED BY <2>1 DEF Evaluates
<1>3. /\ r.label = l /\ r.x = x /\ r.kind = "load" /\ Address(s, r) = s.labels[l].addr
      /\ v = Wrap(r.x.off + Address(s, r))
  BY DEF IsRef, Address
<1>4. t = IType(s, "lw", "t0", x.base, e) /\ v = Wrap(x.off + s.labels[l].addr)
  OBVIOUS
<1>5. v < Size - (Radix \div 2) \/ s.labels[l].uses = <<>>
  OBVIOUS
<1>. HIDE DEF e, v
<1>6. CASE SignEx(v) = v
  <2>. DEFINE i == Inst("lw", "t0", x.base, e)
  <2>1. t = Single(s, "lw", "t0", x.base, e)
    BY <1>2, <1>4, <1>6 DEF IType, Fits
  <2>2. OneMade(s, t, r, "lw", "t0", x.base, e, top)
    BY <1>2, <2>1, SingleMade
  <2>3. /\ Grows(s, t, Touched(s, "lw", e)) /\ Lies(t, r, top) /\ Beyond(s, r, top) /\ r.count = 1
        /\ Address(t, r) = Address(s, r) /\ t.text[r.at] = [i EXCEPT !.imm = NewImm(s, i)]
    BY <2>2 DEF OneMade
  <2>4. /\ t.text[r.at].op = "lw" /\ t.text[r.at].rt = "t0" /\ t.text[r.at].rs = x.base
        /\ t.text[r.at].imm = Low(v)
    <3>1. NewImm(s, i) = Low(v)
      BY <1>2 DEF NewImm, Inst
    <3>. QED BY <2>3, <3>1 DEF Inst
  <2>. HIDE DEF i
  <2>5. v = Wrap(r.x.off + Address(t, r)) /\ Address(t, r) \in 1 .. Size - 1 /\ r.x.base = x.base
    BY <1>3, <2>3
  <2>6. Solved(t, r)
    <3>1. OneRight(r, t.text[r.at], v)
      BY <1>6, <2>4, <2>5 DEF OneRight
    <3>. QED BY <1>3, <2>3, <2>5, <3>1, OneSolved
  <2>7. Touched(s, "lw", e) \subseteq {l}
    BY <1>2 DEF Touched
  <2>8. l \in Touched(s, "lw", e) => s.labels[l].uses = <<>>
    <3>1. SUFFICES ASSUME SignEx(v) # Low(v) PROVE ~(v < Size - (Radix \div 2))
      BY <1>2, <1>5 DEF Touched
    <3>2. Radix \in Nat /\ Radix >= 4 /\ Radix % 4 = 0 /\ Size \in Nat /\ Size >= 4 * Radix /\ Low(v) \in 0 .. Radix - 1
      BY <1>2, RadixShape, LowHigh, AssemblerAssumption
    <3>3. 2 * Low(v) >= Radix /\ v = (Size - Radix) + Low(v)
      <4>1. /\ 2 * Low(v) < Radix => SignEx(v) = Low(v)
            /\ 2 * Low(v) >= Radix => SignEx(v) = (Size - Radix) + Low(v)
        BY <1>2, SignExShape
      <4>. QED BY <1>6, <3>1, <3>2, <4>1
    <3>. DEFINE h == Radix \div 2
    <3>4. 2 * h = Radix /\ h \in Int
      <4>. DEFINE g == Radix \div 4
      <4>1. g \in Nat /\ Radix = 4 * g
        BY <3>2
      <4>. QED BY <4>1
    <3>. HIDE DEF h
    <3>5. ~(v < Size - h)
      BY <1>2, <3>2, <3>3, <3>4
    <3>. QED BY <3>5 DEF h
  <2>. QED BY <1>3, <2>3, <2>6, <2>7, <2>8 DEF Answers
<1>7. CASE SignEx(v) # v
  <2>. DEFINE high == IF SignEx(v) = Low(v) THEN High(v) ELSE High(v) + 1
              f == Const(high)
              g == Lower(Const(Low(v)))
              kind == "load"
              last == "lw"
  <2>1. t = Single(Addu(Single(s, "lui", "at", "zero", f), x.base), last, "t0", "at", g)
    BY <1>2, <1>4, <1>7 DEF IType, Fits, KnownLoad
  <2>2. /\ IsExpr(f) /\ IsKnown(s, f) /\ Low(Eval(s, f)) = High(Wrap(v + Carry(v)))
        /\ IsExpr(g) /\ IsKnown(s, g) /\ Low(Eval(s, g)) = Low(v) /\ g.sym = None
    <3>1. high = (IF SignEx(v) = Low(v) THEN High(v) ELSE High(v) + 1) /\ f = Const(high) /\ g = Lower(Const(Low(v)))
      OBVIOUS
    <3>. HIDE DEF high, f, g
    <3>. QED BY <1>2, <3>1, ConstHalves
  <2>3. /\ Low(Eval(s, f)) = (IF kind = "load" THEN High(Wrap(v + Carry(v))) ELSE High(v))
        /\ kind \in {"load", "value"} /\ last = (IF kind = "load" THEN "lw" ELSE "ori")
        /\ Form(kind, "lw", "t0", x) /\ IsRef(s, t, r, kind, l, x)
    BY <2>2
  <2>4. Touched(s, last, g) \subseteq {None}
    BY <2>2 DEF Touched
  <2>. HIDE DEF high, f, g, kind, last
  <2>5. /\ Grows(s, t, Touched(s, last, g)) /\ Lies(t, r, top) /\ Beyond(s, r, top) /\ Solved(t, r)
    BY <1>4, <2>1, <2>2, <2>3, HalvesMade
  <2>6. l \notin {None}
    BY TextLength DEF None
  <2>. QED BY <1>3, <2>4, <2>5, <2>6 DEF Answers
<1>. QED BY <1>6, <1>7

\* What a reference makes leaves the image sound.
LEMMA MadeKnown ==
    ASSUME NEW s, NEW P, NEW R, NEW a, NEW top \in Int, Sound(s, P, R, a, top),
           NEW l \in 1 .. Len(s.labels), s.labels[l].addr # 0, NEW kind, NEW op, NEW rt, NEW x,
           Form(kind, op, rt, x), NEW t, t = Made(s, op, rt, x, ExprOf(s, op, x, l)),
           NEW r, IsRef(s, t, r, kind, l, x), kind = "load" /\ l \in P => Wrap(x.off + a) < Size - (Radix \div 2)
    PROVE  Answered(s, t, P, R, r, a, top)
<1>. DEFINE e == ExprOf(s, op, x, l)
<1>1. Formed(s) /\ delayed \in BOOLEAN /\ LabelFit(s, P, R, a, l)
  BY DEF Sound
<1>2. s.labels[l].addr \in 1 .. Size - 1
  BY <1>1, SizeShape DEF LabelFit
<1>3. IsExpr(e) /\ e.sym = l /\ e.bits = "all" /\ IsExpr(Lower(e)) /\ Lower(e).sym = l /\ Lower(e).bits = "lower"
  BY DEF ExprOf, Expr, IsExpr, Lower
<1>4. r.label = l
  BY DEF IsRef
<1>5. op # "b" => e = Expr(x.off, l)
  BY DEF ExprOf
<1>6. t = Made(s, op, rt, x, e)
  OBVIOUS
<1>. HIDE DEF e
<1>7. CASE kind = "jump"
  <2>1. op = "j"
    BY <1>7 DEF Form
  <2>2. t = Single(s, "j", rt, "zero", Expr(x.off, l))
    BY <1>5, <1>6, <2>1 DEF Made
  <2>3. Answers(s, t, r, top)
    BY <1>1, <1>2, <1>7, <2>1, <2>2, JumpKnown
  <2>. QED BY <1>4, <2>3, AnswersSound
<1>8. CASE kind = "branch"
  <2>1. op = "b" /\ x.base = "zero"
    BY <1>8 DEF Form
  <2>2. t = Single(s, "b", rt, "zero", e) \/ t = Single(s, "b", rt, "zero", Lower(e))
    BY <1>6, <2>1 DEF Made, IType
  <2>3. Answers(s, t, r, top)
    <3>1. CASE t = Single(s, "b", rt, "zero", e)
      BY <1>1, <1>2, <1>3, <1>8, <2>1, <3>1, BranchKnown
    <3>2. CASE t = Single(s, "b", rt, "zero", Lower(e))
      <4>. DEFINE f == Lower(e)
      <4>1. IsExpr(f) /\ f.sym = l /\ f.bits \in {"all", "lower"} /\ t = Single(s, "b", rt, "zero", f)
        BY <1>3, <3>2
      <4>. HIDE DEF f
      <4>. QED BY <1>1, <1>2, <1>8, <2>1, <4>1, BranchKnown
    <3>. QED BY <2>2, <3>1, <3>2
  <2>. QED BY <1>4, <2>3, AnswersSound
<1>9. CASE kind = "value"
  <2>1. op \in {"ori", "addiu"} /\ rt = "t0"
    BY <1>9 DEF Form
  <2>2. t = IType(s, op, "t0", x.base, Expr(x.off, l))
    BY <1>5, <1>6, <2>1 DEF Made
  <2>3. Answers(s, t, r, top)
    BY <1>1, <1>2, <1>9, <2>1, <2>2, ValueKnown
  <2>. QED BY <1>4, <2>3, AnswersSound
<1>10. CASE kind = "load"
  <2>1. op = "lw" /\ rt = "t0"
    BY <1>10 DEF Form
  <2>2. t = IType(s, "lw", "t0", x.base, Expr(x.off, l))
    BY <1>5, <1>6, <2>1 DEF Made
  <2>3. Wrap(x.off + s.labels[l].addr) < Size - (Radix \div 2) \/ s.labels[l].uses = <<>>
    <3>1. CASE l \in P
      BY <1>1, <1>10, <3>1 DEF LabelFit
    <3>2. CASE l \notin P
      BY <1>1, <3>2 DEF LabelFit
    <3>. QED BY <3>1, <3>2
  <2>4. Answers(s, t, r, top)
    BY <1>1, <1>2, <1>10, <2>1, <2>2, <2>3, LoadKnown
  <2>. QED BY <1>4, <2>4, AnswersSound
<1>. QED BY <1>7, <1>8, <1>9, <1>10 DEF Form

LEMMA MadeSound ==
    ASSUME NEW s, NEW P, NEW R, NEW a, NEW top \in Int, Sound(s, P, R, a, top),
           NEW l \in 1 .. Len(s.labels), NEW kind, NEW op, NEW rt, NEW x,
           Form(kind, op, rt, x), NEW t, t = Made(s, op, rt, x, ExprOf(s, op, x, l)),
           NEW r, IsRef(s, t, r, kind, l, x), kind = "load" /\ l \in P => Wrap(x.off + a) < Size - (Radix \div 2)
    PROVE  Answered(s, t, P, R, r, a, top)
<1>1. CASE s.labels[l].addr = 0
  <2>1. /\ Awaiting(s, t, P, R, r, a, top)
        /\ t.table = s.table /\ t.local = s.local /\ Len(t.labels) = Len(s.labels)
    BY <1>1, MadeUnknown
  <2>. QED BY <2>1 DEF Awaiting, Answered
<1>2. CASE s.labels[l].addr # 0
  BY <1>2, MadeKnown
<1>. QED BY <1>1, <1>2

\* Without labels of the line it does not matter where they would be.
LEMMA SoundAfter ==
    ASSUME NEW s, NEW R, NEW a, NEW top \in Int, Sound(s, {}, R, a, top), NEW b, NEW top2 \in Int, top <= top2
    PROVE  Sound(s, {}, R, b, top2)
<1>1. Placed(s, R, top2)
  <2>1. ASSUME NEW r \in R PROVE Lies(s, r, top2)
    <3>1. Lies(s, r, top) /\ Formed(s)
      BY DEF Sound, Placed
    <3>2. CASE r.kind = "word"
      <4>1. r.at \in Nat /\ r.at < top
        BY <3>1, <3>2 DEF Lies
      <4>2. r.at < top2
        BY <4>1
      <4>. QED BY <3>1, <3>2, <4>2 DEF Lies
    <3>3. CASE r.kind # "word"
      BY <3>1, <3>3 DEF Lies
    <3>. QED BY <3>2, <3>3
  <2>. QED BY <2>1 DEF Sound, Placed
<1>. QED BY <1>1 DEF Sound, LabelFit

-----------------------------------------------------------------------------
(* The commands keep the image sound *)

\* A word is written.
LEMMA WordSet ==
    ASSUME NEW s, Formed(s), NEW a, NEW v
    PROVE  LET t == WithWord(s, a, v) IN
           /\ Formed(t) /\ t.text = s.text /\ t.labels = s.labels /\ t.table = s.table /\ t.local = s.local
           /\ a \in DOMAIN t.data /\ t.data[a] = v
           /\ \A w \in DOMAIN s.data : w \in DOMAIN t.data /\ (w # a => t.data[w] = s.data[w])
<1>. DEFINE x == [w \in {a} \cup DOMAIN s.data |-> IF w = a THEN v ELSE s.data[w]]
            t == [s EXCEPT !.data = x]
<1>1. WithWord(s, a, v) = t
  BY DEF WithWord
<1>2. /\ a \in DOMAIN x /\ x[a] = v
      /\ \A w \in DOMAIN s.data : w \in DOMAIN x /\ (w # a => x[w] = s.data[w])
  OBVIOUS
<1>. HIDE DEF x
<1>3. /\ Formed(t) /\ t.text = s.text /\ t.labels = s.labels /\ t.table = s.table /\ t.local = s.local
      /\ t.data = x
  BY DEF Formed, Well, Parts0
<1>. HIDE DEF t
<1>. QED BY <1>1, <1>2, <1>3

\* The reference of a word.
IsWord(r, l, a) ==
    /\ r.kind = "word" /\ r.label = l /\ r.at = a /\ r.count = 1 /\ r.x = [off |-> 0, base |-> "zero"]

Worded(s, l, a, t, u) ==
    /\ t = WithWord(s, a, s.labels[l].addr)
    /\ u = IF s.labels[l].addr # 0 THEN t ELSE Recorded(t, l, DataAt(a))

WordAdded(s, u, R, here, top) ==
    /\ Sound(u, {}, R, here, top) /\ u.table = s.table /\ Len(u.labels) = Len(s.labels) /\ u.text = s.text

LEMMA WordSound ==
    ASSUME NEW s, NEW R, NEW top \in Nat, Sound(s, {}, R, top, top), NEW l \in 1 .. Len(s.labels),
           NEW a \in Nat \ {0}, top <= a, NEW r, IsWord(r, l, a), NEW t, NEW u, Worded(s, l, a, t, u)
    PROVE  WordAdded(s, u, R \cup {r}, top, a + 4)
<1>. DEFINE top2 == a + 4
<1>1. /\ Formed(s) /\ Placed(s, R, top) /\ delayed \in BOOLEAN /\ UsesFit(s, R, l)
      /\ \A k \in 1 .. Len(s.labels) : LabelFit(s, {}, R, top, k)
      /\ Len(s.text) \in Nat
  BY TextLength DEF Sound, LabelFit
<1>2. /\ Formed(t) /\ t.text = s.text /\ t.labels = s.labels /\ t.table = s.table /\ t.local = s.local
      /\ a \in DOMAIN t.data /\ t.data[a] = s.labels[l].addr
      /\ \A w \in DOMAIN s.data : w \in DOMAIN t.data /\ (w # a => t.data[w] = s.data[w])
  <2>1. LET y == WithWord(s, a, s.labels[l].addr) IN
        /\ Formed(y) /\ y.text = s.text /\ y.labels = s.labels /\ y.table = s.table /\ y.local = s.local
        /\ a \in DOMAIN y.data /\ y.data[a] = s.labels[l].addr
        /\ \A w \in DOMAIN s.data : w \in DOMAIN y.data /\ (w # a => y.data[w] = s.data[w])
    BY <1>1, WordSet
  <2>. QED BY <2>1 DEF Worded
<1>3. ASSUME NEW w \in DOMAIN s.data, w < top PROVE w # a
  BY <1>3
<1>4. Widens(s, t, top)
  <2>1. \A w \in DOMAIN s.data : w < top => t.data[w] = s.data[w]
    BY <1>2, <1>3
  <2>. QED BY <1>1, <1>2, <2>1 DEF Widens
<1>5. /\ r.kind = "word" /\ r.label = l /\ r.at = a /\ r.count = 1 /\ r.x.off = 0 /\ r.x.base = "zero"
      /\ r.count \in 1 .. 3 /\ r.x.off \in Int /\ a < top2 /\ top2 \in Int /\ top <= top2 /\ top \in Int
  BY DEF IsWord
<1>. HIDE DEF top2
<1>6. \A y : Len(y.labels) = Len(s.labels) /\ y.data = t.data => Lies(y, r, top2)
  BY <1>2, <1>5 DEF Lies
<1>7. Beyond(s, r, top)
  BY <1>5 DEF Beyond
<1>8. CASE s.labels[l].addr # 0
  <2>1. u = t
    BY <1>8 DEF Worded
  <2>2. Lies(t, r, top2)
    BY <1>2, <1>6
  <2>3. ASSUME NEW q \in R
        PROVE  /\ Lies(t, q, top2) /\ SameRun(s, t, q) /\ Apart(q, r) /\ Apart(r, q)
               /\ Waits(s, q) => Waits(t, q)
    <3>1. Lies(t, q, top2) /\ Apart(q, r) /\ Apart(r, q)
      <4>1. /\ Lies(s, q, top) /\ Lies(t, q, top2)
            /\ \A z : Beyond(s, z, top) /\ Lies(t, z, top2) => Apart(q, z) /\ Apart(z, q)
        <5>1. /\ Len(t.labels) = Len(s.labels) /\ Len(s.text) <= Len(t.text)
              /\ \A w \in DOMAIN s.data : w \in DOMAIN t.data
          BY <1>1, <1>2
        <5>. QED BY <1>1, <1>2, <1>5, <5>1, Further
      <4>. QED BY <1>7, <2>2, <4>1
    <3>2. Address(t, q) = Address(s, q) /\ UsesOf(t, q.label) = UsesOf(s, q.label)
      BY <1>2 DEF Address, UsesOf
    <3>3. SameCode(s, t, q) /\ (Waits(s, q) => Waits(t, q))
      BY <1>1, <1>4, <1>5, <3>2, WaitsWider
    <3>4. SameRun(s, t, q)
      BY <3>3, SameIsRun
    <3>. QED BY <3>1, <3>3, <3>4
  <2>4. Solved(t, r)
    <3>1. Address(t, r) = s.labels[l].addr /\ t.data[r.at] = Address(t, r)
      BY <1>2, <1>5 DEF Address
    <3>2. Address(t, r) \in 1 .. Size - 1
      BY <1>1, <1>8, <3>1, SizeShape DEF LabelFit
    <3>3. WordCode(t, r, {})
      BY <3>1 DEF WordCode
    <3>. QED BY <1>5, <2>2, <3>2, <3>3, WordSolved
  <2>5. ASSUME NEW k \in 1 .. Len(s.labels) PROVE UsesFit(t, R \cup {r}, k)
    <3>1. UsesFit(s, R, k) /\ t.labels[k].uses = s.labels[k].uses
      BY <1>1, <1>2 DEF LabelFit
    <3>. QED BY <2>3, <3>1, UsesFitKept
  <2>6. \A k \in 1 .. Len(s.labels) :
           /\ t.labels[k].addr = s.labels[k].addr /\ t.labels[k].meant = s.labels[k].meant
           /\ t.labels[k].uses = s.labels[k].uses \/ s.labels[k].addr = 0
           /\ UsesFit(t, R \cup {r}, k)
    BY <1>2, <2>5
  <2>7. Len(t.labels) = Len(s.labels)
    BY <1>2
  <2>8. Sound(t, {}, R \cup {r}, top, top2)
    BY <1>2, <2>2, <2>3, <2>4, <2>6, <2>7, ReferenceMore
  <2>. QED BY <1>2, <2>1, <2>8 DEF top2, WordAdded
<1>9. CASE s.labels[l].addr = 0
  <2>. DEFINE us == <<DataAt(a)>> \o s.labels[l].uses
  <2>1. u = Recorded(t, l, DataAt(a))
    BY <1>9 DEF Worded
  <2>2. /\ Extends(t, u) /\ u.text = t.text /\ UsesBut(t, u, l, us)
    <3>1. LET y == Recorded(t, l, DataAt(a)) IN
          /\ Extends(t, y) /\ y.text = t.text /\ UsesBut(t, y, l, <<DataAt(a)>> \o t.labels[l].uses)
      BY <1>2, RecordedShape
    <3>. QED BY <1>2, <2>1, <3>1
  <2>3. UsesBut(s, u, l, us)
    <3>. HIDE DEF us
    <3>1. t.labels = s.labels /\ UsesBut(t, u, l, us)
      BY <1>2, <2>2
    <3>. QED BY <3>1 DEF UsesBut
  <2>4. Widens(s, u, top)
    BY <1>2, <1>4, <2>2 DEF Widens, Extends
  <2>5. u.data = t.data /\ Len(u.labels) = Len(s.labels) /\ u.table = s.table
    BY <1>2, <2>2 DEF Extends
  <2>6. Lies(u, r, top2)
    BY <1>6, <2>5
  <2>7. Recent(s.labels[l].uses, Len(s.text)) /\ (\A v \in UsesOf(s, l) : v.kind = "data" => v.at \in Nat /\ v.at < top)
    BY <1>1, <1>5, UsesPlaced
  <2>8. IsList(s.labels[l].uses) /\ Ordered(s.labels[l].uses) /\ UsesOf(s, l) = Range(s.labels[l].uses)
    BY <2>7 DEF Recent, UsesOf
  <2>9. \A v \in Range(s.labels[l].uses) : v.kind = "data" => a > v.at
    BY <2>7, <2>8
  <2>10. DataAt(a).kind = "data" /\ DataAt(a).at = a
    BY DEF DataAt
  <2>11. Ordered(us)
    <3>. DEFINE d == DataAt(a)
                old == s.labels[l].uses
    <3>1. IsList(old) /\ Ordered(old) /\ \A v \in Range(old) : v.kind = d.kind => d.at > v.at
      BY <2>8, <2>9, <2>10
    <3>. HIDE DEF d, old
    <3>2. Ordered(<<d>> \o old)
      BY <3>1, OrderedCons
    <3>. QED BY <3>2 DEF d, old
  <2>12. IsList(us) /\ Range(us) = {DataAt(a)} \cup Range(s.labels[l].uses)
    <3>. DEFINE d == DataAt(a)
                old == s.labels[l].uses
    <3>1. IsList(old)
      BY <2>8
    <3>. HIDE DEF d, old
    <3>2. IsList(<<d>> \o old) /\ Range(<<d>> \o old) = {d} \cup Range(old)
      BY <3>1, ConsShape
    <3>. QED BY <3>2 DEF d, old
  <2>13. Sites(r) = {DataAt(a)}
    BY <1>5 DEF Sites
  <2>. HIDE DEF us
  <2>14. Range(us) = UsesOf(s, l) \cup Sites(r)
    BY <2>8, <2>12, <2>13
  <2>15. Code(u, r, Sites(r), delayed)
    BY <1>5, <2>13 DEF Code, WordCode
  <2>16. Awaiting(s, u, {}, R, r, top, top2)
    BY <1>5, <1>7, <1>9, <2>3, <2>4, <2>6, <2>11, <2>12, <2>14, <2>15, PendsSound
  <2>. QED BY <1>2, <2>2, <2>5, <2>16 DEF Awaiting, top2, WordAdded
<1>. QED BY <1>8, <1>9

-----------------------------------------------------------------------------
(* The invariant *)

\* The image is sound but for the labels of the line, whose references still wait.
InRange ==
    /\ Len(image.text) <= MaxText /\ dir \in {"text", "data"}
    /\ datapc \in Nat \ {0} /\ datapc < DataStart + (4 * (MaxData + 1))
AsmInv ==
    /\ Sound(image, Range(line), refs, Here(image), datapc)
    /\ Tabled(image) /\ IsList(line) /\ Distinct(line)
    /\ \A r \in refs : r.label \in Range(line) => Waits(image, r)
    /\ InRange

\* No step changes delayed.
LEMMA Steady ==
    ASSUME delayed' = delayed, Sound(image', Range(line'), refs', Here(image)', datapc'),
           Tabled(image'), IsList(line'), Distinct(line'),
           \A r \in refs' : r.label \in Range(line') => Waits(image', r), InRange'
    PROVE  AsmInv'
<1>1. Sound(image, Range(line), refs, Here(image), datapc)'
  BY DEF Sound, LabelFit, UsesFit, Waits, UsesOf, Solved, Comes
<1>2. (\A r \in refs : r.label \in Range(line) => Waits(image, r))'
  BY DEF Waits, UsesOf
<1>. QED BY <1>1, <1>2 DEF AsmInv, Tabled, Distinct

LEMMA EmptyLine == IsList(<<>>) /\ Range(<<>>) = {} /\ Distinct(<<>>)
BY EmptyList DEF Distinct

\* Without labels of the line.
LEMMA SteadyAfter ==
    ASSUME delayed' = delayed, line' = <<>>, NEW b, NEW top \in Int, Sound(image', {}, refs', b, top),
           datapc' \in Int, top <= datapc', Tabled(image'), InRange'
    PROVE  AsmInv'
<1>1. Sound(image', {}, refs', Here(image)', datapc')
  BY SoundAfter
<1>2. IsList(line') /\ Range(line') = {} /\ Distinct(line')
  BY EmptyLine
<1>. QED BY <1>1, <1>2, Steady

\* What ends in clear_labels.
LEMMA DoneSound ==
    ASSUME delayed' = delayed, IsList(line), Distinct(line), NEW s, NEW a, Done(s, a),
           NEW top \in Int, Sound(s, Range(line), refs', a, top), Tabled(s), Len(s.text) <= MaxText,
           datapc' \in Nat \ {0}, top <= datapc', datapc' < DataStart + (4 * (MaxData + 1)),
           dir' \in {"text", "data"}
    PROVE  AsmInv'
<1>1. image' = Cleared(s, a) /\ line' = <<>>
  BY DEF Done
<1>2. LET t == Cleared(s, a) IN Sound(t, {}, refs', a, top) /\ SameSize(s, t) /\ SameAddresses(s, t)
  BY ClearedSound
<1>3. Sound(image', {}, refs', a, top) /\ SameSize(s, image')
  BY <1>1, <1>2
<1>4. Tabled(image') /\ InRange'
  BY <1>3 DEF SameSize, Tabled, InRange
<1>5. datapc' \in Int
  OBVIOUS
<1>. QED BY <1>1, <1>3, <1>4, <1>5, SteadyAfter

\* Where the next item goes.
LEMMA HereFits ==
    ASSUME InRange, NEW s, Formed(s), s.text = image.text
    PROVE  /\ Here(s) \in 1 .. Size - 1 /\ Here(s) = Here(image) /\ TextPc(s) = TextPc(image)
           /\ TextPc(s) \in TextStart .. TextStart + (4 * MaxText)
           /\ datapc \in 1 .. Size - 1 /\ datapc \in Int
<1>1. /\ TextStart \in Nat \ {0} /\ DataStart \in Nat \ {0} /\ MaxText \in Nat /\ MaxData \in Nat
      /\ TextStart + (4 * MaxText) < Size /\ DataStart + (4 * (MaxData + 1)) <= Size
  BY AssemblerAssumption
<1>2. Len(s.text) \in Nat /\ Len(s.text) <= MaxText /\ Size \in Nat
  BY TextLength, SizeShape DEF InRange
<1>3. TextPc(s) = TextPc(image)
  BY DEF TextPc
<1>4. TextPc(s) = TextStart + (4 * Len(s.text))
  BY <1>1, <1>2 DEF TextPc, PcOf
<1>5. TextPc(s) \in TextStart .. TextStart + (4 * MaxText)
  BY <1>1, <1>2, <1>4
<1>6. TextPc(s) \in 1 .. Size - 1
  BY <1>1, <1>2, <1>5
<1>7. datapc \in 1 .. Size - 1 /\ datapc \in Int
  BY <1>1, <1>2 DEF InRange
<1>. QED BY <1>3, <1>5, <1>6, <1>7 DEF Here

\* The table has the name; nothing else changes that a step could tell.
LookedFrom(s, n) ==
    /\ Sound(s, Range(line), refs, Here(image), datapc) /\ Tabled(s) /\ s.table[n] \in 1 .. Len(s.labels)
    /\ s.text = image.text /\ \A r \in refs : r.label \in Range(line) => Waits(s, r)

LEMMA LookedUp ==
    ASSUME AsmInv, NEW n \in Names
    PROVE  LookedFrom(Looked(image, n), n)
<1>1. LET t == Looked(image, n) IN
      /\ Sound(t, Range(line), refs, Here(image), datapc) /\ Tabled(t) /\ t.table[n] \in 1 .. Len(t.labels)
      /\ t.text = image.text /\ t.data = image.data
      /\ \A r \in refs : Waits(image, r) => Waits(t, r)
  BY LookedSound DEF AsmInv
<1>. QED BY <1>1 DEF LookedFrom, AsmInv

LEMMA SegmentSound == ASSUME AsmInv, Segment PROVE AsmInv'
<1>1. Done(image, Here(image)) /\ UNCHANGED <<datapc, delayed, refs>> /\ dir' \in {"text", "data"}
  BY DEF Segment
<1>. QED BY <1>1, DoneSound DEF AsmInv, InRange

LEMMA ByteSound == ASSUME AsmInv, Byte PROVE AsmInv'
<1>1. /\ Done(image, datapc) /\ UNCHANGED <<dir, delayed, refs>> /\ datapc' = datapc + 1 /\ dir = "data"
      /\ datapc < DataStart + 4 * MaxData
  BY DEF Byte
<1>2. Here(image) = datapc
  BY <1>1 DEF Here
<1>3. /\ datapc \in Int /\ datapc' \in Nat \ {0} /\ datapc <= datapc'
      /\ datapc' < DataStart + (4 * (MaxData + 1))
  <2>1. datapc \in Nat \ {0}
    BY DEF AsmInv, InRange
  <2>2. DataStart \in Nat /\ MaxData \in Nat
    BY AssemblerAssumption
  <2>. QED BY <1>1, <2>1, <2>2
<1>. QED BY <1>1, <1>2, <1>3, DoneSound DEF AsmInv, InRange

\* A program's addresses of text keep out of what a lower half, sign-extended, says alone.
OffsetsFit ==
    \A x \in Operands, a \in TextStart .. TextStart + (4 * MaxText) : Wrap(x.off + a) < Size - (Radix \div 2)

LEMMA EmitSound ==
    ASSUME AsmInv, OffsetsFit, NEW kind, NEW n \in Names, NEW x, NEW op, NEW rt, Form(kind, op, rt, x),
           kind = "load" => x \in Operands, Emit(kind, n, x, op, rt)
    PROVE  AsmInv'
<1>. DEFINE s == Looked(image, n)
            l == s.table[n]
            t == Made(s, op, rt, x, ExprOf(s, op, x, l))
            r == Ref(kind, n, l, Len(s.text) + 1, Len(t.text) - Len(s.text), x)
            a == TextPc(s)
            P == Range(line)
<1>1. /\ Done(t, a) /\ refs' = refs \cup {r} /\ UNCHANGED <<dir, datapc, delayed>>
      /\ Len(t.text) <= MaxText /\ dir = "text"
  BY DEF Emit, Made, ExprOf
<1>2. LookedFrom(s, n)
  BY LookedUp
<1>3. IsRef(s, t, r, kind, l, x)
  BY DEF IsRef, Ref
<1>. HIDE DEF s, t, r
<1>4. Formed(s) /\ Sound(s, P, refs, Here(image), datapc) /\ Tabled(s) /\ l \in 1 .. Len(s.labels) /\ s.text = image.text
  BY <1>2 DEF LookedFrom, Sound
<1>5. InRange /\ IsList(line) /\ Distinct(line)
  BY DEF AsmInv
<1>6. /\ Here(s) = Here(image) /\ a \in TextStart .. TextStart + (4 * MaxText) /\ datapc \in Int
      /\ Here(s) = a
  BY <1>1, <1>4, <1>5, HereFits DEF Here
<1>7. kind = "load" /\ l \in P => Wrap(x.off + a) < Size - (Radix \div 2)
  BY <1>6 DEF OffsetsFit
<1>8. Sound(s, P, refs, a, datapc)
  BY <1>4, <1>6
<1>9. t = Made(s, op, rt, x, ExprOf(s, op, x, l))
  BY DEF t
<1>. HIDE DEF a, l, P
<1>10. Answered(s, t, P, refs, r, a, datapc)
  BY <1>3, <1>4, <1>6, <1>7, <1>8, <1>9, MadeSound
<1>11. Sound(t, P, refs', a, datapc) /\ Tabled(t)
  BY <1>1, <1>4, <1>10 DEF Answered, Tabled
<1>12. /\ delayed' = delayed /\ datapc' \in Nat \ {0} /\ datapc <= datapc' /\ dir' \in {"text", "data"}
       /\ datapc' < DataStart + (4 * (MaxData + 1)) /\ Len(t.text) <= MaxText /\ datapc \in Int
  BY <1>1, <1>5, <1>6 DEF InRange
<1>13. Sound(t, Range(line), refs', a, datapc) /\ Done(t, a)
  BY <1>1, <1>11 DEF P
<1>. QED BY <1>5, <1>11, <1>12, <1>13, DoneSound

LEMMA WordStepSound == ASSUME AsmInv, NEW n \in Names, Word(n) PROVE AsmInv'
<1>. DEFINE a == 4 * ((datapc + 3) \div 4)
            b == Fixed(image, a)
            c == Cleared(b, a)
            s == Looked(c, n)
            l == s.table[n]
            t == WithWord(s, a, s.labels[l].addr)
            r == Ref("word", n, l, a, 1, [off |-> 0, base |-> "zero"])
            P == Range(line)
<1>1. /\ image' = IF s.labels[l].addr # 0 THEN t ELSE Recorded(t, l, DataAt(a))
      /\ line' = <<>> /\ datapc' = a + 4 /\ refs' = refs \cup {r} /\ UNCHANGED <<dir, delayed>>
      /\ dir = "data" /\ a < DataStart + 4 * MaxData
  BY DEF Word, DataAt
<1>2. /\ InRange /\ IsList(line) /\ Distinct(line) /\ Sound(image, P, refs, Here(image), datapc)
      /\ Tabled(image) /\ \A q \in refs : q.label \in P => Waits(image, q)
  BY DEF AsmInv
<1>3. datapc \in Nat \ {0} /\ DataStart \in Nat /\ MaxData \in Nat /\ DataStart + (4 * (MaxData + 1)) <= Size /\ Size \in Nat
  BY <1>2, AssemblerAssumption, SizeShape DEF InRange
<1>4. a \in Nat \ {0} /\ datapc <= a
  BY <1>3
<1>. HIDE DEF a
<1>5. a \in 1 .. Size - 1 /\ a + 4 \in Nat \ {0} /\ a + 4 < DataStart + (4 * (MaxData + 1))
  BY <1>1, <1>3, <1>4
<1>6. Sound(b, P, refs, a, datapc) /\ SameSize(image, b) /\ b.text = image.text
  <2>1. LET y == Fixed(image, a) IN
        Sound(y, Range(line), refs, a, datapc) /\ SameSize(image, y) /\ y.text = image.text
    BY <1>2, <1>5, FixedSound
  <2>. QED BY <2>1
<1>. HIDE DEF b
<1>7. Sound(c, {}, refs, a, datapc) /\ SameSize(b, c)
  <2>1. LET y == Cleared(b, a) IN
        Sound(y, {}, refs, a, datapc) /\ SameSize(b, y) /\ SameAddresses(b, y)
    BY <1>2, <1>6, ClearedSound
  <2>. QED BY <2>1
<1>. HIDE DEF c
<1>8. Sound(c, {}, refs, datapc, datapc) /\ datapc \in Nat /\ datapc \in Int
  BY <1>3, <1>7, SoundAfter
<1>9. Tabled(c) /\ Len(c.text) = Len(image.text)
  BY <1>2, <1>6, <1>7 DEF Tabled, SameSize
<1>10. Sound(s, {}, refs, datapc, datapc) /\ Tabled(s) /\ l \in 1 .. Len(s.labels) /\ s.text = c.text
  <2>1. LET y == Looked(c, n) IN
        /\ Sound(y, {}, refs, datapc, datapc) /\ Tabled(y) /\ y.table[n] \in 1 .. Len(y.labels)
        /\ y.text = c.text /\ y.data = c.data
        /\ \A q \in refs : Waits(c, q) => Waits(y, q)
    BY <1>8, <1>9, LookedSound
  <2>. QED BY <2>1
<1>11. IsWord(r, l, a)
  BY DEF IsWord, Ref
<1>12. t = WithWord(s, a, s.labels[l].addr)
  OBVIOUS
<1>. HIDE DEF s, t, l, r
<1>13. /\ Sound(image', {}, refs \cup {r}, datapc, a + 4) /\ image'.table = s.table
       /\ Len(image'.labels) = Len(s.labels) /\ image'.text = s.text
  <2>. DEFINE u == image'
  <2>1. Worded(s, l, a, t, u)
    BY <1>1, <1>12 DEF Worded
  <2>2. a \in Nat \ {0} /\ datapc <= a /\ datapc \in Nat /\ Sound(s, {}, refs, datapc, datapc)
        /\ l \in 1 .. Len(s.labels)
    BY <1>4, <1>8, <1>10
  <2>. HIDE DEF u
  <2>3. WordAdded(s, u, refs \cup {r}, datapc, a + 4)
    BY <1>11, <2>1, <2>2, WordSound
  <2>. QED BY <2>3 DEF u, WordAdded
<1>14. Tabled(image')
  BY <1>10, <1>13 DEF Tabled
<1>15. InRange'
  BY <1>1, <1>2, <1>5, <1>9, <1>10, <1>13 DEF InRange
<1>16. /\ delayed' = delayed /\ line' = <<>> /\ Sound(image', {}, refs', datapc, a + 4)
       /\ a + 4 \in Int /\ datapc' \in Int /\ a + 4 <= datapc'
  BY <1>1, <1>5, <1>13
<1>. QED BY <1>14, <1>15, <1>16, SteadyAfter

LEMMA GlobalSound == ASSUME AsmInv, NEW n \in Names, Global(n) PROVE AsmInv'
<1>. DEFINE s == Looked(image, n)
            l == s.table[n]
            y == [s.labels[l] EXCEPT !.global = TRUE]
            t == [s EXCEPT !.labels[l] = y]
            P == Range(line)
            a == Here(image)
<1>1. Done(t, Here(s)) /\ UNCHANGED <<dir, datapc, delayed, refs>>
  BY DEF Global
<1>2. LookedFrom(s, n)
  BY LookedUp
<1>. HIDE DEF s
<1>3. /\ Formed(s) /\ Sound(s, P, refs, a, datapc) /\ Tabled(s) /\ l \in 1 .. Len(s.labels)
      /\ s.text = image.text /\ \A r \in refs : r.label \in P => Waits(s, r)
  BY <1>2 DEF LookedFrom, Sound
<1>4. InRange /\ IsList(line) /\ Distinct(line)
  BY DEF AsmInv
<1>5. Here(s) = a /\ a \in 1 .. Size - 1 /\ datapc \in Int
  BY <1>3, <1>4, HereFits
<1>. HIDE DEF l, a
<1>6. s.labels[l] = [p \in LabelParts |-> s.labels[l][p]] /\ IsList(s.labels[l].uses)
  BY <1>3, LabelShape
<1>7. /\ y = [p \in LabelParts |-> y[p]] /\ y.addr = s.labels[l].addr /\ y.meant = s.labels[l].meant
      /\ y.uses = s.labels[l].uses
  BY <1>6 DEF LabelParts
<1>. HIDE DEF y
<1>8. /\ Formed(t) /\ t.text = s.text /\ t.data = s.data /\ t.table = s.table
      /\ Len(t.labels) = Len(s.labels)
      /\ \A k \in 1 .. Len(s.labels) : t.labels[k] = IF k = l THEN y ELSE s.labels[k]
  <2>1. LET z == [s EXCEPT !.labels[l] = y] IN
        /\ Formed(z) /\ z.text = s.text /\ z.data = s.data /\ z.table = s.table /\ z.local = s.local
        /\ Len(z.labels) = Len(s.labels)
        /\ \A k \in 1 .. Len(s.labels) : z.labels[k] = IF k = l THEN y ELSE s.labels[k]
    BY <1>3, <1>6, <1>7, LabelSet
  <2>. QED BY <2>1
<1>. HIDE DEF t
<1>9. ASSUME NEW k \in 1 .. Len(s.labels)
      PROVE  /\ t.labels[k].uses = s.labels[k].uses
             /\ k \in P => t.labels[k].addr = a /\ t.labels[k].meant = 0
             /\ k \notin P => t.labels[k].addr = s.labels[k].addr /\ t.labels[k].meant = s.labels[k].meant
  <2>1. /\ t.labels[k].uses = s.labels[k].uses /\ t.labels[k].addr = s.labels[k].addr
        /\ t.labels[k].meant = s.labels[k].meant
    BY <1>7, <1>8
  <2>2. k \in P => s.labels[k].addr = a /\ s.labels[k].meant = 0
    BY <1>3 DEF Sound, LabelFit
  <2>. QED BY <2>1, <2>2
<1>10. P \subseteq 1 .. Len(s.labels)
  BY <1>3 DEF Sound
<1>. HIDE DEF P
<1>11. Sound(t, P, refs, a, datapc)
  <2>1. P \subseteq P /\ (P # {} => a \in 1 .. Size - 1)
    BY <1>5
  <2>2. \A k \in 1 .. Len(s.labels) :
            /\ t.labels[k].uses = s.labels[k].uses
            /\ k \in P => t.labels[k].addr = a /\ t.labels[k].meant = 0
            /\ k \notin P => t.labels[k].addr = s.labels[k].addr /\ t.labels[k].meant = s.labels[k].meant
    BY <1>9
  <2>3. Moves(s, t, P, refs, P, a)
    BY <1>3, <1>8, <1>10, <2>1, <2>2 DEF Moves
  <2>. QED BY <1>3, <2>3, Moved DEF MovesTo
<1>12. Tabled(t)
  BY <1>3, <1>8 DEF Tabled
<1>13. /\ delayed' = delayed /\ datapc' \in Nat \ {0} /\ datapc <= datapc' /\ dir' \in {"text", "data"}
       /\ datapc' < DataStart + (4 * (MaxData + 1)) /\ Len(t.text) <= MaxText /\ datapc \in Int
  BY <1>1, <1>3, <1>4, <1>5, <1>8 DEF InRange
<1>14. Sound(t, Range(line), refs', a, datapc) /\ Done(t, a)
  BY <1>1, <1>5, <1>11 DEF P
<1>. QED BY <1>4, <1>12, <1>13, <1>14, DoneSound

LEMMA EndOfFileSound == ASSUME AsmInv, EndOfFile PROVE AsmInv'
<1>. DEFINE a == Here(image)
            c == Cleared(image, a)
            t == Flushed(c)
<1>1. /\ image' = t /\ line' = <<>> /\ dir' = "text" /\ UNCHANGED <<datapc, delayed, refs>>
  BY DEF EndOfFile, Closed
<1>2. /\ InRange /\ IsList(line) /\ Distinct(line) /\ Sound(image, Range(line), refs, a, datapc)
      /\ Tabled(image)
  BY DEF AsmInv
<1>3. datapc \in Int
  BY <1>2 DEF InRange
<1>. HIDE DEF a
<1>4. Sound(c, {}, refs, a, datapc) /\ SameSize(image, c)
  <2>1. LET y == Cleared(image, a) IN
        Sound(y, {}, refs, a, datapc) /\ SameSize(image, y) /\ SameAddresses(image, y)
    BY <1>2, ClearedSound
  <2>. QED BY <2>1
<1>. HIDE DEF c
<1>5. Formed(c) /\ Tabled(c) /\ Len(c.text) = Len(image.text)
  BY <1>2, <1>4 DEF Sound, SameSize, Tabled
<1>6. /\ Formed(t) /\ t.text = c.text /\ t.data = c.data /\ t.labels = c.labels
      /\ \A n \in Names : t.table[n] \in {None, c.table[n]}
  BY <1>5 DEF Flushed, Formed, Well, Parts0
<1>7. Tabled(t)
  <2>1. Len(c.labels) \in Nat
    BY <1>5, TextLength
  <2>. QED BY <1>5, <1>6, <2>1 DEF Tabled, None
<1>. HIDE DEF t
<1>8. Sound(t, {}, refs, a, datapc)
  <2>. DEFINE Q == {}
  <2>1. /\ Q \subseteq 1 .. Len(c.labels) /\ Q \subseteq Q /\ (Q # {} => a \in 1 .. Size - 1)
        /\ \A r \in refs : r.label \in Q => Waits(c, r)
        /\ Len(t.labels) = Len(c.labels) /\ Sound(c, Q, refs, a, datapc)
        /\ \A k \in 1 .. Len(c.labels) :
              /\ t.labels[k].uses = c.labels[k].uses
              /\ k \in Q => t.labels[k].addr = a /\ t.labels[k].meant = 0
              /\ k \notin Q => t.labels[k].addr = c.labels[k].addr /\ t.labels[k].meant = c.labels[k].meant
    BY <1>4, <1>6
  <2>. HIDE DEF Q
  <2>2. Moves(c, t, Q, refs, Q, a)
    BY <1>6, <2>1 DEF Moves
  <2>3. Sound(t, Q, refs, a, datapc)
    BY <2>1, <2>2, Moved DEF MovesTo
  <2>. QED BY <2>3 DEF Q
<1>9. InRange'
  BY <1>1, <1>2, <1>5, <1>6 DEF InRange
<1>10. delayed' = delayed /\ datapc' \in Int /\ datapc <= datapc' /\ Sound(image', {}, refs', a, datapc) /\ Tabled(image')
  BY <1>1, <1>3, <1>7, <1>8
<1>. QED BY <1>1, <1>3, <1>9, <1>10, SteadyAfter

LEMMA DistinctCons ==
    ASSUME NEW f, IsList(f), Distinct(f), NEW e, e \notin Range(f)
    PROVE  IsList(<<e>> \o f) /\ Range(<<e>> \o f) = {e} \cup Range(f) /\ Distinct(<<e>> \o f)
<1>. DEFINE g == <<e>> \o f
<1>1. /\ IsList(g) /\ Range(g) = {e} \cup Range(f) /\ Len(g) = Len(f) + 1 /\ g[1] = e
      /\ \A k \in 2 .. Len(f) + 1 : g[k] = f[k - 1]
  BY ConsShape
<1>2. Len(f) \in Nat /\ DOMAIN f = 1 .. Len(f)
  BY ListShape
<1>. HIDE DEF g
<1>3. ASSUME NEW i \in 1 .. Len(g), NEW j \in 1 .. Len(g), g[i] = g[j], i # 1 \/ j # 1 PROVE i = j
  <2>1. \A k \in 2 .. Len(f) + 1 : k - 1 \in 1 .. Len(f) /\ g[k] = f[k - 1] /\ g[k] \in Range(f)
    BY <1>1, <1>2 DEF Range
  <2>2. i \in 2 .. Len(f) + 1 /\ j \in 2 .. Len(f) + 1
    BY <1>1, <1>2, <1>3, <2>1
  <2>3. i - 1 = j - 1
    BY <1>3, <2>1, <2>2 DEF Distinct
  <2>. QED BY <2>2, <2>3
<1>4. Distinct(g)
  BY <1>3 DEF Distinct
<1>. QED BY <1>1, <1>4 DEF g

LEMMA LabelSound == ASSUME AsmInv, ~Redefines, NEW n \in Names, Label(n) PROVE AsmInv'
<1>. DEFINE s == Looked(image, n)
            l == s.table[n]
            b == Here(s)
            a == Here(image)
            y == [s.labels[l] EXCEPT !.addr = b]
            loc == IF s.labels[l].global THEN s.local ELSE <<l>> \o s.local
            t == [[s EXCEPT !.labels[l] = y] EXCEPT !.local = loc]
            P == Range(line)
            Q == {l} \cup P
<1>1. /\ s.labels[l].addr = 0 /\ line' = <<l>> \o line
      /\ image' = [s EXCEPT !.labels[l].addr = b, !.local = IF s.labels[l].global THEN @ ELSE <<l>> \o @]
      /\ UNCHANGED <<dir, datapc, delayed, refs>>
  BY DEF Label
<1>2. LookedFrom(s, n)
  BY LookedUp
<1>3. image' = t
  BY <1>1
<1>. HIDE DEF s
<1>4. /\ Formed(s) /\ Sound(s, P, refs, a, datapc) /\ Tabled(s) /\ l \in 1 .. Len(s.labels)
      /\ s.text = image.text /\ \A r \in refs : r.label \in P => Waits(s, r)
  BY <1>2 DEF LookedFrom, Sound
<1>5. InRange /\ IsList(line) /\ Distinct(line)
  BY DEF AsmInv
<1>6. b = a /\ a \in 1 .. Size - 1 /\ datapc \in Int
  BY <1>4, <1>5, HereFits
<1>. HIDE DEF l, a, b, loc
<1>7. s.labels[l] = [p \in LabelParts |-> s.labels[l][p]] /\ IsList(s.labels[l].uses)
  BY <1>4, LabelShape
<1>8. y = [p \in LabelParts |-> y[p]] /\ y.addr = a /\ y.meant = s.labels[l].meant /\ y.uses = s.labels[l].uses
  BY <1>6, <1>7 DEF LabelParts
<1>. HIDE DEF y
<1>9. /\ Formed(t) /\ t.text = s.text /\ t.data = s.data /\ t.table = s.table
      /\ Len(t.labels) = Len(s.labels)
      /\ \A k \in 1 .. Len(s.labels) : t.labels[k] = IF k = l THEN y ELSE s.labels[k]
  <2>. DEFINE z == [s EXCEPT !.labels[l] = y]
  <2>1. LET w == [s EXCEPT !.labels[l] = y] IN
        /\ Formed(w) /\ w.text = s.text /\ w.data = s.data /\ w.table = s.table /\ w.local = s.local
        /\ Len(w.labels) = Len(s.labels)
        /\ \A k \in 1 .. Len(s.labels) : w.labels[k] = IF k = l THEN y ELSE s.labels[k]
    BY <1>4, <1>7, <1>8, LabelSet
  <2>2. t = [z EXCEPT !.local = loc]
    OBVIOUS
  <2>. HIDE DEF z, t
  <2>3. /\ Formed(t) /\ t.text = z.text /\ t.data = z.data /\ t.table = z.table /\ t.labels = z.labels
    <3>1. Formed(z)
      BY <2>1 DEF z
    <3>. QED BY <2>2, <3>1 DEF Formed, Well, Parts0
  <2>. QED BY <2>1, <2>3 DEF z
<1>. HIDE DEF t
<1>10. /\ P \subseteq 1 .. Len(s.labels) /\ \A k \in 1 .. Len(s.labels) : LabelFit(s, P, refs, a, k)
       /\ \A r \in refs : Waits(s, r) \/ Solved(s, r)
  BY <1>4 DEF Sound
<1>11. l \notin P /\ s.labels[l].meant = 0
  <2>1. l \notin P
    BY <1>1, <1>4, <1>6, <1>10 DEF LabelFit
  <2>. QED BY <1>1, <1>4, <1>10, <2>1 DEF LabelFit
<1>12. ASSUME NEW k \in 1 .. Len(s.labels)
       PROVE  /\ t.labels[k].uses = s.labels[k].uses
              /\ k \in Q => t.labels[k].addr = a /\ t.labels[k].meant = 0
              /\ k \notin Q => t.labels[k].addr = s.labels[k].addr /\ t.labels[k].meant = s.labels[k].meant
  <2>1. CASE k = l
    BY <1>8, <1>9, <1>11, <2>1
  <2>2. CASE k # l
    <3>1. t.labels[k] = s.labels[k]
      BY <1>9, <2>2
    <3>2. k \in P => s.labels[k].addr = a /\ s.labels[k].meant = 0
      BY <1>10 DEF LabelFit
    <3>. QED BY <2>2, <3>1, <3>2
  <2>. QED BY <2>1, <2>2
<1>13. ASSUME NEW r \in refs, r.label \in Q PROVE Waits(s, r)
  <2>1. CASE r.label \in P
    BY <1>4, <2>1
  <2>2. CASE r.label = l
    BY <1>1, <1>10, <2>2 DEF Solved, Address
  <2>. QED BY <1>13, <2>1, <2>2
<1>14. Q \subseteq 1 .. Len(s.labels) /\ P \subseteq Q /\ (Q # {} => a \in 1 .. Size - 1)
  BY <1>4, <1>6, <1>10
<1>15. IsList(line') /\ Range(line') = Q /\ Distinct(line')
  BY <1>1, <1>5, <1>11, DistinctCons
<1>. HIDE DEF P, Q
<1>16. Sound(t, Q, refs, a, datapc) /\ \A r \in refs : r.label \in Q => Waits(t, r)
  <2>1. \A k \in 1 .. Len(s.labels) :
            /\ t.labels[k].uses = s.labels[k].uses
            /\ k \in Q => t.labels[k].addr = a /\ t.labels[k].meant = 0
            /\ k \notin Q => t.labels[k].addr = s.labels[k].addr /\ t.labels[k].meant = s.labels[k].meant
    BY <1>12
  <2>2. \A r \in refs : r.label \in Q => Waits(s, r)
    BY <1>13
  <2>3. /\ Sound(s, P, refs, a, datapc) /\ Formed(t) /\ t.text = s.text /\ t.data = s.data
        /\ Len(t.labels) = Len(s.labels)
    BY <1>4, <1>9
  <2>4. Moves(s, t, P, refs, Q, a)
    BY <1>14, <2>1, <2>2, <2>3 DEF Moves
  <2>. QED BY <2>3, <2>4, Moved DEF MovesTo
<1>17. Here(image)' = a
  <2>1. Here(t) = Here(image)
    BY <1>4, <1>5, <1>9, HereFits
  <2>2. Here(image)' = Here(t)
    BY <1>1, <1>3 DEF Here
  <2>. QED BY <2>1, <2>2 DEF a
<1>18. Tabled(image') /\ InRange'
  BY <1>1, <1>3, <1>4, <1>5, <1>9 DEF Tabled, InRange
<1>. QED BY <1>1, <1>3, <1>15, <1>16, <1>17, <1>18, Steady

LEMMA AsmStart == AsmInit => AsmInv
<1>. SUFFICES ASSUME AsmInit PROVE AsmInv
  OBVIOUS
<1>1. /\ image = [text |-> <<>>, data |-> <<>>, labels |-> <<>>, table |-> [n \in Names |-> None],
                  local |-> <<>>]
      /\ line = <<>> /\ dir = "text" /\ datapc = DataStart /\ refs = {} /\ delayed \in Delays
  BY DEF AsmInit
<1>2. Formed(image)
  BY <1>1, EmptyList DEF Formed, Well, Parts0
<1>3. delayed \in BOOLEAN
  BY <1>1, AssemblerAssumption
<1>4. Range(line) = {} /\ IsList(line) /\ Distinct(line)
  BY <1>1, EmptyLine
<1>5. Sound(image, {}, refs, Here(image), datapc)
  BY <1>1, <1>2, <1>3, EmptyList DEF Sound, Placed
<1>6. Tabled(image)
  BY <1>1, EmptyList DEF Tabled, None
<1>7. InRange
  <2>1. MaxText \in Nat /\ DataStart \in Nat \ {0} /\ MaxData \in Nat
    BY AssemblerAssumption
  <2>. QED BY <1>1, <2>1, EmptyList DEF InRange
<1>. QED BY <1>1, <1>4, <1>5, <1>6, <1>7 DEF AsmInv

LEMMA ReferenceSound == ASSUME AsmInv, OffsetsFit, NEW n \in Names, Reference(n) PROVE AsmInv'
<1>1. \A x \in Operands : x.off \in Int /\ x.base \in {"zero", "base"}
  BY AssemblerAssumption
<1>2. ASSUME NEW x \in Operands, Load(n, x) PROVE AsmInv'
  BY <1>1, <1>2, EmitSound DEF Load, Form
<1>3. ASSUME NEW x \in Operands, NEW op \in {"ori", "addiu"}, LoadAddress(n, op, x.off) PROVE AsmInv'
  <2>. DEFINE z == [off |-> x.off, base |-> "zero"]
  <2>1. Form("value", op, "t0", z)
    BY <1>1 DEF Form
  <2>2. Emit("value", n, z, op, "t0")
    BY <1>3 DEF LoadAddress
  <2>. HIDE DEF z
  <2>. QED BY <2>1, <2>2, EmitSound
<1>4. ASSUME Branch(n) PROVE AsmInv'
  <2>1. Form("branch", "b", "zero", Plain)
    BY DEF Form, Plain
  <2>. QED BY <1>4, <2>1, EmitSound DEF Branch
<1>5. ASSUME Jump(n) PROVE AsmInv'
  <2>1. Form("jump", "j", "zero", Plain)
    BY DEF Form, Plain
  <2>. QED BY <1>5, <2>1, EmitSound DEF Jump
<1>. QED BY <1>2, <1>3, <1>4, <1>5, WordStepSound DEF Reference

LEMMA AsmStep == ASSUME AsmInv, ~Redefines, OffsetsFit, AsmNext PROVE AsmInv'
BY SegmentSound, ByteSound, EndOfFileSound, LabelSound, GlobalSound, ReferenceSound DEF AsmNext

LEMMA AsmStutter == ASSUME AsmInv, UNCHANGED asmVars PROVE AsmInv'
<1>1. /\ image' = image /\ line' = line /\ refs' = refs /\ delayed' = delayed /\ dir' = dir /\ datapc' = datapc
  BY DEF asmVars
<1>2. Here(image)' = Here(image)
  BY <1>1 DEF Here
<1>3. InRange'
  BY <1>1 DEF AsmInv, InRange
<1>. QED BY <1>1, <1>2, <1>3, Steady DEF AsmInv

-----------------------------------------------------------------------------
(* References are resolved *)

\* The code made for an address is run one instruction after the other.
LEMMA RanIs ==
    ASSUME NEW x, IsList(x), NEW k \in Nat \ {0}, NEW n \in 1 .. 3, (k + n) - 1 <= Len(x)
    PROVE  LET one == Ran(Registers, x[k])
               two == Ran(one, x[k + 1])
               all == FoldLeft(Ran, Registers, SubSeq(x, k, k + n - 1))
           IN (n = 1 => all = one) /\ (n = 2 => all = two) /\ (n = 3 => all = Ran(two, x[k + 2]))
<1>. DEFINE z == k + n - 1
            q == SubSeq(x, k, z)
            S == {x[j] : j \in DOMAIN x}
<1>1. z \in Int /\ k \in Int /\ z - k + 1 = n /\ k <= z /\ z = (k + n) - 1
  OBVIOUS
<1>2. Len(x) \in Nat /\ DOMAIN x = 1 .. Len(x)
  BY ListShape
<1>3. \A i \in k .. z : x[i] \in S
  BY <1>1, <1>2
<1>. HIDE DEF S, z
<1>4. q \in Seq(S) /\ Len(q) = n /\ \A i \in 1 .. n : q[i] = x[k + i - 1]
  BY <1>1, <1>3, SubSeqProperties
<1>5. Len(q) \in Nat /\ DOMAIN q = 1 .. Len(q)
  BY <1>4, LenProperties
<1>6. q[1] = x[k] /\ (n > 1 => q[2] = x[k + 1]) /\ (n > 2 => q[3] = x[k + 2])
  BY <1>4
<1>. HIDE DEF q
<1>7. PICK f : Stages("run", 0, Registers, q, f) /\ FoldLeft(Ran, Registers, q) = f[Len(q)]
  BY <1>5, RunStages
<1>8. f[0] = Registers /\ \A i \in 1 .. n : f[i] = Ran(f[i - 1], q[i])
  BY <1>4, <1>7 DEF Stages, Turn
<1>9. f[1] = Ran(Registers, q[1])
  BY <1>8
<1>10. n > 1 => f[2] = Ran(f[1], q[2])
  BY <1>8
<1>11. n > 2 => f[3] = Ran(f[2], q[3])
  BY <1>8
<1>12. /\ n = 1 => FoldLeft(Ran, Registers, q) = Ran(Registers, x[k])
       /\ n = 2 => FoldLeft(Ran, Registers, q) = Ran(Ran(Registers, x[k]), x[k + 1])
       /\ n = 3 => FoldLeft(Ran, Registers, q) = Ran(Ran(Ran(Registers, x[k]), x[k + 1]), x[k + 2])
  BY <1>4, <1>6, <1>7, <1>9, <1>10, <1>11
<1>. QED BY <1>12 DEF q, z

LEMMA ReachedIs ==
    ASSUME NEW r, NEW top, Lies(image, r, top), IsList(image.text)
    PROVE  Reached(r) = Comes(image, r)
<1>1. CASE r.kind = "word"
  BY <1>1 DEF Reached, Comes
<1>2. CASE r.kind = "jump"
  BY <1>2 DEF Reached, Comes
<1>3. CASE r.kind = "branch"
  <2>1. Reached(r) = Wrap(PcOf(r.at) + Displacement(image.text[r.at].imm) + IF delayed THEN 4 ELSE 0)
    BY <1>3 DEF Reached
  <2>2. Comes(image, r) = Gone(r.at, image.text[r.at].imm, delayed)
    BY <1>3 DEF Comes
  <2>. QED BY <2>1, <2>2 DEF Gone
<1>4. CASE r.kind \in {"load", "value"}
  <2>1. /\ r.at \in Nat \ {0} /\ r.count \in 1 .. 3 /\ (r.at + r.count) - 1 <= Len(image.text)
    BY <1>4 DEF Lies, Final
  <2>. DEFINE one == Ran(Registers, image.text[r.at])
              two == Ran(one, image.text[r.at + 1])
              y == FoldLeft(Ran, Registers, SubSeq(image.text, r.at, r.at + r.count - 1))
  <2>2. /\ r.count = 1 => y = one
        /\ r.count = 2 => y = two
        /\ r.count = 3 => y = Ran(two, image.text[r.at + 2])
    BY <2>1, RanIs
  <2>3. Reached(r) = y.t0
    BY <1>4 DEF Reached
  <2>4. Comes(image, r) = Arrived(image, r)
    BY <1>4 DEF Comes
  <2>5. /\ r.count = 1 => Arrived(image, r) = one.t0
        /\ r.count = 2 => Arrived(image, r) = two.t0
        /\ r.count = 3 => Arrived(image, r) = Ran(two, image.text[r.at + 2]).t0
    BY DEF Arrived
  <2>. HIDE DEF y, one, two
  <2>. QED BY <2>1, <2>2, <2>3, <2>4, <2>5
<1>. QED BY <1>1, <1>2, <1>3, <1>4 DEF Lies

LEMMA AsmInvSuffices == AsmInv => ReferencesResolved
<1>. SUFFICES ASSUME AsmInv, NEW r \in refs, Meant(r) # 0, Target(r, Meant(r))
              PROVE  Reached(r) = Wrap(Meant(r) + r.x.off + Registers[r.x.base])
  BY DEF ReferencesResolved
<1>. DEFINE l == r.label
            y == image.labels[l]
<1>1. Sound(image, Range(line), refs, Here(image), datapc)
  BY DEF AsmInv
<1>2. /\ Lies(image, r, datapc) /\ l \in 1 .. Len(image.labels) /\ IsList(image.text)
      /\ LabelFit(image, Range(line), refs, Here(image), l)
      /\ Waits(image, r) \/ Solved(image, r)
  BY <1>1 DEF Sound, Placed, Lies, Formed, Well
<1>3. y.meant # 0 /\ Meant(r) = y.meant
  BY DEF Meant
<1>4. y.meant = y.addr /\ y.uses = <<>>
  BY <1>2, <1>3 DEF LabelFit
<1>5. ~Waits(image, r)
  <2>1. Sites(r) # {}
    BY DEF Sites
  <2>2. UsesOf(image, l) = {}
    BY <1>4, EmptyList DEF UsesOf
  <2>. QED BY <2>1, <2>2 DEF Waits
<1>6. Comes(image, r) = Wanted(r, Meant(r))
  <2>1. Address(image, r) = Meant(r)
    BY <1>3, <1>4 DEF Address
  <2>. QED BY <1>2, <1>5, <2>1 DEF Solved
<1>7. Reached(r) = Comes(image, r)
  BY <1>2, ReachedIs
<1>8. Wanted(r, Meant(r)) = Wrap(Meant(r) + r.x.off + Registers[r.x.base])
  BY DEF Wanted
<1>. QED BY <1>6, <1>7, <1>8

\* References are resolved: whether a label is defined before or after its use (at the
\* definition, through record_inst_uses_symbol and resolve_label_uses, or at once in
\* i_type_inst and j_type_inst), the instructions or the word made for the reference
\* come to the address that followed the label, plus the offset and the base register,
\* halves and carries included (resolve_a_label_sub in sym-tbl.c, i_type_inst,
\* i_type_inst_full_word and produce_immediate in inst.c, clear_labels and
\* fix_current_label_address).  For programs that define no name twice, and whose
\* offsets lead from no address of their text into the last Radix \div 2 bytes of the
\* address space: see OffsetsFit.
THEOREM ReferencesAreResolved ==
    ASSUME ~Redefines, OffsetsFit
    PROVE  TargetSpec => []ReferencesResolved
<1>1. Start => AsmInv
  BY AsmStart DEF Start
<1>2. AsmInv /\ [Run]_allVars => AsmInv'
  <2>1. Run => UNCHANGED asmVars \/ AsmNext
    BY DEF Run
  <2>2. UNCHANGED allVars => UNCHANGED asmVars
    BY DEF allVars
  <2>. QED BY <2>1, <2>2, AsmStep, AsmStutter
<1>3. AsmInv => ReferencesResolved
  BY AsmInvSuffices
<1>. QED BY <1>1, <1>2, <1>3, PTL DEF TargetSpec

=============================================================================
