--------------------------- MODULE InstructionsProofs ---------------------------
(***************************************************************************)
(* Proofs about Instructions: the floating-point flags, the memory, the    *)
(* binary form of instructions, and integer arithmetic.                    *)
(***************************************************************************)
EXTENDS Instructions, FiniteSetTheorems, WellFoundedInduction, TLAPS

-----------------------------------------------------------------------------
(* The parts do not touch each other *)

LEMMA Apart ==
    /\ Init => FlagInit /\ MemInit
    /\ Next => \/ FlagNext \/ UNCHANGED flagVars
    /\ Next => \/ MemNext \/ UNCHANGED memVars
<1>1. Init => FlagInit /\ MemInit
  BY DEF Init
<1>2. Next => \/ FlagNext \/ UNCHANGED flagVars
  BY DEF Next, OneInstruction, Access
<1>3. Next => \/ MemNext \/ UNCHANGED memVars
  BY DEF Next, OneInstruction, Access
<1>. QED BY <1>1, <1>2, <1>3

-----------------------------------------------------------------------------
(* The flags of the floating-point unit *)

FlagsShape == fccr \in [AllFlags -> BOOLEAN] /\ fcsr = fccr

LEMMA MovedShape == ASSUME NEW v PROVE Moved(v) \in [AllFlags -> BOOLEAN]
BY DEF Moved

LEMMA LinkedStep ==
    ASSUME FlagsShape, FlagNext, ~ClearsFirst
    PROVE  FlagsShape'
<1>1. ASSUME NEW n \in DOMAIN CondOf, NEW cc \in Flags, NEW rel \in Relations, Compare(n, cc, rel)
      PROVE  FlagsShape'
  <2>. DEFINE r == Holds(CondOf[n], rel)
  <2>1. r \in BOOLEAN
    BY DEF Holds
  <2>2. \/ UNCHANGED <<fccr, fcsr>>
        \/ fccr' = SetFlag(fccr, cc, r) /\ fcsr' = SetFlag(fcsr, cc, r)
    BY <1>1 DEF Compare
  <2>. HIDE DEF r
  <2>. QED BY <2>1, <2>2 DEF FlagsShape, SetFlag
<1>2. ASSUME NEW v \in SUBSET MovedFlags, MoveToFccr(v) PROVE FlagsShape'
  <2>. DEFINE m == Moved(v)
  <2>1. m \in [AllFlags -> BOOLEAN] /\ m[0] = TRUE
    <3>1. 0 \in v /\ 0 \in AllFlags
      BY <1>2 DEF MoveToFccr, AllFlags
    <3>2. m[0] = (0 \in v)
      BY <3>1 DEF Moved
    <3>. QED BY <3>1, <3>2, MovedShape
  <2>2. fccr' = m /\ fcsr' = [m EXCEPT ![0] = @ \/ fcsr[0]]
    BY <1>2 DEF MoveToFccr
  <2>. HIDE DEF m
  <2>3. fcsr' = [m EXCEPT ![0] = TRUE]
    BY <2>1, <2>2
  <2>. QED BY <2>1, <2>2, <2>3 DEF FlagsShape
<1>3. ASSUME NEW v \in SUBSET MovedFlags, NEW other \in BOOLEAN, MoveToFcsr(v, other)
      PROVE  FlagsShape'
  BY <1>3, MovedShape DEF MoveToFcsr, FccrOf, FlagsShape
<1>4. ASSUME NEW cc \in Flags, Branch(cc) PROVE FlagsShape'
  BY <1>4 DEF Branch, FlagsShape
<1>. QED BY <1>1, <1>2, <1>3, <1>4 DEF FlagNext

\* FCCR and FCSR show the same flags whichever instructions wrote them, in
\* programs that do not clear flag 0 by a move to FCCR: the mask of CTC1 leaves
\* that bit of FCSR as it was.
THEOREM FlagsAreLinked ==
    ASSUME ~ClearsFirst
    PROVE  Spec => []FlagsLinked
<1>1. Init => FlagsShape
  BY Apart DEF FlagInit, FlagsShape
<1>2. FlagsShape /\ [Next]_vars => FlagsShape'
  <2>1. ASSUME FlagsShape, UNCHANGED flagVars PROVE FlagsShape'
    BY <2>1 DEF FlagsShape, flagVars
  <2>2. UNCHANGED vars => UNCHANGED flagVars
    BY DEF vars, flagVars
  <2>. QED BY <2>1, <2>2, Apart, LinkedStep
<1>3. FlagsShape => FlagsLinked
  BY DEF FlagsShape, FlagsLinked
<1>. QED BY <1>1, <1>2, <1>3, PTL DEF Spec

-----------------------------------------------------------------------------
(* Comparisons *)

Signals(n) == n \in {"sf", "ngle", "seq", "ngl", "lt", "nge", "le", "ngt"}

\* r_cond_type_inst gives each name the bits it stands for.
LEMMA NamesMean ==
    ASSUME NEW n \in DOMAIN CondOf, NEW rel \in Relations
    PROVE  /\ CondOf[n].INV <=> Signals(n)
           /\ Holds(CondOf[n], rel) <=> Meaning(n, rel)
<1>. DEFINE c == CondOf[n]
<1>1. n \in {"f", "un", "eq", "ueq", "olt", "ult", "ole", "ule",
             "sf", "ngle", "seq", "ngl", "lt", "nge", "le", "ngt"}
  BY DEF CondOf
<1>2. c.LT <=> n \in {"olt", "ult", "ole", "ule", "lt", "nge", "le", "ngt"}
  BY <1>1 DEF CondOf, Cond
<1>3. c.EQ <=> n \in {"eq", "ueq", "ole", "ule", "seq", "ngl", "le", "ngt"}
  BY <1>1 DEF CondOf, Cond
<1>4. c.UN <=> n \in {"un", "ueq", "ult", "ule", "ngle", "ngl", "nge", "ngt"}
  BY <1>1 DEF CondOf, Cond
<1>5. c.INV <=> Signals(n)
  BY <1>1 DEF CondOf, Cond, Signals
<1>. HIDE DEF c
<1>6. Holds(c, rel) <=> Meaning(n, rel)
  BY <1>1, <1>2, <1>3, <1>4 DEF Holds, Meaning, Relations
<1>. QED BY <1>5, <1>6 DEF c

LEMMA MeaningIsBoolean ==
    ASSUME NEW n \in DOMAIN CondOf, NEW rel PROVE Meaning(n, rel) \in BOOLEAN
<1>1. CASE n \in {"f", "sf"}
  <2>1. Meaning(n, rel) = FALSE
    BY <1>1 DEF Meaning
  <2>. QED BY <2>1
<1>2. CASE n \in {"un", "ngle"}
  <2>1. Meaning(n, rel) = (rel \notin {"greater", "less", "equal"})
    BY <1>2 DEF Meaning
  <2>. QED BY <2>1
<1>3. CASE n \in {"eq", "seq"}
  <2>1. Meaning(n, rel) = (rel = "equal")
    BY <1>3 DEF Meaning
  <2>. QED BY <2>1
<1>4. CASE n \in {"ueq", "ngl"}
  <2>1. Meaning(n, rel) = (rel \notin {"greater", "less"})
    BY <1>4 DEF Meaning
  <2>. QED BY <2>1
<1>5. CASE n \in {"olt", "lt"}
  <2>1. Meaning(n, rel) = (rel = "less")
    BY <1>5 DEF Meaning
  <2>. QED BY <2>1
<1>6. CASE n \in {"ult", "nge"}
  <2>1. Meaning(n, rel) = (rel \notin {"greater", "equal"})
    BY <1>6 DEF Meaning
  <2>. QED BY <2>1
<1>7. CASE n \in {"ole", "le"}
  <2>1. Meaning(n, rel) = (rel \in {"less", "equal"})
    BY <1>7 DEF Meaning
  <2>. QED BY <2>1
<1>8. CASE n \in {"ule", "ngt"}
  <2>1. Meaning(n, rel) = (rel # "greater")
    BY <1>8 DEF Meaning
  <2>. QED BY <2>1
<1>. QED BY <1>1, <1>2, <1>3, <1>4, <1>5, <1>6, <1>7, <1>8 DEF CondOf

\* The flag compared into holds the result until something else writes it.
CompareInv ==
    /\ fccr \in [AllFlags -> BOOLEAN] /\ raised \in BOOLEAN
    /\ did # Nothing =>
         /\ did.name \in DOMAIN CondOf /\ did.rel \in Relations /\ did.cc \in AllFlags
         /\ raised <=> (did.rel = "unordered" /\ Signals(did.name))
         /\ ~raised => (fccr[did.cc] <=> Meaning(did.name, did.rel))
         /\ (taken # "none" /\ ~raised) => (taken = "yes" <=> Meaning(did.name, did.rel))

LEMMA CompareStep == ASSUME CompareInv, FlagNext, Flags \subseteq {0} PROVE CompareInv'
<1>1. ASSUME NEW n \in DOMAIN CondOf, NEW cc \in Flags, NEW rel \in Relations, Compare(n, cc, rel)
      PROVE  CompareInv'
  <2>. DEFINE r == Holds(CondOf[n], rel)
  <2>1. r \in BOOLEAN /\ (r <=> Meaning(n, rel))
    BY NamesMean DEF Holds
  <2>2. /\ raised' <=> (rel = "unordered" /\ Signals(n))
        /\ raised' \in BOOLEAN /\ taken' = "none"
    BY <1>1, NamesMean DEF Compare
  <2>3. did' = [name |-> n, rel |-> rel, cc |-> cc]
    BY <1>1 DEF Compare
  <2>4. IF raised' THEN UNCHANGED fccr ELSE fccr' = SetFlag(fccr, cc, r)
    BY <1>1 DEF Compare
  <2>. HIDE DEF r
  <2>5. did'.name = n /\ did'.rel = rel /\ did'.cc = cc /\ cc \in AllFlags
    BY <2>3, FlagAssumption
  <2>6. FlagOf(cc) = cc
    BY DEF FlagOf
  <2>7. fccr' \in [AllFlags -> BOOLEAN] /\ (~raised' => fccr'[cc] = r)
    BY <2>1, <2>4, <2>5, <2>6 DEF CompareInv, SetFlag
  <2>. QED BY <2>1, <2>2, <2>5, <2>7 DEF CompareInv
<1>2. ASSUME NEW v \in SUBSET MovedFlags, MoveToFccr(v) PROVE CompareInv'
  BY <1>2, MovedShape DEF MoveToFccr, CompareInv
<1>3. ASSUME NEW v \in SUBSET MovedFlags, NEW other \in BOOLEAN, MoveToFcsr(v, other)
      PROVE  CompareInv'
  BY <1>3, MovedShape DEF MoveToFcsr, FccrOf, CompareInv
<1>4. ASSUME NEW cc \in Flags, Branch(cc) PROVE CompareInv'
  BY <1>4 DEF Branch, CompareInv
<1>. QED BY <1>1, <1>2, <1>3, <1>4 DEF FlagNext

\* A branch goes the way the name of the comparison says, for ordered and
\* unordered operands: set_fpu_cc computes from the bits COND_LT, COND_EQ and
\* COND_UN what each of the sixteen names stands for.  Flag 0 is the only one
\* that is written where it is read.
THEOREM ComparisonsAreRight ==
    ASSUME Flags \subseteq {0}
    PROVE  Spec => []ComparisonsHold
<1>1. Init => CompareInv
  BY Apart DEF FlagInit, CompareInv
<1>2. CompareInv /\ [Next]_vars => CompareInv'
  <2>1. ASSUME CompareInv, UNCHANGED flagVars PROVE CompareInv'
    BY <2>1 DEF CompareInv, flagVars
  <2>2. UNCHANGED vars => UNCHANGED flagVars
    BY DEF vars, flagVars
  <2>. QED BY <2>1, <2>2, Apart, CompareStep
<1>3. CompareInv => ComparisonsHold
  <2>. SUFFICES ASSUME CompareInv, did # Nothing
                PROVE  /\ raised = (did.rel = "unordered" /\ Signals(did.name))
                       /\ (taken # "none" /\ ~raised) => (taken = "yes") = Meaning(did.name, did.rel)
    BY DEF ComparisonsHold, Signals
  <2>1. Meaning(did.name, did.rel) \in BOOLEAN
    BY MeaningIsBoolean DEF CompareInv
  <2>. QED BY <2>1 DEF CompareInv, Signals
<1>. QED BY <1>1, <1>2, <1>3, PTL DEF Spec

-----------------------------------------------------------------------------
(* Memory: its layout *)

\* The byte that memory holds at an address.
Cell(a) ==
    IF InData(a) THEN data[a - DataBot]
    ELSE IF InStack(a) THEN stack[a - StackBot]
    ELSE IF InText(a) /\ TextWord(a) # Empty THEN TextWord(a)[(a % 4) + 1]
    ELSE 0

\* A growable segment: an array from 0 of whole words, inside its limit.
Segment(seg, limit) ==
    /\ SizeOf(seg) \in 0 .. limit /\ SizeOf(seg) % 4 = 0
    /\ DOMAIN seg = 0 .. SizeOf(seg) - 1

\* The inductive invariant: memory, cut into segments, is the array written.
MemInv ==
    /\ Segment(data, DataLimit) /\ Segment(stack, StackLimit)
    /\ DOMAIN text = 0 .. TextWords - 1
    /\ \A w \in 0 .. TextWords - 1 : text[w] = Empty \/ DOMAIN text[w] = 1 .. 4
    /\ stores \in Nat
    /\ DOMAIN written = Addresses
    /\ \A a \in Addresses : written[a] = Cell(a)

LEMMA Layout ==
    /\ TextBot \in Nat /\ TextWords \in Nat /\ DataBot \in Nat /\ DataLimit \in Nat
    /\ StackTop \in Nat /\ StackLimit \in Nat /\ Below \in Nat
    /\ TextBot % 4 = 0 /\ DataBot % 4 = 0 /\ StackTop % 4 = 0
    /\ TextBot + 4 * TextWords < DataBot /\ DataBot + DataLimit < StackTop - StackLimit
BY MemoryAssumption

LEMMA IntervalSize ==
    ASSUME NEW n \in Nat, NEW seg, DOMAIN seg = 0 .. n - 1
    PROVE  SizeOf(seg) = n
<1>1. Cardinality(0 .. n - 1) = IF 0 > n - 1 THEN 0 ELSE n - 1 - 0 + 1
  BY FS_Interval
<1>. QED BY <1>1 DEF SizeOf

\* A made segment.
LEMMA SegmentMade ==
    ASSUME NEW n \in Nat, NEW limit \in Nat, n % 4 = 0, n <= limit, NEW seg, DOMAIN seg = 0 .. n - 1
    PROVE  Segment(seg, limit) /\ SizeOf(seg) = n
<1>1. SizeOf(seg) = n
  BY IntervalSize
<1>. QED BY <1>1 DEF Segment

\* The bounds of the segments, as numbers.
LEMMA Bounds ==
    ASSUME MemInv
    PROVE  /\ DataTop \in Nat /\ DataTop % 4 = 0 /\ DataBot <= DataTop /\ DataTop <= DataBot + DataLimit
           /\ StackBot \in Nat /\ StackBot % 4 = 0 /\ StackBot <= StackTop
           /\ StackTop - StackLimit <= StackBot
<1>. DEFINE d == SizeOf(data)  s == SizeOf(stack)
<1>1. d \in Nat /\ d <= DataLimit /\ d % 4 = 0 /\ s \in Nat /\ s <= StackLimit /\ s % 4 = 0
  BY Layout DEF MemInv, Segment
<1>2. DataTop = DataBot + d /\ StackBot = StackTop - s
  BY DEF DataTop, StackBot
<1>. HIDE DEF d, s
<1>3. DataTop \in Nat /\ DataBot <= DataTop /\ DataTop <= DataBot + DataLimit
  BY <1>1, <1>2, Layout
<1>4. StackBot \in Nat /\ StackBot <= StackTop /\ StackTop - StackLimit <= StackBot
  BY <1>1, <1>2, Layout
<1>5. DataTop % 4 = 0
  BY <1>1, <1>2, Layout
<1>6. StackBot % 4 = 0
  BY <1>1, <1>2, Layout
<1>. QED BY <1>3, <1>4, <1>5, <1>6

Aligned(a, size) == a % size = 0

\* An aligned access lies on one side of every bound and in one word.
LEMMA Together ==
    ASSUME NEW a \in Nat, NEW size \in Sizes, Aligned(a, size), NEW b \in Int, a <= b, b < a + size
    PROVE  /\ b \in Nat /\ b >= a
           /\ \A m \in Nat : m % 4 = 0 => ((a >= m) <=> (b >= m))
           /\ b \div 4 = a \div 4 /\ b % 4 = (a % 4) + b - a
           /\ \A m \in Nat : m % 4 = 0 => (b - m) \div 4 = (a - m) \div 4
<1>1. CASE size = 1
  BY <1>1 DEF Aligned
<1>2. CASE size = 2
  BY <1>2 DEF Aligned
<1>3. CASE size = 4
  BY <1>3 DEF Aligned
<1>. QED BY <1>1, <1>2, <1>3 DEF Sizes

\* The segments are apart, and an access lies in one of them whole.
LEMMA Regions ==
    ASSUME MemInv, NEW a \in Nat
    PROVE  /\ InData(a) => ~InStack(a) /\ ~InText(a) /\ ~GrowsStack(a)
           /\ InStack(a) => ~InText(a) /\ ~GrowsStack(a)
           /\ InText(a) => ~GrowsStack(a)
BY Bounds, Layout DEF InData, InStack, InText, GrowsStack

LEMMA Whole ==
    ASSUME MemInv, NEW a \in Nat, NEW size \in Sizes, Aligned(a, size), NEW b \in Int, a <= b, b < a + size
    PROVE  /\ b \in Nat
           /\ InData(b) <=> InData(a)
           /\ InStack(b) <=> InStack(a)
           /\ InText(b) <=> InText(a)
           /\ GrowsStack(a) => a < StackBot /\ b < StackBot
           /\ InText(a) => /\ TextWord(b) = TextWord(a)
                           /\ (a - TextBot) \div 4 \in 0 .. TextWords - 1
<1>1. /\ b \in Nat /\ b >= a
      /\ \A m \in Nat : m % 4 = 0 => ((a >= m) <=> (b >= m))
      /\ b \div 4 = a \div 4 /\ b % 4 = (a % 4) + b - a
      /\ \A m \in Nat : m % 4 = 0 => (b - m) \div 4 = (a - m) \div 4
  BY Together
<1>2. /\ a >= DataBot <=> b >= DataBot
      /\ a >= DataTop <=> b >= DataTop
      /\ a >= StackBot <=> b >= StackBot
      /\ a >= StackTop <=> b >= StackTop
      /\ a >= TextBot <=> b >= TextBot
  BY <1>1, Bounds, Layout
<1>. DEFINE top == TextBot + 4 * TextWords
<1>3. top \in Nat /\ top % 4 = 0
  BY Layout
<1>4. a >= top <=> b >= top
  BY <1>1, <1>3
<1>5. /\ InData(b) <=> InData(a)
      /\ InStack(b) <=> InStack(a)
  <2>1. \A x \in Nat : /\ InData(x) <=> (x >= DataBot /\ ~(x >= DataTop))
                       /\ InStack(x) <=> (x >= StackBot /\ ~(x >= StackTop))
    BY Bounds, Layout DEF InData, InStack
  <2>. QED BY <1>1, <1>2, <2>1
<1>6. InText(b) <=> InText(a)
  <2>. HIDE DEF top
  <2>1. \A x \in Nat : InText(x) <=> (x >= TextBot /\ ~(x >= top))
    BY <1>3, Layout DEF InText, top
  <2>. QED BY <1>1, <1>2, <1>4, <2>1
<1>7. GrowsStack(a) => a < StackBot /\ b < StackBot
  BY <1>1, <1>2, Bounds DEF GrowsStack
<1>8. TextWord(b) = TextWord(a)
  BY <1>1, Layout DEF TextWord
<1>9. InText(a) => (a - TextBot) \div 4 \in 0 .. TextWords - 1
  BY Layout DEF InText
<1>. QED BY <1>1, <1>5, <1>6, <1>7, <1>8, <1>9


-----------------------------------------------------------------------------
(* Memory: what an access reaches *)

LEMMA KindShape ==
    ASSUME MemInv, NEW a \in Nat, NEW size \in Sizes
    PROVE  /\ Kind(a, size) = "data" <=> (Aligned(a, size) /\ InData(a))
           /\ Kind(a, size) = "stack" <=> (Aligned(a, size) /\ InStack(a))
           /\ Kind(a, size) = "text" <=> (Aligned(a, size) /\ InText(a))
           /\ Kind(a, size) = "grow" <=>
                (Aligned(a, size) /\ GrowsStack(a) /\ ~(NewStackSize(a) > StackLimit))
           /\ Kind(a, size) \in Faults \cup {"data", "stack", "text", "grow"}
<1>. DEFINE u == Aligned(a, size)  over == NewStackSize(a) > StackLimit  kind == Kind(a, size)
<1>1. /\ InData(a) => ~InStack(a) /\ ~InText(a) /\ ~GrowsStack(a)
      /\ InStack(a) => ~InText(a) /\ ~GrowsStack(a)
      /\ InText(a) => ~GrowsStack(a)
  BY Regions
<1>3. CASE ~u
  <2>1. kind = "unaligned"
    BY <1>3 DEF Kind, Aligned
  <2>. QED BY <1>3, <2>1 DEF Faults
<1>4. CASE u /\ InData(a)
  <2>1. kind = "data"
    BY <1>1, <1>4 DEF Kind, Aligned
  <2>. QED BY <1>1, <1>4, <2>1 DEF Faults
<1>5. CASE u /\ InStack(a)
  <2>1. kind = "stack"
    BY <1>1, <1>5 DEF Kind, Aligned
  <2>. QED BY <1>1, <1>5, <2>1 DEF Faults
<1>6. CASE u /\ InText(a)
  <2>1. kind = "text"
    BY <1>1, <1>6 DEF Kind, Aligned
  <2>. QED BY <1>1, <1>6, <2>1 DEF Faults
<1>7. CASE u /\ GrowsStack(a)
  <2>1. kind = IF over THEN "limit" ELSE "grow"
    BY <1>1, <1>7 DEF Kind, Aligned
  <2>. QED BY <1>1, <1>7, <2>1 DEF Faults
<1>8. CASE u /\ ~InData(a) /\ ~InStack(a) /\ ~InText(a) /\ ~GrowsStack(a)
  <2>1. kind = "bus"
    BY <1>8 DEF Kind, Aligned
  <2>. QED BY <1>8, <2>1 DEF Faults
<1>. QED BY <1>3, <1>4, <1>5, <1>6, <1>7, <1>8

\* Nothing is stored between the segments.
LEMMA CellOf ==
    ASSUME MemInv, NEW a \in Nat
    PROVE  /\ InData(a) => Cell(a) = data[a - DataBot]
           /\ InStack(a) => Cell(a) = stack[a - StackBot]
           /\ InText(a) => Cell(a) = IF TextWord(a) # Empty THEN TextWord(a)[(a % 4) + 1] ELSE 0
           /\ (~InData(a) /\ ~InStack(a) /\ ~InText(a)) => Cell(a) = 0
BY Regions DEF Cell

\* read_mem_byte, read_mem_half and read_mem_word return the bytes of memory.
LEMMA ReadShape ==
    ASSUME MemInv, NEW a \in Addresses, NEW size \in Sizes,
           Kind(a, size) \notin Faults, Instruction(a, size)
    PROVE  /\ Read(a, size) = [k \in 1 .. size |-> Cell(a + k - 1)]
           /\ \A k \in 1 .. size : a + k - 1 \in Addresses
<1>0. a \in Nat /\ a >= TextBot /\ size \in Nat
  BY Layout DEF Addresses, Sizes
<1>1. Aligned(a, size) /\ Kind(a, size) \in {"data", "stack", "text", "grow"}
  BY <1>0, KindShape
<1>2. ASSUME NEW k \in 1 .. size
      PROVE  /\ a + k - 1 \in Nat
             /\ InData(a + k - 1) <=> InData(a)
             /\ InStack(a + k - 1) <=> InStack(a)
             /\ InText(a + k - 1) <=> InText(a)
             /\ GrowsStack(a) => a < StackBot /\ a + k - 1 < StackBot
             /\ InText(a) => TextWord(a + k - 1) = TextWord(a)
             /\ (a + k - 1) % 4 = (a % 4) + k - 1
  <2>. DEFINE b == a + k - 1
  <2>1. b \in Int /\ a <= b /\ b < a + size
    BY <1>0
  <2>2. b - a = k - 1
    BY <1>0
  <2>. HIDE DEF b
  <2>3. /\ b \in Nat
        /\ InData(b) <=> InData(a)
        /\ InStack(b) <=> InStack(a)
        /\ InText(b) <=> InText(a)
        /\ GrowsStack(a) => a < StackBot /\ b < StackBot
        /\ InText(a) => TextWord(b) = TextWord(a)
    BY <1>0, <1>1, <2>1, Whole
  <2>4. b % 4 = (a % 4) + k - 1
    BY <1>0, <1>1, <2>1, <2>2, Together
  <2>. QED BY <2>3, <2>4 DEF b
<1>3. CASE Kind(a, size) = "data"
  <2>1. InData(a)
    BY <1>0, <1>3, KindShape
  <2>2. Read(a, size) = [k \in 1 .. size |-> data[a - DataBot + k - 1]]
    BY <1>3 DEF Read, Part
  <2>3. ASSUME NEW k \in 1 .. size
        PROVE  /\ Cell(a + k - 1) = data[a - DataBot + k - 1]
               /\ a + k - 1 \in Addresses
    <3>. DEFINE b == a + k - 1
    <3>1. InData(b) /\ b \in Nat
      BY <1>2, <2>1
    <3>2. b - DataBot = a - DataBot + k - 1 /\ b >= TextBot
      BY <1>0, Bounds, Layout
    <3>. HIDE DEF b
    <3>3. Cell(b) = data[a - DataBot + k - 1]
      BY <3>1, <3>2, CellOf
    <3>4. b \in Addresses
      BY <3>1, <3>2, Bounds, Layout DEF InData, Addresses
    <3>. QED BY <3>3, <3>4 DEF b
  <2>. QED BY <2>2, <2>3
<1>4. CASE Kind(a, size) = "stack"
  <2>1. InStack(a)
    BY <1>0, <1>4, KindShape
  <2>2. Read(a, size) = [k \in 1 .. size |-> stack[a - StackBot + k - 1]]
    BY <1>4 DEF Read, Part
  <2>3. ASSUME NEW k \in 1 .. size
        PROVE  /\ Cell(a + k - 1) = stack[a - StackBot + k - 1]
               /\ a + k - 1 \in Addresses
    <3>. DEFINE b == a + k - 1
    <3>1. InStack(b) /\ b \in Nat
      BY <1>2, <2>1
    <3>2. b - StackBot = a - StackBot + k - 1 /\ b >= TextBot
      BY <1>0, Bounds, Layout
    <3>. HIDE DEF b
    <3>3. Cell(b) = stack[a - StackBot + k - 1]
      BY <3>1, <3>2, CellOf
    <3>4. b \in Addresses
      BY <3>1, <3>2, Bounds, Layout DEF InStack, Addresses
    <3>. QED BY <3>3, <3>4 DEF b
  <2>. QED BY <2>2, <2>3
<1>5. CASE Kind(a, size) = "text"
  <2>1. InText(a)
    BY <1>0, <1>5, KindShape
  <2>2. ASSUME NEW k \in 1 .. size
        PROVE  /\ Cell(a + k - 1) = IF TextWord(a) # Empty THEN TextWord(a)[(a % 4) + 1 + k - 1] ELSE 0
               /\ a + k - 1 \in Addresses
    <3>1. InText(a + k - 1) /\ a + k - 1 \in Nat /\ TextWord(a + k - 1) = TextWord(a)
      BY <1>2, <2>1
    <3>2. ((a + k - 1) % 4) + 1 = (a % 4) + 1 + k - 1
      BY <1>0, <1>2
    <3>3. a + k - 1 \in Addresses
      BY <1>0, <3>1, Layout DEF InText, Addresses
    <3>. QED BY <3>1, <3>2, <3>3, CellOf
  <2>3. CASE TextWord(a) # Empty
    <3>1. Read(a, size) = [k \in 1 .. size |-> TextWord(a)[(a % 4) + 1 + k - 1]]
      BY <1>5, <2>3 DEF Read, Part
    <3>. QED BY <2>2, <2>3, <3>1
  <2>4. CASE TextWord(a) = Empty
    <3>1. Read(a, size) = Part(Zeros(size), 0, size)
      BY <1>5, <2>4 DEF Read
    <3>2. Part(Zeros(size), 0, size) = [k \in 1 .. size |-> 0]
      BY <1>0 DEF Part, Zeros
    <3>. QED BY <2>2, <2>4, <3>1, <3>2
  <2>. QED BY <2>3, <2>4
<1>6. CASE Kind(a, size) = "grow"
  <2>1. GrowsStack(a)
    BY <1>0, <1>6, KindShape
  <2>2. ASSUME NEW k \in 1 .. size
        PROVE  Cell(a + k - 1) = 0 /\ a + k - 1 \in Addresses
    <3>1. ~InData(a) /\ ~InStack(a) /\ ~InText(a)
      BY <1>0, <2>1, Regions
    <3>2. ~InData(a + k - 1) /\ ~InStack(a + k - 1) /\ ~InText(a + k - 1) /\ a + k - 1 \in Nat
      BY <1>2, <3>1
    <3>3. a + k - 1 < StackBot
      BY <1>2, <2>1
    <3>4. a + k - 1 \in Addresses
      BY <1>0, <3>2, <3>3, Bounds, Layout DEF Addresses
    <3>. QED BY <3>2, <3>4, CellOf
  <2>3. Read(a, size) = Part(Zeros(size), 0, size)
    BY <1>6 DEF Read
  <2>4. Part(Zeros(size), 0, size) = [k \in 1 .. size |-> 0]
    BY <1>0 DEF Part, Zeros
  <2>. QED BY <2>2, <2>3, <2>4
<1>. QED BY <1>1, <1>3, <1>4, <1>5, <1>6

LEMMA MemoryIsKept == MemInv => MemoryKept
<1>. SUFFICES ASSUME MemInv, NEW size \in Sizes, NEW a \in Addresses,
                     Kind(a, size) \notin Faults, Instruction(a, size)
              PROVE  Read(a, size) = Part(written, a, size)
  BY DEF MemoryKept
<1>1. Part(written, a, size) = [k \in 1 .. size |-> written[a + k - 1]]
  BY DEF Part
<1>2. \A k \in 1 .. size : written[a + k - 1] = Cell(a + k - 1)
  BY ReadShape DEF MemInv
<1>. QED BY <1>1, <1>2, ReadShape

-----------------------------------------------------------------------------
(* Memory: its operations *)

LEMMA MemStart == MemInit => MemInv
<1>. SUFFICES ASSUME MemInit PROVE MemInv
  OBVIOUS
<1>1. DataSize \in Nat /\ StackSize \in Nat /\ DataLimit \in Nat /\ StackLimit \in Nat
  BY MemoryAssumption
<1>2. data = [i \in 0 .. DataSize - 1 |-> 0] /\ stack = [i \in 0 .. StackSize - 1 |-> 0]
  BY DEF MemInit, Zeros
<1>3. /\ Segment(data, DataLimit) /\ SizeOf(data) = DataSize
      /\ Segment(stack, StackLimit) /\ SizeOf(stack) = StackSize
  <2>1. DOMAIN data = 0 .. DataSize - 1 /\ DOMAIN stack = 0 .. StackSize - 1
    BY <1>2
  <2>2. DataSize % 4 = 0 /\ DataSize <= DataLimit /\ StackSize % 4 = 0 /\ StackSize <= StackLimit
    BY MemoryAssumption
  <2>. QED BY <1>1, <2>1, <2>2, SegmentMade
<1>4. text = [w \in 0 .. TextWords - 1 |-> IF w = 0 THEN <<0, 0, 0, 0>> ELSE Empty]
  BY DEF MemInit
<1>5. DOMAIN text = 0 .. TextWords - 1
  BY <1>4
<1>6. ASSUME NEW w \in 0 .. TextWords - 1
      PROVE  /\ text[w] = Empty \/ DOMAIN text[w] = 1 .. 4
             /\ text[w] # Empty => \A i \in 1 .. 4 : text[w][i] = 0
  BY <1>4
<1>7. stores \in Nat /\ written = [a \in Addresses |-> 0]
  BY DEF MemInit
<1>8. ASSUME NEW a \in Addresses PROVE Cell(a) = 0
  <2>1. a \in Nat
    BY Layout DEF Addresses
  <2>2. CASE InData(a)
    <3>1. a - DataBot \in 0 .. DataSize - 1
      BY <1>1, <1>3, <2>1, <2>2, Layout DEF InData, DataTop
    <3>. QED BY <1>2, <2>2, <3>1 DEF Cell
  <2>3. CASE ~InData(a) /\ InStack(a)
    <3>1. a - StackBot \in 0 .. StackSize - 1
      BY <1>1, <1>3, <2>1, <2>3, Layout DEF InStack, StackBot
    <3>. QED BY <1>2, <2>3, <3>1 DEF Cell
  <2>4. CASE ~InData(a) /\ ~InStack(a) /\ InText(a)
    <3>. DEFINE w == (a - TextBot) \div 4  i == (a % 4) + 1
    <3>1. w \in 0 .. TextWords - 1 /\ i \in 1 .. 4
      BY <2>1, <2>4, Layout DEF InText
    <3>2. TextWord(a) = text[w]
      BY DEF TextWord
    <3>3. Cell(a) = IF text[w] # Empty THEN text[w][i] ELSE 0
      BY <2>4, <3>2 DEF Cell
    <3>. HIDE DEF w, i
    <3>. QED BY <1>6, <3>1, <3>3
  <2>5. CASE ~InData(a) /\ ~InStack(a) /\ ~InText(a)
    BY <2>5 DEF Cell
  <2>. QED BY <2>2, <2>3, <2>4, <2>5
<1>. QED BY <1>3, <1>5, <1>6, <1>7, <1>8 DEF MemInv


\* expand_stack: the new block holds what the old one held at the same addresses,
\* and zeros below, where nothing was.
LEMMA GrowShape ==
    ASSUME MemInv, NEW a \in Nat, GrowsStack(a), ~(NewStackSize(a) > StackLimit),
           NEW n, n = NewStackSize(a), NEW bot, bot = StackTop - n, NEW c, c = Copied(stack, n)
    PROVE  /\ n \in Nat /\ n % 4 = 0 /\ n <= StackLimit /\ DOMAIN c = 0 .. n - 1
           /\ bot \in Nat /\ bot < a /\ bot <= StackBot /\ DataTop < bot
           /\ \A b \in Nat : (bot <= b /\ b < StackTop) => c[b - bot] = Cell(b)
<1>. DEFINE s == SizeOf(stack)  x == StackBot - a + 4  r == RoundUp(x)
<1>1. s \in Nat /\ s % 4 = 0 /\ StackBot = StackTop - s
  BY Layout DEF MemInv, Segment, StackBot
<1>2. StackBot \in Nat /\ a < StackBot /\ x \in Nat
  BY Bounds DEF GrowsStack
<1>3. n = s + Larger(r, s)
  BY DEF NewStackSize
<1>. HIDE DEF s
<1>4. r \in Nat /\ r >= x /\ r % 4 = 0
  <2>. HIDE DEF x
  <2>. QED BY <1>2 DEF RoundUp
<1>. HIDE DEF r
<1>5. n \in Nat /\ n >= s + r /\ n % 4 = 0
  BY <1>1, <1>3, <1>4 DEF Larger
<1>6. n <= StackLimit
  BY <1>5, Layout
<1>7. bot \in Nat /\ bot < a /\ bot <= StackBot /\ DataTop < bot
  <2>1. bot = StackTop - n /\ n <= StackLimit /\ StackTop - StackLimit <= bot
    BY <1>5, <1>6, Layout
  <2>2. DataTop < bot
    BY <2>1, <1>5, Bounds, Layout
  <2>3. bot \in Nat
    BY <2>1, <2>2, <1>5, Bounds, Layout
  <2>4. bot <= StackBot - r
    BY <1>1, <1>4, <1>5, <2>1, Layout
  <2>. QED BY <1>2, <1>4, <2>2, <2>3, <2>4
<1>8. c = [i \in 0 .. n - 1 |-> IF i >= n - s THEN stack[i - (n - s)] ELSE 0]
  BY DEF Copied, s
<1>9. DOMAIN c = 0 .. n - 1
  BY <1>8
<1>10. ASSUME NEW b \in Nat, bot <= b, b < StackTop
       PROVE  c[b - bot] = Cell(b)
  <2>0. StackTop \in Nat /\ StackTop = bot + n /\ n \in Nat /\ bot \in Nat
    BY <1>5, <1>7, Layout
  <2>1. b - bot \in 0 .. n - 1 /\ n - s = StackBot - bot
    <3>1. b - bot >= 0 /\ b - bot < n
      BY <1>10, <2>0
    <3>2. n - s = StackBot - bot
      <4>1. s \in Nat /\ StackBot = StackTop - s /\ StackBot \in Nat
        BY <1>1, <1>2
      <4>. QED BY <2>0, <4>1
    <3>. QED BY <2>0, <3>1, <3>2
  <2>2. c[b - bot] = IF b - bot >= StackBot - bot THEN stack[b - bot - (StackBot - bot)] ELSE 0
    BY <1>8, <2>1
  <2>3. CASE b >= StackBot
    <3>1. InStack(b)
      BY <1>10, <2>3 DEF InStack
    <3>2. b - bot >= StackBot - bot /\ b - bot - (StackBot - bot) = b - StackBot
      BY <1>2, <1>7, <2>3
    <3>. QED BY <2>2, <3>1, <3>2, CellOf
  <2>4. CASE ~(b >= StackBot)
    <3>1. ~InData(b) /\ ~InStack(b) /\ ~InText(b)
      BY <1>2, <1>7, <1>10, <2>4, Bounds, Layout DEF InData, InStack, InText
    <3>2. ~(b - bot >= StackBot - bot)
      BY <1>2, <1>7, <2>4
    <3>. QED BY <2>2, <3>1, <3>2, CellOf
  <2>. QED BY <2>3, <2>4
<1>. QED BY <1>5, <1>6, <1>7, <1>9, <1>10

\* The byte at an address after a step.
LEMMA CellNext ==
    ASSUME NEW b \in Nat
    PROVE  Cell(b)' =
             IF DataBot <= b /\ b < DataBot + SizeOf(data') THEN data'[b - DataBot]
             ELSE IF StackTop - SizeOf(stack') <= b /\ b < StackTop
                  THEN stack'[b - (StackTop - SizeOf(stack'))]
             ELSE IF InText(b) /\ text'[(b - TextBot) \div 4] # Empty
                  THEN text'[(b - TextBot) \div 4][(b % 4) + 1] ELSE 0
BY DEF Cell, InData, DataTop, InStack, StackBot, InText, TextWord

\* After the stack has grown, and perhaps been stored into.
LEMMA GrownCells ==
    ASSUME MemInv, NEW a \in Nat, GrowsStack(a), ~(NewStackSize(a) > StackLimit),
           NEW n, n = NewStackSize(a), NEW bot, bot = StackTop - n, NEW c, c = Copied(stack, n),
           UNCHANGED <<data, text>>, DOMAIN stack' = DOMAIN c
    PROVE  /\ Segment(stack', StackLimit)
           /\ \A b \in Nat : (bot <= b /\ b < StackTop) => Cell(b)' = stack'[b - bot]
           /\ \A b \in Nat : ~(bot <= b /\ b < StackTop) => Cell(b)' = Cell(b)
<1>1. /\ n \in Nat /\ n % 4 = 0 /\ n <= StackLimit /\ DOMAIN c = 0 .. n - 1
      /\ bot \in Nat /\ bot < a /\ bot <= StackBot /\ DataTop < bot
  BY GrowShape
<1>2. Segment(stack', StackLimit) /\ SizeOf(stack') = n
  BY <1>1, SegmentMade, Layout
<1>. DEFINE w(b) == (b - TextBot) \div 4
<1>3. ASSUME NEW b \in Nat
      PROVE  Cell(b)' = IF InData(b) THEN data[b - DataBot]
                        ELSE IF bot <= b /\ b < StackTop THEN stack'[b - bot]
                        ELSE IF InText(b) /\ text[w(b)] # Empty THEN text[w(b)][(b % 4) + 1] ELSE 0
  BY <1>2, CellNext DEF InData, DataTop
<1>4. ASSUME NEW b \in Nat, bot <= b, b < StackTop PROVE Cell(b)' = stack'[b - bot]
  <2>1. ~InData(b)
    BY <1>1, <1>4, Bounds DEF InData
  <2>. QED BY <1>3, <1>4, <2>1
<1>5. ASSUME NEW b \in Nat, ~(bot <= b /\ b < StackTop) PROVE Cell(b)' = Cell(b)
  <2>1. ~InStack(b)
    BY SMTT(40), <1>1, <1>5, Bounds, Layout DEF InStack
  <2>. QED BY <1>3, <1>5, <2>1 DEF Cell, TextWord
<1>. QED BY <1>2, <1>4, <1>5

LEMMA ReadMemStep ==
    ASSUME MemInv, NEW a \in Addresses, NEW size \in Sizes, ReadMem(a, size)
    PROVE  MemInv'
<1>0. a \in Nat
  BY Layout DEF Addresses
<1>1. CASE Kind(a, size) # "grow"
  <2>1. UNCHANGED <<text, data, stack, written, stores>>
    BY <1>1 DEF ReadMem
  <2>. QED BY <2>1 DEF MemInv, Segment, SizeOf, Cell, InData, InStack, InText, TextWord,
                       DataTop, StackBot
<1>2. CASE Kind(a, size) = "grow"
  <2>. DEFINE n == NewStackSize(a)  bot == StackTop - n  c == Copied(stack, n)
  <2>1. GrowsStack(a) /\ ~(NewStackSize(a) > StackLimit)
    BY <1>0, <1>2, KindShape
  <2>2. stack' = c /\ UNCHANGED <<text, data, written, stores>>
    BY <1>2 DEF ReadMem
  <2>. HIDE DEF n, c
  <2>3. n = NewStackSize(a) /\ c = Copied(stack, n)
    BY DEF n, c
  <2>. HIDE DEF bot
  <2>4. bot = StackTop - n
    BY DEF bot
  <2>5. \A b \in Nat : (bot <= b /\ b < StackTop) => c[b - bot] = Cell(b)
    BY <1>0, <2>1, <2>3, <2>4, GrowShape
  <2>6. /\ Segment(stack', StackLimit)
        /\ \A b \in Nat : (bot <= b /\ b < StackTop) => Cell(b)' = stack'[b - bot]
        /\ \A b \in Nat : ~(bot <= b /\ b < StackTop) => Cell(b)' = Cell(b)
    BY <1>0, <2>1, <2>2, <2>3, <2>4, GrownCells
  <2>7. \A b \in Addresses : written'[b] = Cell(b)'
    <3>1. \A b \in Addresses : b \in Nat
      BY Layout DEF Addresses
    <3>. QED BY <2>2, <2>5, <2>6, <3>1 DEF MemInv
  <2>8. Segment(data', DataLimit)
    BY <2>2 DEF MemInv, Segment, SizeOf
  <2>. QED BY <2>2, <2>6, <2>7, <2>8 DEF MemInv
<1>. QED BY <1>1, <1>2

LEMMA SbrkStep == ASSUME MemInv, NEW n \in Breaks, Sbrk(n) PROVE MemInv'
<1>. DEFINE size0 == SizeOf(data)  r == RoundUp(n)  new == size0 + r
            fails == n < 0 \/ new > DataLimit
<1>1. n \in Int
  BY MemoryAssumption
<1>2. UNCHANGED <<text, stack, written, stores>>
  BY DEF Sbrk
<1>3. CASE fails
  <2>1. UNCHANGED data
    BY <1>3 DEF Sbrk
  <2>. QED BY <1>2, <2>1 DEF MemInv, Segment, SizeOf, Cell, InData, InStack, InText, TextWord,
                             DataTop, StackBot
<1>4. CASE ~fails
  <2>1. data' = [i \in 0 .. new - 1 |-> IF i < size0 THEN data[i] ELSE 0]
    BY <1>4 DEF Sbrk
  <2>2. size0 \in Nat /\ size0 % 4 = 0 /\ DataTop = DataBot + size0
    BY Layout DEF MemInv, Segment, DataTop
  <2>3. r \in Nat /\ r % 4 = 0
    BY <1>1, <1>4 DEF RoundUp
  <2>. HIDE DEF size0, r
  <2>4. new \in Nat /\ new % 4 = 0 /\ new <= DataLimit /\ new >= size0
    <3>1. new \in Nat /\ new >= size0
      BY <2>2, <2>3
    <3>2. new % 4 = 0
      BY <2>2, <2>3
    <3>. HIDE DEF new
    <3>3. new <= DataLimit
      BY <1>4, <3>1, Layout
    <3>. QED BY <3>1, <3>2, <3>3
  <2>. HIDE DEF new
  <2>5. Segment(data', DataLimit) /\ SizeOf(data') = new
    <3>1. DOMAIN data' = 0 .. new - 1
      BY <2>1
    <3>. QED BY <2>4, <3>1, SegmentMade, Layout
  <2>6. SizeOf(stack') = SizeOf(stack) /\ StackBot = StackTop - SizeOf(stack)
    BY <1>2 DEF StackBot
  <2>7. ASSUME NEW b \in Addresses PROVE Cell(b)' = Cell(b)
    <3>1. b \in Nat
      BY Layout DEF Addresses
    <3>2. Cell(b)' = IF DataBot <= b /\ b < DataBot + new THEN data'[b - DataBot]
                     ELSE IF InStack(b) THEN stack[b - StackBot]
                     ELSE IF InText(b) /\ TextWord(b) # Empty THEN TextWord(b)[(b % 4) + 1] ELSE 0
      BY <1>2, <2>5, <2>6, <3>1, CellNext DEF InStack, TextWord
    <3>3. CASE InData(b)
      <4>1. DataBot <= b /\ b < DataBot + new /\ b - DataBot \in 0 .. new - 1 /\ b - DataBot < size0
        BY <2>2, <2>4, <3>1, <3>3, Layout DEF InData
      <4>. QED BY <2>1, <3>1, <3>2, <3>3, <4>1, CellOf
    <3>4. CASE ~InData(b) /\ DataBot <= b /\ b < DataBot + new
      <4>1. b - DataBot \in 0 .. new - 1 /\ ~(b - DataBot < size0)
        BY <2>2, <2>4, <3>1, <3>4, Layout DEF InData
      <4>2. ~InStack(b) /\ ~InText(b)
        BY <2>4, <3>1, <3>4, Bounds, Layout DEF InStack, InText
      <4>3. Cell(b) = 0
        BY <3>1, <3>4, <4>2, CellOf
      <4>. QED BY <2>1, <3>2, <3>4, <4>1, <4>3
    <3>5. CASE ~InData(b) /\ ~(DataBot <= b /\ b < DataBot + new)
      BY <3>2, <3>5 DEF Cell
    <3>. QED BY <3>3, <3>4, <3>5
  <2>8. Segment(stack', StackLimit)
    BY <1>2 DEF MemInv, Segment, SizeOf
  <2>. QED BY <1>2, <2>5, <2>7, <2>8 DEF MemInv
<1>. QED BY <1>3, <1>4

LEMMA PatchedShape ==
    ASSUME NEW seg, NEW i \in Int, NEW v, NEW size \in Nat, Len(v) = size
    PROVE  /\ DOMAIN Patched(seg, i, v) = DOMAIN seg
           /\ \A k \in Int : k \in DOMAIN seg =>
                Patched(seg, i, v)[k] = IF i <= k /\ k < i + size THEN v[k - i + 1] ELSE seg[k]
BY DEF Patched

\* Two bytes of one word of text.
LEMMA SameWord ==
    ASSUME NEW a \in Nat, NEW b \in Nat
    PROVE  /\ (b - TextBot) \div 4 = (a - TextBot) \div 4 => (b % 4) - (a % 4) = b - a
           /\ a % 4 \in 0 .. 3 /\ b % 4 \in 0 .. 3
BY Layout

\* set_mem_byte, set_mem_half and set_mem_word write the bytes at the address, in
\* the segment it lies in, and no others.
LEMMA SetMemStep ==
    ASSUME MemInv, NEW a \in Addresses, NEW size \in Sizes, NEW v,
           Len(v) = size, DOMAIN v = 1 .. size, SetMem(a, v)
    PROVE  MemInv'
<1>. DEFINE kind == Kind(a, size)
            In(b) == a <= b /\ b < a + size
<1>0. a \in Nat /\ a >= TextBot /\ size \in Nat /\ size <= 4
  BY Layout DEF Addresses, Sizes
<1>1. stores' \in Nat
  BY DEF SetMem, MemInv
<1>2. /\ (kind = "data") <=> (Aligned(a, size) /\ InData(a))
      /\ (kind = "stack") <=> (Aligned(a, size) /\ InStack(a))
      /\ (kind = "text") <=> (Aligned(a, size) /\ InText(a))
      /\ (kind = "grow") <=> (Aligned(a, size) /\ GrowsStack(a) /\ ~(NewStackSize(a) > StackLimit))
      /\ kind \in Faults \cup {"data", "stack", "text", "grow"}
  BY <1>0, KindShape
<1>3. CASE kind \in Faults
  <2>1. UNCHANGED <<data, text, written>>
    BY <1>3 DEF SetMem, Faults
  <2>2. UNCHANGED stack
    BY <1>3 DEF SetMem, Faults
  <2>. QED BY <1>1, <2>1, <2>2 DEF MemInv, Segment, SizeOf, Cell, InData, InStack, InText, TextWord,
                             DataTop, StackBot
<1>4. ASSUME kind \notin Faults
      PROVE  /\ DOMAIN written' = Addresses
             /\ \A b \in Addresses : written'[b] = IF In(b) THEN v[b - a + 1] ELSE Cell(b)
  <2>1. written' = Patched(written, a, v)
    BY <1>4 DEF SetMem
  <2>2. \A b \in Addresses : b \in Int
    BY Layout DEF Addresses
  <2>3. /\ DOMAIN written' = DOMAIN written
        /\ \A b \in Int : b \in DOMAIN written =>
             written'[b] = IF a <= b /\ b < a + size THEN v[b - a + 1] ELSE written[b]
    BY <1>0, <2>1, PatchedShape
  <2>4. DOMAIN written = Addresses /\ \A b \in Addresses : written[b] = Cell(b)
    BY DEF MemInv
  <2>. QED BY <2>2, <2>3, <2>4
<1>5. ASSUME Aligned(a, size), NEW b \in Nat, In(b)
      PROVE  /\ InData(b) <=> InData(a)
             /\ InStack(b) <=> InStack(a)
             /\ InText(b) <=> InText(a)
             /\ GrowsStack(a) => b < StackBot
             /\ InText(a) => (b - TextBot) \div 4 = (a - TextBot) \div 4
  <2>1. b \in Int /\ a <= b /\ b < a + size
    BY <1>5
  <2>2. (b - TextBot) \div 4 = (a - TextBot) \div 4
    <3>1. \A m \in Nat : m % 4 = 0 => (b - m) \div 4 = (a - m) \div 4
      BY <1>0, <1>5, <2>1, Together
    <3>. QED BY <3>1, Layout
  <2>. QED BY <1>0, <1>5, <2>1, <2>2, Whole
<1>6. \A b \in Addresses : b \in Nat
  BY Layout DEF Addresses
<1>7. CASE kind = "data"
  <2>1. data' = Patched(data, a - DataBot, v) /\ UNCHANGED text
    BY <1>7 DEF SetMem, Faults
  <2>2. UNCHANGED stack
    BY <1>7 DEF SetMem
  <2>3. a - DataBot \in Int
    BY <1>0, Layout
  <2>4. /\ DOMAIN data' = DOMAIN data
        /\ \A k \in Int : k \in DOMAIN data =>
             data'[k] = IF a - DataBot <= k /\ k < a - DataBot + size THEN v[k - (a - DataBot) + 1] ELSE data[k]
    BY <1>0, <2>1, <2>3, PatchedShape
  <2>5. SizeOf(data') = SizeOf(data) /\ SizeOf(stack') = SizeOf(stack)
    BY <2>2, <2>4 DEF SizeOf
  <2>6. ASSUME NEW b \in Nat
        PROVE  Cell(b)' = IF In(b) THEN v[b - a + 1] ELSE Cell(b)
    <3>1. Cell(b)' = IF InData(b) THEN data'[b - DataBot] ELSE Cell(b)
      BY <2>1, <2>2, <2>5, CellNext DEF Cell, InData, InStack, DataTop, StackBot, TextWord
    <3>2. CASE InData(b)
      <4>1. b - DataBot \in Int /\ b - DataBot \in DOMAIN data
        <5>1. DOMAIN data = 0 .. SizeOf(data) - 1 /\ SizeOf(data) \in Nat
          BY Layout DEF MemInv, Segment
        <5>2. DataBot <= b /\ b < DataBot + SizeOf(data)
          BY <3>2 DEF InData, DataTop
        <5>. QED BY <5>1, <5>2, Layout
      <4>2. /\ (a - DataBot <= b - DataBot /\ b - DataBot < a - DataBot + size) <=> In(b)
            /\ b - DataBot - (a - DataBot) + 1 = b - a + 1
        BY <1>0, Layout
      <4>. QED BY <2>4, <3>1, <3>2, <4>1, <4>2, CellOf
    <3>3. CASE ~InData(b)
      BY <1>2, <1>5, <1>7, <3>1, <3>3
    <3>. QED BY <3>2, <3>3
  <2>7. \A b \in Addresses : written'[b] = Cell(b)'
    BY <1>4, <1>6, <1>7, <2>6 DEF Faults
  <2>8. Segment(data', DataLimit) /\ Segment(stack', StackLimit)
    BY <2>2, <2>4, <2>5 DEF MemInv, Segment
  <2>. QED BY <1>1, <1>4, <1>7, <2>1, <2>7, <2>8 DEF MemInv, Faults
<1>8. CASE kind = "stack"
  <2>1. UNCHANGED <<data, text>>
    BY <1>8 DEF SetMem, Faults
  <2>2. stack' = Patched(stack, a - StackBot, v)
    BY <1>8 DEF SetMem
  <2>3. a - StackBot \in Int /\ StackBot \in Nat
    BY <1>0, Bounds
  <2>4. /\ DOMAIN stack' = DOMAIN stack
        /\ \A k \in Int : k \in DOMAIN stack =>
             stack'[k] = IF a - StackBot <= k /\ k < a - StackBot + size THEN v[k - (a - StackBot) + 1] ELSE stack[k]
    BY <1>0, <2>2, <2>3, PatchedShape
  <2>5. SizeOf(data') = SizeOf(data) /\ SizeOf(stack') = SizeOf(stack)
    BY <2>1, <2>4 DEF SizeOf
  <2>6. ASSUME NEW b \in Nat
        PROVE  Cell(b)' = IF In(b) THEN v[b - a + 1] ELSE Cell(b)
    <3>1. Cell(b)' = IF ~InData(b) /\ InStack(b) THEN stack'[b - StackBot] ELSE Cell(b)
      BY <2>1, <2>5, CellNext DEF Cell, InData, InStack, DataTop, StackBot, TextWord
    <3>2. CASE InStack(b)
      <4>1. b - StackBot \in Int /\ b - StackBot \in DOMAIN stack
        <5>1. DOMAIN stack = 0 .. SizeOf(stack) - 1 /\ SizeOf(stack) \in Nat
          BY Layout DEF MemInv, Segment
        <5>2. StackBot <= b /\ b < StackTop /\ StackBot = StackTop - SizeOf(stack)
          BY <3>2 DEF InStack, StackBot
        <5>. QED BY <2>3, <5>1, <5>2, Layout
      <4>2. /\ (a - StackBot <= b - StackBot /\ b - StackBot < a - StackBot + size) <=> In(b)
            /\ b - StackBot - (a - StackBot) + 1 = b - a + 1
        BY <1>0, <2>3
      <4>3. ~InData(b)
        BY <3>2, Regions
      <4>. QED BY <2>4, <3>1, <3>2, <4>1, <4>2, <4>3, CellOf
    <3>3. CASE ~InStack(b)
      BY <1>2, <1>5, <1>8, <3>1, <3>3
    <3>. QED BY <3>2, <3>3
  <2>7. \A b \in Addresses : written'[b] = Cell(b)'
    BY <1>4, <1>6, <1>8, <2>6 DEF Faults
  <2>8. Segment(data', DataLimit) /\ Segment(stack', StackLimit)
    BY <2>1, <2>4, <2>5 DEF MemInv, Segment
  <2>. QED BY <1>1, <1>4, <1>8, <2>1, <2>7, <2>8 DEF MemInv, Faults
<1>9. CASE kind = "grow"
  <2>. DEFINE n == NewStackSize(a)  bot == StackTop - n  c == Copied(stack, n)
  <2>1. UNCHANGED <<data, text>>
    BY <1>9 DEF SetMem, Faults
  <2>2. stack' = Patched(c, a - bot, v)
    BY <1>9 DEF SetMem
  <2>3. GrowsStack(a) /\ ~(NewStackSize(a) > StackLimit)
    BY <1>2, <1>9
  <2>. HIDE DEF n, c
  <2>4. n = NewStackSize(a) /\ c = Copied(stack, n) /\ bot = StackTop - n
    BY DEF n, c
  <2>. HIDE DEF bot
  <2>5. /\ n \in Nat /\ DOMAIN c = 0 .. n - 1 /\ bot \in Nat /\ bot < a /\ bot <= StackBot
        /\ \A b \in Nat : (bot <= b /\ b < StackTop) => c[b - bot] = Cell(b)
    BY <1>0, <2>3, <2>4, GrowShape
  <2>6. a - bot \in Int
    BY <1>0, <2>5
  <2>7. /\ DOMAIN stack' = DOMAIN c
        /\ \A k \in Int : k \in DOMAIN c =>
             stack'[k] = IF a - bot <= k /\ k < a - bot + size THEN v[k - (a - bot) + 1] ELSE c[k]
    BY <1>0, <2>2, <2>6, PatchedShape
  <2>8. /\ Segment(stack', StackLimit)
        /\ \A b \in Nat : (bot <= b /\ b < StackTop) => Cell(b)' = stack'[b - bot]
        /\ \A b \in Nat : ~(bot <= b /\ b < StackTop) => Cell(b)' = Cell(b)
    BY <1>0, <2>1, <2>3, <2>4, <2>7, GrownCells
  <2>9. ASSUME NEW b \in Nat
        PROVE  Cell(b)' = IF In(b) THEN v[b - a + 1] ELSE Cell(b)
    <3>1. CASE bot <= b /\ b < StackTop
      <4>1. b - bot \in Int /\ b - bot \in DOMAIN c
        <5>1. StackTop = bot + n /\ bot \in Nat /\ n \in Nat
          BY <2>4, <2>5, Layout
        <5>2. b - bot \in Int /\ b - bot >= 0 /\ b - bot < n
          BY <3>1, <5>1
        <5>. QED BY <2>5, <5>1, <5>2
      <4>2. /\ (a - bot <= b - bot /\ b - bot < a - bot + size) <=> In(b)
            /\ b - bot - (a - bot) + 1 = b - a + 1
        BY <1>0, <2>5
      <4>. QED BY <2>5, <2>7, <2>8, <3>1, <4>1, <4>2
    <3>2. CASE ~(bot <= b /\ b < StackTop)
      <4>1. ASSUME In(b) PROVE FALSE
        <5>1. b < StackBot
          BY <1>2, <1>5, <1>9, <4>1
        <5>. QED BY <1>0, <2>5, <3>2, <4>1, <5>1, Bounds, Layout
      <4>. QED BY <2>8, <3>2, <4>1
    <3>. QED BY <3>1, <3>2
  <2>10. \A b \in Addresses : written'[b] = Cell(b)'
    BY <1>4, <1>6, <1>9, <2>9 DEF Faults
  <2>11. Segment(data', DataLimit)
    BY <2>1 DEF MemInv, Segment, SizeOf
  <2>. QED BY <1>1, <1>4, <1>9, <2>1, <2>8, <2>10, <2>11 DEF MemInv, Faults
<1>10. CASE kind = "text"
  <2>. DEFINE w(b) == (b - TextBot) \div 4
              word == IF size = 4 THEN v ELSE Patched(text[w(a)], (a % 4) + 1, v)
  <2>1. UNCHANGED <<data, stack>>
    BY <1>10 DEF SetMem, Faults
  <2>2. text' = [text EXCEPT ![w(a)] = word]
    BY <1>10 DEF SetMem
  <2>3. InText(a) /\ Aligned(a, size) /\ w(a) \in 0 .. TextWords - 1
    <3>1. InText(a) /\ Aligned(a, size)
      BY <1>2, <1>10
    <3>. QED BY <1>0, <3>1, Layout DEF InText
  <2>4. size = 4 \/ text[w(a)] # Empty
    BY <2>3 DEF SetMem, Instruction, TextWord
  <2>. HIDE DEF word
  <2>5. /\ DOMAIN text' = DOMAIN text /\ text'[w(a)] = word
        /\ \A u \in DOMAIN text : u # w(a) => text'[u] = text[u]
    BY <2>2, <2>3 DEF MemInv
  <2>6. /\ DOMAIN word = 1 .. 4
        /\ \A b \in Nat : w(b) = w(a) =>
             word[(b % 4) + 1] = IF In(b) THEN v[b - a + 1] ELSE text[w(a)][(b % 4) + 1]
    <3>1. CASE size = 4
      <4>1. word = v /\ a % 4 = 0
        BY <2>3, <3>1 DEF word, Aligned
      <4>2. ASSUME NEW b \in Nat, w(b) = w(a) PROVE In(b) /\ (b % 4) + 1 = b - a + 1
        <5>1. (b % 4) - (a % 4) = b - a /\ b % 4 \in 0 .. 3
          BY <1>0, <4>2, SameWord
        <5>. QED BY <1>0, <3>1, <4>1, <5>1
      <4>. QED BY <3>1, <4>1, <4>2
    <3>2. CASE size # 4
      <4>. DEFINE word0 == text[w(a)]  i == (a % 4) + 1
      <4>1. word = Patched(word0, i, v) /\ DOMAIN word0 = 1 .. 4 /\ i \in Int
        BY <1>0, <2>3, <2>4, <3>2 DEF word, MemInv
      <4>. HIDE DEF word0
      <4>2. /\ DOMAIN word = 1 .. 4
            /\ \A k \in Int : k \in 1 .. 4 =>
                 word[k] = IF i <= k /\ k < i + size THEN v[k - i + 1] ELSE word0[k]
        <5>. HIDE DEF i
        <5>1. /\ DOMAIN word = DOMAIN word0
              /\ \A k \in Int : k \in DOMAIN word0 =>
                   word[k] = IF i <= k /\ k < i + size THEN v[k - i + 1] ELSE word0[k]
          BY <1>0, <4>1, PatchedShape
        <5>. QED BY <4>1, <5>1
      <4>3. ASSUME NEW b \in Nat, w(b) = w(a)
            PROVE  word[(b % 4) + 1] = IF In(b) THEN v[b - a + 1] ELSE word0[(b % 4) + 1]
        <5>. DEFINE k == (b % 4) + 1
        <5>1. (b % 4) - (a % 4) = b - a /\ b % 4 \in 0 .. 3 /\ a % 4 \in 0 .. 3
          BY <1>0, <4>3, SameWord
        <5>2. k \in Int /\ k \in 1 .. 4 /\ k - i + 1 = b - a + 1 /\ ((i <= k /\ k < i + size) <=> In(b))
          BY <1>0, <5>1
        <5>. HIDE DEF k, i
        <5>. QED BY <4>2, <5>2 DEF k
      <4>. QED BY <4>2, <4>3 DEF word0
    <3>. QED BY <3>1, <3>2
  <2>7. word # Empty
    <3>1. DOMAIN Empty = {} /\ 1 \in 1 .. 4
      BY DEF Empty
    <3>. QED BY <2>6, <3>1
  <2>8. SizeOf(data') = SizeOf(data) /\ SizeOf(stack') = SizeOf(stack)
    BY <2>1
  <2>9. ASSUME NEW b \in Nat
        PROVE  Cell(b)' = IF In(b) THEN v[b - a + 1] ELSE Cell(b)
    <3>1. ~InText(b) => Cell(b)' = Cell(b)
      BY <2>1, <2>8, CellNext DEF Cell, InData, InStack, DataTop, StackBot
    <3>2. InText(b) => Cell(b)' = IF text'[w(b)] # Empty THEN text'[w(b)][(b % 4) + 1] ELSE 0
      <4>1. InText(b) => ~InData(b) /\ ~InStack(b)
        BY Regions
      <4>. QED BY <2>1, <2>8, <4>1, CellNext DEF InData, InStack, DataTop, StackBot
    <3>3. InText(b) => Cell(b) = IF text[w(b)] # Empty THEN text[w(b)][(b % 4) + 1] ELSE 0
      BY CellOf DEF TextWord
    <3>4. In(b) => InText(b) /\ w(b) = w(a)
      BY <1>5, <2>3
    <3>5. CASE ~InText(b)
      BY <3>1, <3>4, <3>5
    <3>6. CASE InText(b) /\ w(b) = w(a)
      <4>1. Cell(b)' = word[(b % 4) + 1]
        BY <2>5, <2>7, <3>2, <3>6
      <4>2. CASE In(b)
        BY <2>6, <3>6, <4>1, <4>2
      <4>3. CASE ~In(b)
        <5>1. size # 4
          <6>1. (b % 4) - (a % 4) = b - a /\ b % 4 \in 0 .. 3
            BY <1>0, <3>6, SameWord
          <6>. QED BY <1>0, <2>3, <4>3, <6>1 DEF Aligned
        <5>. QED BY <2>4, <2>6, <3>3, <3>6, <4>1, <4>3, <5>1
      <4>. QED BY <4>2, <4>3
    <3>7. CASE InText(b) /\ w(b) # w(a)
      <4>1. w(b) \in DOMAIN text
        BY SMTT(40), <3>7, Layout DEF InText, MemInv
      <4>. QED BY <2>5, <3>2, <3>3, <3>4, <3>7, <4>1
    <3>. QED BY <3>5, <3>6, <3>7
  <2>10. \A b \in Addresses : written'[b] = Cell(b)'
    BY <1>4, <1>6, <1>10, <2>9 DEF Faults
  <2>11. Segment(data', DataLimit) /\ Segment(stack', StackLimit)
    BY <2>1 DEF MemInv, Segment, SizeOf
  <2>12. \A u \in 0 .. TextWords - 1 : text'[u] = Empty \/ DOMAIN text'[u] = 1 .. 4
    BY <2>5, <2>6 DEF MemInv
  <2>. QED BY <1>1, <1>4, <1>10, <2>5, <2>10, <2>11, <2>12 DEF MemInv, Faults
<1>. QED BY <1>2, <1>3, <1>7, <1>8, <1>9, <1>10

\* Every byte, half and word read holds what was stored at its addresses last, in
\* whatever sizes: blocks that sbrk and the stack move keep their contents at the
\* same addresses, and the segments never meet.
THEOREM MemoryIsWritten == Spec => []MemoryKept
<1>1. Init => MemInv
  BY Apart, MemStart
<1>2. ASSUME MemInv, MemNext PROVE MemInv'
  <2>1. ASSUME NEW a \in Addresses, NEW size \in Sizes, ReadMem(a, size) PROVE MemInv'
    BY <1>2, <2>1, ReadMemStep
  <2>2. ASSUME NEW a \in Addresses, NEW size \in Sizes, SetMem(a, [k \in 1 .. size |-> 4 * stores + k])
        PROVE  MemInv'
    <3>. DEFINE v == [k \in 1 .. size |-> 4 * stores + k]
    <3>1. size \in Nat /\ stores \in Nat
      BY <1>2 DEF Sizes, MemInv
    <3>2. v \in Seq(Int) /\ Len(v) = size /\ DOMAIN v = 1 .. size
      BY <3>1
    <3>. HIDE DEF v
    <3>3. SetMem(a, v)
      BY <2>2 DEF v
    <3>. QED BY <1>2, <3>2, <3>3, SetMemStep
  <2>3. ASSUME NEW n \in Breaks, Sbrk(n) PROVE MemInv'
    BY <1>2, <2>3, SbrkStep
  <2>. QED BY <1>2, <2>1, <2>2, <2>3 DEF MemNext
<1>3. ASSUME MemInv, UNCHANGED memVars PROVE MemInv'
  BY <1>3 DEF memVars, MemInv, Segment, SizeOf, Cell, InData, InStack, InText, TextWord, DataTop, StackBot
<1>4. MemInv /\ [Next]_vars => MemInv'
  <2>1. UNCHANGED vars => UNCHANGED memVars
    BY DEF vars, memVars
  <2>. QED BY <1>2, <1>3, <2>1, Apart
<1>. QED BY <1>1, <1>4, MemoryIsKept, PTL DEF Spec

-----------------------------------------------------------------------------
(* Instruction codes *)

Keys == {"op", "rs", "rt", "rd", "sa", "fn"}
\* The types inst_decode reads back.
ReadTypes == AllTypes \ {"MOVC", "BC", "FP_R2ds", "FP_R3", "FP_CMP", "FP_MOVC"}

\* The type of the instruction with an opcode, from the opcode's fields alone.
Owner(c) ==
    IF c.op = 0 THEN
       IF c.fn \in {8, 17, 19} THEN "R1s" ELSE IF c.fn \in {13, 16, 18} THEN "R1d"
       ELSE IF c.fn \in {24, 25, 26, 27, 48, 49, 50, 51, 52, 54} THEN "R2st"
       ELSE IF c.fn = 9 THEN "R2ds" ELSE IF c.fn \in {0, 2, 3} THEN "R2sh"
       ELSE IF c.fn \in {4, 6, 7} THEN "R3sh" ELSE IF c.fn \in {12, 15} THEN "NOARG"
       ELSE IF c.fn = 1 THEN "MOVC" ELSE "R3"
    ELSE IF c.op = 28 THEN IF c.fn \in {0, 1, 4, 5} THEN "R2st" ELSE "R3"
    ELSE IF c.op = 1 THEN IF c.rt \in {8, 9, 10, 11, 12, 14} THEN "I1s" ELSE "B1"
    ELSE IF c.op = 16 THEN IF c.rs \in {0, 4} THEN "R2td" ELSE IF c.rs = 16 THEN "NOARG" ELSE "FP_R2ts"
    ELSE IF c.op = 18 THEN IF c.rs \in {0, 4} THEN "R2td" ELSE IF c.rs = 8 THEN "BC" ELSE "FP_R2ts"
    ELSE IF c.op = 17 THEN
       IF c.rs = 8 THEN "BC" ELSE IF c.rs \in {0, 2, 4, 6} THEN "FP_R2ts"
       ELSE IF c.fn \in 0 .. 3 THEN "FP_R3" ELSE IF c.fn \in 48 .. 63 THEN "FP_CMP"
       ELSE IF c.fn \in {17, 18, 19} THEN "FP_MOVC" ELSE "FP_R2ds"
    ELSE IF c.op \in {6, 7, 22, 23} THEN "B1" ELSE IF c.op = 15 THEN "I1t"
    ELSE IF c.op \in {8, 9, 10, 11, 12, 13, 14, 47, 51} THEN "I2"
    ELSE IF c.op \in {4, 5, 20, 21} THEN "B2" ELSE IF c.op \in {2, 3} THEN "J"
    ELSE IF c.op \in {49, 53, 57, 61} THEN "FP_I2a" ELSE "I2a"

LEMMA OpcodeShape ==
    ASSUME NEW o, NEW s, NEW t, NEW f, NEW c, c = Opcode(o, s, t, f)
    PROVE  /\ c = [k \in Keys |-> c[k]]
           /\ c.op = o /\ c.rs = s /\ c.rt = t /\ c.rd = 0 /\ c.sa = 0 /\ c.fn = f
BY DEF Opcode, Zero, Keys

\* Where an opcode has its bits, and that the fields of its instructions lie
\* elsewhere.
Placed(t, c) ==
    /\ c.op \in Nat /\ c.rd = 0 /\ c.sa = 0
    /\ \/ c.op \in {0, 28} /\ c.rs = 0 /\ c.rt = 0 /\ c.fn \in Nat /\ "fn" \notin FieldsOf(t)
       \/ c.op = 1 /\ c.rs = 0 /\ c.rt \in Nat /\ c.fn = 0 /\ "rt" \notin FieldsOf(t)
       \/ /\ c.op \in {16, 17, 18} /\ c.rt = 0 /\ c.rs \in 0 .. 31 /\ c.fn \in 0 .. 31
          /\ FieldsOf(t) \subseteq {"rt", "rd"} /\ (c.op = 17 => c.rs \in 0 .. 7)
          /\ (c.op = 18 => c.fn = 0)
       \/ c.op \notin {0, 1, 16, 17, 18, 19, 28} /\ c.rs = 0 /\ c.rt = 0 /\ c.fn = 0

\* No opcode is in the table twice with different types.
LEMMA OneOwner ==
    ASSUME NEW t \in AllTypes, NEW c \in Codes(t)
    PROVE  /\ Owner(c) = t /\ c = [k \in Keys |-> c[k]]
           /\ t \in ReadTypes => Placed(t, c)
<1>1. CASE t = "B1"
  <2>1. PICK x, y, z, f :
           /\ c = Opcode(x, y, z, f)
           /\ \/ x = 1 /\ y = 0 /\ z \in {0, 1, 2, 3, 16, 17, 18, 19} /\ f = 0
              \/ x \in {6, 7, 22, 23} /\ y = 0 /\ z = 0 /\ f = 0
    BY <1>1 DEF Codes, Primary, Special, Special2, RegImm
  <2>2. Owner(c) = t /\ c = [k \in Keys |-> c[k]]
    BY <1>1, <2>1, OpcodeShape DEF Owner
  <2>3. c.op = x /\ c.rs = y /\ c.rt = z /\ c.fn = f /\ c.rd = 0 /\ c.sa = 0
    BY <2>1, OpcodeShape
  <2>4. Placed(t, c)
    BY <1>1, <2>1, <2>3 DEF Placed, FieldsOf, Immediate
  <2>. QED BY <2>2, <2>4
<1>2. CASE t = "I1s"
  <2>1. PICK x, y, z, f :
           /\ c = Opcode(x, y, z, f) /\ x = 1 /\ y = 0 /\ z \in {8, 9, 10, 11, 12, 14} /\ f = 0
    BY <1>2 DEF Codes, Primary, Special, Special2, RegImm
  <2>2. Owner(c) = t /\ c = [k \in Keys |-> c[k]]
    BY <1>2, <2>1, OpcodeShape DEF Owner
  <2>3. c.op = x /\ c.rs = y /\ c.rt = z /\ c.fn = f /\ c.rd = 0 /\ c.sa = 0
    BY <2>1, OpcodeShape
  <2>4. Placed(t, c)
    BY <1>2, <2>1, <2>3 DEF Placed, FieldsOf, Immediate
  <2>. QED BY <2>2, <2>4
<1>3. CASE t = "I1t"
  <2>1. PICK x, y, z, f :
           /\ c = Opcode(x, y, z, f) /\ x \in {15} /\ y = 0 /\ z = 0 /\ f = 0
    BY <1>3 DEF Codes, Primary, Special, Special2, RegImm
  <2>2. Owner(c) = t /\ c = [k \in Keys |-> c[k]]
    BY <1>3, <2>1, OpcodeShape DEF Owner
  <2>3. c.op = x /\ c.rs = y /\ c.rt = z /\ c.fn = f /\ c.rd = 0 /\ c.sa = 0
    BY <2>1, OpcodeShape
  <2>4. Placed(t, c)
    BY <1>3, <2>1, <2>3 DEF Placed, FieldsOf, Immediate
  <2>. QED BY <2>2, <2>4
<1>4. CASE t = "I2"
  <2>1. PICK x, y, z, f :
           /\ c = Opcode(x, y, z, f) /\ x \in {8, 9, 10, 11, 12, 13, 14, 47, 51} /\ y = 0 /\ z = 0 /\ f = 0
    BY <1>4 DEF Codes, Primary, Special, Special2, RegImm
  <2>2. Owner(c) = t /\ c = [k \in Keys |-> c[k]]
    BY <1>4, <2>1, OpcodeShape DEF Owner
  <2>3. c.op = x /\ c.rs = y /\ c.rt = z /\ c.fn = f /\ c.rd = 0 /\ c.sa = 0
    BY <2>1, OpcodeShape
  <2>4. Placed(t, c)
    BY <1>4, <2>1, <2>3 DEF Placed, FieldsOf, Immediate
  <2>. QED BY <2>2, <2>4
<1>5. CASE t = "B2"
  <2>1. PICK x, y, z, f :
           /\ c = Opcode(x, y, z, f) /\ x \in {4, 5, 20, 21} /\ y = 0 /\ z = 0 /\ f = 0
    BY <1>5 DEF Codes, Primary, Special, Special2, RegImm
  <2>2. Owner(c) = t /\ c = [k \in Keys |-> c[k]]
    BY <1>5, <2>1, OpcodeShape DEF Owner
  <2>3. c.op = x /\ c.rs = y /\ c.rt = z /\ c.fn = f /\ c.rd = 0 /\ c.sa = 0
    BY <2>1, OpcodeShape
  <2>4. Placed(t, c)
    BY <1>5, <2>1, <2>3 DEF Placed, FieldsOf, Immediate
  <2>. QED BY <2>2, <2>4
<1>6. CASE t = "I2a"
  <2>1. PICK x, y, z, f :
           /\ c = Opcode(x, y, z, f) /\ x \in {32, 33, 34, 35, 36, 37, 38, 40, 41, 42, 43, 46, 48, 50, 54, 56, 58, 62} /\ y = 0 /\ z = 0 /\ f = 0
    BY <1>6 DEF Codes, Primary, Special, Special2, RegImm
  <2>2. Owner(c) = t /\ c = [k \in Keys |-> c[k]]
    BY <1>6, <2>1, OpcodeShape DEF Owner
  <2>3. c.op = x /\ c.rs = y /\ c.rt = z /\ c.fn = f /\ c.rd = 0 /\ c.sa = 0
    BY <2>1, OpcodeShape
  <2>4. Placed(t, c)
    BY <1>6, <2>1, <2>3 DEF Placed, FieldsOf, Immediate
  <2>. QED BY <2>2, <2>4
<1>7. CASE t = "R1s"
  <2>1. PICK x, y, z, f :
           /\ c = Opcode(x, y, z, f) /\ x = 0 /\ y = 0 /\ z = 0 /\ f \in {8, 17, 19}
    BY <1>7 DEF Codes, Primary, Special, Special2, RegImm
  <2>2. Owner(c) = t /\ c = [k \in Keys |-> c[k]]
    BY <1>7, <2>1, OpcodeShape DEF Owner
  <2>3. c.op = x /\ c.rs = y /\ c.rt = z /\ c.fn = f /\ c.rd = 0 /\ c.sa = 0
    BY <2>1, OpcodeShape
  <2>4. Placed(t, c)
    BY <1>7, <2>1, <2>3 DEF Placed, FieldsOf, Immediate
  <2>. QED BY <2>2, <2>4
<1>8. CASE t = "R1d"
  <2>1. PICK x, y, z, f :
           /\ c = Opcode(x, y, z, f) /\ x = 0 /\ y = 0 /\ z = 0 /\ f \in {13, 16, 18}
    BY <1>8 DEF Codes, Primary, Special, Special2, RegImm
  <2>2. Owner(c) = t /\ c = [k \in Keys |-> c[k]]
    BY <1>8, <2>1, OpcodeShape DEF Owner
  <2>3. c.op = x /\ c.rs = y /\ c.rt = z /\ c.fn = f /\ c.rd = 0 /\ c.sa = 0
    BY <2>1, OpcodeShape
  <2>4. Placed(t, c)
    BY <1>8, <2>1, <2>3 DEF Placed, FieldsOf, Immediate
  <2>. QED BY <2>2, <2>4
<1>9. CASE t = "R2td"
  <2>1. PICK x, y, z, f :
           /\ c = Opcode(x, y, z, f) /\ x \in {16, 18} /\ y \in {0, 4} /\ z = 0 /\ f = 0
    BY <1>9 DEF Codes, Primary, Special, Special2, RegImm
  <2>2. Owner(c) = t /\ c = [k \in Keys |-> c[k]]
    BY <1>9, <2>1, OpcodeShape DEF Owner
  <2>3. c.op = x /\ c.rs = y /\ c.rt = z /\ c.fn = f /\ c.rd = 0 /\ c.sa = 0
    BY <2>1, OpcodeShape
  <2>4. Placed(t, c)
    BY <1>9, <2>1, <2>3 DEF Placed, FieldsOf, Immediate
  <2>. QED BY <2>2, <2>4
<1>10. CASE t = "R2st"
  <2>1. PICK x, y, z, f :
           /\ c = Opcode(x, y, z, f)
           /\ \/ x = 0 /\ y = 0 /\ z = 0 /\ f \in {24, 25, 26, 27, 48, 49, 50, 51, 52, 54}
              \/ x = 28 /\ y = 0 /\ z = 0 /\ f \in {0, 1, 4, 5}
    BY <1>10 DEF Codes, Primary, Special, Special2, RegImm
  <2>2. Owner(c) = t /\ c = [k \in Keys |-> c[k]]
    BY <1>10, <2>1, OpcodeShape DEF Owner
  <2>3. c.op = x /\ c.rs = y /\ c.rt = z /\ c.fn = f /\ c.rd = 0 /\ c.sa = 0
    BY <2>1, OpcodeShape
  <2>4. Placed(t, c)
    BY <1>10, <2>1, <2>3 DEF Placed, FieldsOf, Immediate
  <2>. QED BY <2>2, <2>4
<1>11. CASE t = "R2ds"
  <2>1. PICK x, y, z, f :
           /\ c = Opcode(x, y, z, f) /\ x = 0 /\ y = 0 /\ z = 0 /\ f \in {9}
    BY <1>11 DEF Codes, Primary, Special, Special2, RegImm
  <2>2. Owner(c) = t /\ c = [k \in Keys |-> c[k]]
    BY <1>11, <2>1, OpcodeShape DEF Owner
  <2>3. c.op = x /\ c.rs = y /\ c.rt = z /\ c.fn = f /\ c.rd = 0 /\ c.sa = 0
    BY <2>1, OpcodeShape
  <2>4. Placed(t, c)
    BY <1>11, <2>1, <2>3 DEF Placed, FieldsOf, Immediate
  <2>. QED BY <2>2, <2>4
<1>12. CASE t = "R2sh"
  <2>1. PICK x, y, z, f :
           /\ c = Opcode(x, y, z, f) /\ x = 0 /\ y = 0 /\ z = 0 /\ f \in {0, 2, 3}
    BY <1>12 DEF Codes, Primary, Special, Special2, RegImm
  <2>2. Owner(c) = t /\ c = [k \in Keys |-> c[k]]
    BY <1>12, <2>1, OpcodeShape DEF Owner
  <2>3. c.op = x /\ c.rs = y /\ c.rt = z /\ c.fn = f /\ c.rd = 0 /\ c.sa = 0
    BY <2>1, OpcodeShape
  <2>4. Placed(t, c)
    BY <1>12, <2>1, <2>3 DEF Placed, FieldsOf, Immediate
  <2>. QED BY <2>2, <2>4
<1>13. CASE t = "R3"
  <2>1. PICK x, y, z, f :
           /\ c = Opcode(x, y, z, f)
           /\ \/ x = 0 /\ y = 0 /\ z = 0 /\ f \in {10, 11, 32, 33, 34, 35, 36, 37, 38, 39, 42, 43}
              \/ x = 28 /\ y = 0 /\ z = 0 /\ f \in {2, 32, 33}
    BY <1>13 DEF Codes, Primary, Special, Special2, RegImm
  <2>2. Owner(c) = t /\ c = [k \in Keys |-> c[k]]
    BY <1>13, <2>1, OpcodeShape DEF Owner
  <2>3. c.op = x /\ c.rs = y /\ c.rt = z /\ c.fn = f /\ c.rd = 0 /\ c.sa = 0
    BY <2>1, OpcodeShape
  <2>4. Placed(t, c)
    BY <1>13, <2>1, <2>3 DEF Placed, FieldsOf, Immediate
  <2>. QED BY <2>2, <2>4
<1>14. CASE t = "R3sh"
  <2>1. PICK x, y, z, f :
           /\ c = Opcode(x, y, z, f) /\ x = 0 /\ y = 0 /\ z = 0 /\ f \in {4, 6, 7}
    BY <1>14 DEF Codes, Primary, Special, Special2, RegImm
  <2>2. Owner(c) = t /\ c = [k \in Keys |-> c[k]]
    BY <1>14, <2>1, OpcodeShape DEF Owner
  <2>3. c.op = x /\ c.rs = y /\ c.rt = z /\ c.fn = f /\ c.rd = 0 /\ c.sa = 0
    BY <2>1, OpcodeShape
  <2>4. Placed(t, c)
    BY <1>14, <2>1, <2>3 DEF Placed, FieldsOf, Immediate
  <2>. QED BY <2>2, <2>4
<1>15. CASE t = "J"
  <2>1. PICK x, y, z, f :
           /\ c = Opcode(x, y, z, f) /\ x \in {2, 3} /\ y = 0 /\ z = 0 /\ f = 0
    BY <1>15 DEF Codes, Primary, Special, Special2, RegImm
  <2>2. Owner(c) = t /\ c = [k \in Keys |-> c[k]]
    BY <1>15, <2>1, OpcodeShape DEF Owner
  <2>3. c.op = x /\ c.rs = y /\ c.rt = z /\ c.fn = f /\ c.rd = 0 /\ c.sa = 0
    BY <2>1, OpcodeShape
  <2>4. Placed(t, c)
    BY <1>15, <2>1, <2>3 DEF Placed, FieldsOf, Immediate
  <2>. QED BY <2>2, <2>4
<1>16. CASE t = "NOARG"
  <2>1. PICK x, y, z, f :
           /\ c = Opcode(x, y, z, f)
           /\ \/ x = 0 /\ y = 0 /\ z = 0 /\ f \in {12, 15}
              \/ x = 16 /\ y = 16 /\ z = 0 /\ f \in {1, 2, 6, 8, 16, 24}
    BY <1>16 DEF Codes, Primary, Special, Special2, RegImm
  <2>2. Owner(c) = t /\ c = [k \in Keys |-> c[k]]
    BY <1>16, <2>1, OpcodeShape DEF Owner
  <2>3. c.op = x /\ c.rs = y /\ c.rt = z /\ c.fn = f /\ c.rd = 0 /\ c.sa = 0
    BY <2>1, OpcodeShape
  <2>4. Placed(t, c)
    BY <1>16, <2>1, <2>3 DEF Placed, FieldsOf, Immediate
  <2>. QED BY <2>2, <2>4
<1>17. CASE t = "FP_I2a"
  <2>1. PICK x, y, z, f :
           /\ c = Opcode(x, y, z, f) /\ x \in {49, 53, 57, 61} /\ y = 0 /\ z = 0 /\ f = 0
    BY <1>17 DEF Codes, Primary, Special, Special2, RegImm
  <2>2. Owner(c) = t /\ c = [k \in Keys |-> c[k]]
    BY <1>17, <2>1, OpcodeShape DEF Owner
  <2>3. c.op = x /\ c.rs = y /\ c.rt = z /\ c.fn = f /\ c.rd = 0 /\ c.sa = 0
    BY <2>1, OpcodeShape
  <2>4. Placed(t, c)
    BY <1>17, <2>1, <2>3 DEF Placed, FieldsOf, Immediate
  <2>. QED BY <2>2, <2>4
<1>18. CASE t = "FP_R2ts"
  <2>1. PICK x, y, z, f :
           /\ c = Opcode(x, y, z, f)
           /\ \/ x = 17 /\ y \in {0, 2, 4, 6} /\ z = 0 /\ f = 0
              \/ x \in {16, 18} /\ y \in {2, 6} /\ z = 0 /\ f = 0
    BY <1>18 DEF Codes, Primary, Special, Special2, RegImm
  <2>2. Owner(c) = t /\ c = [k \in Keys |-> c[k]]
    BY <1>18, <2>1, OpcodeShape DEF Owner
  <2>3. c.op = x /\ c.rs = y /\ c.rt = z /\ c.fn = f /\ c.rd = 0 /\ c.sa = 0
    BY <2>1, OpcodeShape
  <2>4. Placed(t, c)
    BY <1>18, <2>1, <2>3 DEF Placed, FieldsOf, Immediate
  <2>. QED BY <2>2, <2>4
<1>19. CASE t = "MOVC"
  <2>1. PICK x, y, z, f :
           /\ c = Opcode(x, y, z, f) /\ x = 0 /\ y = 0 /\ z \in {0, 1} /\ f = 1
    BY <1>19 DEF Codes, Primary, Special, Special2, RegImm
  <2>2. Owner(c) = t /\ c = [k \in Keys |-> c[k]]
    BY <1>19, <2>1, OpcodeShape DEF Owner
  <2>. QED BY <1>19, <2>2 DEF ReadTypes
<1>20. CASE t = "BC"
  <2>1. PICK x, y, z, f :
           /\ c = Opcode(x, y, z, f) /\ x \in {17, 18} /\ y = 8 /\ z \in 0 .. 3 /\ f = 0
    BY <1>20 DEF Codes, Primary, Special, Special2, RegImm
  <2>2. Owner(c) = t /\ c = [k \in Keys |-> c[k]]
    BY <1>20, <2>1, OpcodeShape DEF Owner
  <2>. QED BY <1>20, <2>2 DEF ReadTypes
<1>21. CASE t = "FP_R2ds"
  <2>1. PICK x, y, z, f :
           /\ c = Opcode(x, y, z, f)
           /\ \/ x = 17 /\ y \in {16, 17} /\ z = 0 /\ f \in {4, 5, 6, 7, 12, 13, 14, 15, 33, 36}
              \/ x = 17 /\ y \in {17, 20} /\ z = 0 /\ f = 32
    BY <1>21 DEF Codes, Primary, Special, Special2, RegImm
  <2>2. Owner(c) = t /\ c = [k \in Keys |-> c[k]]
    BY <1>21, <2>1, OpcodeShape DEF Owner
  <2>. QED BY <1>21, <2>2 DEF ReadTypes
<1>22. CASE t = "FP_R3"
  <2>1. PICK x, y, z, f :
           /\ c = Opcode(x, y, z, f) /\ x = 17 /\ y \in {16, 17} /\ z = 0 /\ f \in 0 .. 3
    BY <1>22 DEF Codes, Primary, Special, Special2, RegImm
  <2>2. Owner(c) = t /\ c = [k \in Keys |-> c[k]]
    BY <1>22, <2>1, OpcodeShape DEF Owner
  <2>. QED BY <1>22, <2>2 DEF ReadTypes
<1>23. CASE t = "FP_CMP"
  <2>1. PICK x, y, z, f :
           /\ c = Opcode(x, y, z, f) /\ x = 17 /\ y \in {16, 17} /\ z = 0 /\ f \in 48 .. 63
    BY <1>23 DEF Codes, Primary, Special, Special2, RegImm
  <2>2. Owner(c) = t /\ c = [k \in Keys |-> c[k]]
    BY <1>23, <2>1, OpcodeShape DEF Owner
  <2>. QED BY <1>23, <2>2 DEF ReadTypes
<1>24. CASE t = "FP_MOVC"
  <2>1. PICK x, y, z, f :
           /\ c = Opcode(x, y, z, f) /\ x = 17 /\ y \in {16, 17} /\ z \in {0, 1} /\ f \in {17, 18, 19}
    BY <1>24 DEF Codes, Primary, Special, Special2, RegImm
  <2>2. Owner(c) = t /\ c = [k \in Keys |-> c[k]]
    BY <1>24, <2>1, OpcodeShape DEF Owner
  <2>. QED BY <1>24, <2>2 DEF ReadTypes
<1>. QED BY <1>1, <1>2, <1>3, <1>4, <1>5, <1>6, <1>7, <1>8, <1>9, <1>10, <1>11, <1>12, <1>13, <1>14, <1>15, <1>16, <1>17, <1>18, <1>19, <1>20, <1>21, <1>22, <1>23, <1>24 DEF AllTypes

\* inst_decode finds the opcode that inst_encode put into the word.
LEMMA ClassFound ==
    ASSUME NEW t \in ReadTypes, NEW c, c = [k \in Keys |-> c[k]], Placed(t, c),
           NEW w, DOMAIN w = Keys, w.op = c.op,
           \A k \in Keys : w[k] \in Nat /\ (k \notin FieldsOf(t) \/ k = "op" => w[k] = c[k])
    PROVE  Class(w) = c
<1>. DEFINE u == Class(w)
<1>1. DOMAIN Zero = Keys
  BY DEF Zero, Keys
<1>2. \A fs : Only(w, fs) = [f \in Keys |-> IF f \in fs \cup {"op"} THEN w[f] ELSE 0]
  BY <1>1 DEF Only
<1>3. c = [k \in Keys |-> c[k]] /\ Keys = {"op", "rs", "rt", "rd", "sa", "fn"}
  BY DEF Keys
<1>4. CASE c.op \in {0, 28} /\ c.rs = 0 /\ c.rt = 0 /\ c.fn \in Nat /\ "fn" \notin FieldsOf(t)
  <2>1. u = [f \in Keys |-> IF f \in {"fn", "op"} THEN w[f] ELSE 0]
    BY <1>2, <1>4 DEF Class
  <2>2. w["fn"] = c["fn"] /\ w["op"] = c["op"]
    BY <1>3, <1>4
  <2>3. c["rd"] = 0 /\ c["sa"] = 0 /\ c["rs"] = 0 /\ c["rt"] = 0
    BY <1>4 DEF Placed
  <2>4. \A k \in Keys : u[k] = c[k]
    BY <1>3, <2>1, <2>2, <2>3
  <2>. QED BY <2>1, <2>4
<1>5. CASE c.op = 1 /\ c.rs = 0 /\ c.rt \in Nat /\ c.fn = 0 /\ "rt" \notin FieldsOf(t)
  <2>1. u = [f \in Keys |-> IF f \in {"rt", "op"} THEN w[f] ELSE 0]
    BY <1>2, <1>5 DEF Class
  <2>2. w["rt"] = c["rt"] /\ w["op"] = c["op"]
    BY <1>3, <1>5
  <2>3. c["rd"] = 0 /\ c["sa"] = 0 /\ c["rs"] = 0 /\ c["fn"] = 0
    BY <1>5 DEF Placed
  <2>4. \A k \in Keys : u[k] = c[k]
    BY <1>3, <2>1, <2>2, <2>3
  <2>. QED BY <2>1, <2>4
<1>6. CASE /\ c.op \in {16, 17, 18} /\ c.rt = 0 /\ c.rs \in 0 .. 31 /\ c.fn \in 0 .. 31
           /\ FieldsOf(t) \subseteq {"rt", "rd"} /\ (c.op = 17 => c.rs \in 0 .. 7)
           /\ (c.op = 18 => c.fn = 0)
  <2>1. w["rs"] = c["rs"] /\ w["op"] = c["op"] /\ w["fn"] = c["fn"]
    BY <1>3, <1>6
  <2>2. c["rd"] = 0 /\ c["sa"] = 0 /\ c["rt"] = 0
    BY <1>6 DEF Placed
  <2>3. CASE c.op = 16
    <3>. DEFINE a == Only(w, {"rs"})
    <3>1. a = [f \in Keys |-> IF f \in {"rs", "op"} THEN w[f] ELSE 0]
      BY <1>2
    <3>2. u = [a EXCEPT !.fn = w.fn % 32]
      BY <2>3 DEF Class
    <3>. HIDE DEF a
    <3>3. w.fn % 32 = c["fn"]
      BY <1>6, <2>1
    <3>4. u = [f \in Keys |-> IF f = "fn" THEN c["fn"] ELSE a[f]]
      BY <3>1, <3>2, <3>3
    <3>5. \A k \in Keys : u[k] = c[k]
      BY <1>3, <2>1, <2>2, <3>1, <3>4
    <3>. QED BY <3>4, <3>5
  <2>4. CASE c.op = 17
    <3>1. w.rs \div 8 # 1
      BY <1>6, <2>1, <2>4
    <3>2. u = [f \in Keys |-> IF f \in {"rs", "fn", "op"} THEN w[f] ELSE 0]
      BY <1>2, <2>4, <3>1 DEF Class
    <3>3. \A k \in Keys : u[k] = c[k]
      BY <1>3, <2>1, <2>2, <3>2
    <3>. QED BY <3>2, <3>3
  <2>5. CASE c.op = 18
    <3>1. u = [f \in Keys |-> IF f \in {"rs", "op"} THEN w[f] ELSE 0]
      BY <1>2, <2>5 DEF Class
    <3>2. \A k \in Keys : u[k] = c[k]
      BY <1>3, <1>6, <2>1, <2>2, <2>5, <3>1
    <3>. QED BY <3>1, <3>2
  <2>. QED BY <1>6, <2>3, <2>4, <2>5
<1>7. CASE c.op \notin {0, 1, 16, 17, 18, 19, 28} /\ c.rs = 0 /\ c.rt = 0 /\ c.fn = 0
  <2>0. Class(w) = Only(w, {})
    BY <1>7 DEF Class
  <2>1. u = [f \in Keys |-> IF f \in {"op"} THEN w[f] ELSE 0]
    <3>1. Only(w, {}) = [f \in Keys |-> IF f \in {} \cup {"op"} THEN w[f] ELSE 0]
      BY <1>2
    <3>. QED BY <2>0, <3>1
  <2>2. w["op"] = c["op"]
    BY <1>3
  <2>3. c["rd"] = 0 /\ c["sa"] = 0 /\ c["rs"] = 0 /\ c["rt"] = 0 /\ c["fn"] = 0
    BY <1>7 DEF Placed
  <2>4. \A k \in Keys : u[k] = c[k]
    BY <1>3, <2>1, <2>2, <2>3
  <2>. QED BY <2>1, <2>4
<1>. QED BY <1>4, <1>5, <1>6, <1>7 DEF Placed

\* Jumps outside the first half of every 16 MB lose bit 24 of their target, and
\* some types are not read back: programs without them.
ReadsBack ==
    /\ CodedTypes \subseteq ReadTypes
    /\ "J" \in CodedTypes => \A n \in Samples : (n \div 8) % 2 = 0

LEMMA CodeInverts ==
    ASSUME ReadsBack, NEW t \in CodedTypes, NEW i \in Instructions(t)
    PROVE  Decoded(Encoded(i)) = i
<1>. DEFINE w == Encoded(i)
<1>0. t \in AllTypes /\ t \in ReadTypes /\ Samples \subseteq 0 .. 31
  BY CodeAssumption DEF ReadsBack
<1>1. PICK c \in Codes(t), v \in [Fields -> Samples] :
         i = [opcode |-> c, type |-> t, fields |-> [f \in Fields |-> IF f \in FieldsOf(t) THEN v[f] ELSE 0]]
  BY DEF Instructions
<1>. DEFINE fs == [f \in Fields |-> IF f \in FieldsOf(t) THEN v[f] ELSE 0]
<1>2. /\ Owner(c) = t /\ c = [k \in Keys |-> c[k]] /\ Placed(t, c)
  BY <1>0, OneOwner
<1>3. \A f \in Fields : fs[f] \in Nat /\ (f \notin FieldsOf(t) => fs[f] = 0)
  <2>1. \A f \in Fields : v[f] \in 0 .. 31
    BY <1>0, <1>1
  <2>2. \A f \in Fields : fs[f] = IF f \in FieldsOf(t) THEN v[f] ELSE 0
    OBVIOUS
  <2>. QED BY <2>1, <2>2
<1>. HIDE DEF fs
<1>4. i.opcode = c /\ i.type = t /\ i.fields = fs
  BY <1>1 DEF fs
<1>5. w = [f \in Keys |-> c[f] + IF f = "op" THEN 0 ELSE fs[f]]
  <2>1. DOMAIN Zero = Keys
    BY DEF Zero, Keys
  <2>2. \A f \in Keys : f # "op" => Put(i, f) = fs[f]
    BY <1>0, <1>4 DEF Put, ReadTypes
  <2>. QED BY <1>4, <2>1, <2>2 DEF Encoded
<1>. HIDE DEF w
<1>6. Keys = Fields \cup {"op"} /\ "op" \notin Fields
  BY DEF Keys, Fields
<1>7. \A k \in Keys : c[k] \in Nat /\ (k \in FieldsOf(t) /\ k # "op" => c[k] = 0)
  <2>1. FieldsOf(t) \subseteq Fields
    BY <1>0 DEF FieldsOf, Fields, AllTypes, Immediate
  <2>. QED BY <1>2 DEF Placed, Keys
<1>8. /\ DOMAIN w = Keys /\ w.op = c.op
      /\ \A k \in Keys : w[k] \in Nat /\ (k \notin FieldsOf(t) \/ k = "op" => w[k] = c[k])
  <2>1. "op" \in Keys
    BY DEF Keys
  <2>. QED BY <1>3, <1>5, <1>6, <1>7, <2>1
<1>9. Class(w) = c
  BY <1>0, <1>2, <1>8, ClassFound
<1>10. Found(w) = {t}
  BY <1>0, <1>2, <1>9, OneOwner DEF Found
<1>11. ASSUME NEW f \in Fields PROVE Taken(t, w, f) = fs[f]
  <2>1. f \in FieldsOf(t) => w[f] = fs[f]
    BY <1>3, <1>5, <1>6, <1>7
  <2>2. CASE t = "J" /\ f = "rs"
    <3>1. f \in FieldsOf(t) /\ fs[f] = v[f]
      BY <2>2 DEF FieldsOf, fs
    <3>2. (w.rs \div 8) % 2 = 0 /\ w.rs \in Nat
      BY <1>3, <2>1, <2>2, <3>1 DEF ReadsBack
    <3>. QED BY <2>1, <2>2, <3>1, <3>2 DEF Taken
  <2>3. CASE ~(t = "J" /\ f = "rs")
    <3>1. Taken(t, w, f) = IF f \in FieldsOf(t) THEN w[f] ELSE 0
      BY <1>0, <2>3 DEF Taken, ReadTypes
    <3>. QED BY <1>3, <2>1, <3>1
  <2>. QED BY <2>2, <2>3
<1>12. Decoded(w) = [opcode |-> c, type |-> t, fields |-> [f \in Fields |-> Taken(t, w, f)]]
  <2>1. (CHOOSE u \in Found(w) : TRUE) = t
    BY <1>10
  <2>. QED BY <1>9, <1>10, <2>1 DEF Decoded
<1>13. [f \in Fields |-> Taken(t, w, f)] = fs
  BY <1>11 DEF fs
<1>. QED BY <1>1, <1>12, <1>13 DEF w, fs

CodeInv ==
    IF unit = "code"
    THEN /\ \E t \in CodedTypes : made \in Instructions(t)
         /\ coding = "encoded" => code = Encoded(made)
         /\ coding = "decoded" => read = made
    ELSE coding = "made"

\* An instruction stored as a word and read back from it is the instruction it
\* was, whatever its fields hold: of the types that are read back no two share
\* an opcode, the fields do not meet the opcode's bits, and inst_decode looks
\* at every bit that tells two of them apart.
THEOREM CodesAreInverse ==
    ASSUME ReadsBack
    PROVE  Spec => []CodesInvert
<1>1. Init => CodeInv
  BY DEF Init, CodeInv, CodeInit, NoCode
<1>2. CodeInv /\ [Next]_vars => CodeInv'
  <2>1. ASSUME CodeInv, UNCHANGED <<codeVars, unit>> PROVE CodeInv'
    BY <2>1 DEF CodeInv, codeVars
  <2>2. ASSUME CodeInv, CodeNext, UNCHANGED unit, unit = "code" PROVE CodeInv'
    <3>1. CASE Encode
      BY <2>2, <3>1 DEF CodeInv, Encode
    <3>2. CASE Decode
      BY <2>2, <3>2, CodeInverts DEF CodeInv, Decode
    <3>. QED BY <2>2, <3>1, <3>2 DEF CodeNext
  <2>3. Next => UNCHANGED unit /\ (UNCHANGED codeVars \/ (CodeNext /\ unit = "code"))
    BY DEF Next, OneInstruction, Access
  <2>4. UNCHANGED vars => UNCHANGED <<codeVars, unit>>
    BY DEF vars, codeVars
  <2>. QED BY <2>1, <2>2, <2>3, <2>4
<1>3. CodeInv => CodesInvert
  BY DEF CodeInv, CodesInvert
<1>. QED BY <1>1, <1>2, <1>3, PTL DEF Spec

-----------------------------------------------------------------------------
(* Powers of two *)

\* Induction over the numbers, for sets: an operator cannot be a parameter.
LEMMA Induction ==
    ASSUME NEW T, T \subseteq Nat, 0 \in T, \A k \in T : k + 1 \in T
    PROVE  T = Nat
<1>. DEFINE before == OpToRel(<, Nat)
            rest == Nat \ T
<1>1. IsWellFoundedOn(before, Nat)
  BY NatLessThanWellFounded
<1>2. \A k \in Nat : <<k, k + 1>> \in before
  BY DEF OpToRel
<1>. HIDE DEF before
<1>3. ASSUME rest # {} PROVE FALSE
  <2>1. PICK x \in rest : \A y \in rest : <<y, x>> \notin before
    BY <1>1, <1>3, WFMin
  <2>2. x \in Nat /\ x # 0 /\ x - 1 \in Nat
    OBVIOUS
  <2>3. x - 1 \in rest /\ <<x - 1, x>> \in before
    BY <1>2, <2>2
  <2>. QED BY <2>1, <2>3
<1>. QED BY <1>3

\* What the recursion of TwoTo defines.
Doubles(n, p) == p = [k \in 0 .. n |-> IF k = 0 THEN 1 ELSE 2 * p[k - 1]]

LEMMA DoublesExist ==
    ASSUME NEW n \in Nat
    PROVE  \E p : Doubles(n, p) /\ \A k \in 0 .. n : p[k] \in Nat \ {0}
<1>. DEFINE Grown(k) == \E p : Doubles(k, p) /\ \A j \in 0 .. k : p[j] \in Nat \ {0}
            T == {k \in Nat : Grown(k)}
<1>1. 0 \in T
  <2>1. Doubles(0, [k \in 0 .. 0 |-> 1])
    BY DEF Doubles
  <2>. QED BY <2>1
<1>2. ASSUME NEW k \in T PROVE k + 1 \in T
  <2>1. PICK p : Doubles(k, p) /\ \A j \in 0 .. k : p[j] \in Nat \ {0}
    OBVIOUS
  <2>. DEFINE h == [j \in 0 .. k + 1 |-> IF j <= k THEN p[j] ELSE 2 * p[k]]
  <2>2. ASSUME NEW j \in 0 .. k + 1
        PROVE  h[j] \in Nat \ {0} /\ h[j] = IF j = 0 THEN 1 ELSE 2 * h[j - 1]
    <3>1. j \in Int /\ k \in Nat
      OBVIOUS
    <3>2. CASE j = 0
      BY <3>1, <3>2, <2>1 DEF Doubles
    <3>3. CASE j # 0 /\ j <= k
      <4>1. h[j] = p[j] /\ h[j - 1] = p[j - 1] /\ j \in 0 .. k
        BY <3>1, <3>3
      <4>2. p[j] = 2 * p[j - 1]
        BY <3>3, <4>1, <2>1 DEF Doubles
      <4>. QED BY <3>3, <4>1, <4>2, <2>1
    <3>4. CASE j = k + 1
      <4>1. h[j] = 2 * p[k] /\ h[j - 1] = p[k] /\ j # 0 /\ k \in 0 .. k
        BY <3>1, <3>4
      <4>. QED BY <3>4, <4>1, <2>1
    <3>. QED BY <3>1, <3>2, <3>3, <3>4
  <2>3. h = [j \in 0 .. k + 1 |-> h[j]]
    OBVIOUS
  <2>. HIDE DEF h
  <2>4. Doubles(k + 1, h)
    BY <2>2, <2>3 DEF Doubles
  <2>. QED BY <2>2, <2>4
<1>. HIDE DEF T
<1>3. T = Nat
  BY <1>1, <1>2, Induction DEF T
<1>. QED BY <1>3 DEF T

LEMMA TwoToIsLast ==
    ASSUME NEW n \in Nat
    PROVE  \E p : Doubles(n, p) /\ TwoTo(n) = p[n]
<1>. DEFINE p == CHOOSE x : x = [k \in 0 .. n |-> IF k = 0 THEN 1 ELSE 2 * x[k - 1]]
<1>1. Doubles(n, p)
  BY DoublesExist DEF Doubles
<1>2. TwoTo(n) = p[n]
  BY DEF TwoTo
<1>. QED BY <1>1, <1>2

LEMMA DoublesAgree ==
    ASSUME NEW n \in Nat, NEW m \in Nat, NEW p, NEW q, Doubles(n, p), Doubles(m, q), n <= m
    PROVE  p[n] = q[n] /\ p[n] \in Nat \ {0}
<1>. DEFINE T == {k \in Nat : k <= n => p[k] = q[k] /\ p[k] \in Nat \ {0}}
<1>1. 0 \in T
  BY DEF Doubles
<1>2. ASSUME NEW k \in T PROVE k + 1 \in T
  <2>1. ASSUME k + 1 <= n PROVE p[k + 1] = q[k + 1] /\ p[k + 1] \in Nat \ {0}
    <3>1. k + 1 \in 0 .. n /\ k + 1 \in 0 .. m /\ k + 1 # 0 /\ (k + 1) - 1 = k
      BY <2>1
    <3>2. p[k + 1] = 2 * p[k] /\ q[k + 1] = 2 * q[k]
      BY <3>1 DEF Doubles
    <3>3. p[k] = q[k] /\ p[k] \in Nat \ {0}
      BY <2>1
    <3>. QED BY <3>2, <3>3
  <2>. QED BY <2>1
<1>. HIDE DEF T
<1>3. T = Nat
  BY <1>1, <1>2, Induction DEF T
<1>. QED BY <1>3 DEF T

LEMMA TwoToNext ==
    /\ TwoTo(0) = 1
    /\ \A n \in Nat : TwoTo(n) \in Nat \ {0} /\ TwoTo(n + 1) = 2 * TwoTo(n)
<1>1. TwoTo(0) = 1
  BY TwoToIsLast DEF Doubles
<1>2. ASSUME NEW n \in Nat PROVE TwoTo(n) \in Nat \ {0} /\ TwoTo(n + 1) = 2 * TwoTo(n)
  <2>1. n + 1 \in Nat /\ n <= n + 1 /\ n + 1 # 0 /\ (n + 1) - 1 = n /\ n + 1 \in 0 .. n + 1
    OBVIOUS
  <2>2. PICK p : Doubles(n, p) /\ TwoTo(n) = p[n]
    BY TwoToIsLast
  <2>3. PICK q : Doubles(n + 1, q) /\ TwoTo(n + 1) = q[n + 1]
    BY <2>1, TwoToIsLast
  <2>4. q[n + 1] = 2 * q[n]
    BY <2>1, <2>3 DEF Doubles
  <2>5. p[n] = q[n] /\ p[n] \in Nat \ {0}
    BY <2>1, <2>2, <2>3, DoublesAgree
  <2>. QED BY <2>2, <2>3, <2>4, <2>5
<1>. QED BY <1>1, <1>2

LEMMA TwoToSum ==
    ASSUME NEW a \in Nat, NEW b \in Nat
    PROVE  TwoTo(a + b) = TwoTo(a) * TwoTo(b)
<1>. DEFINE T == {k \in Nat : TwoTo(a + k) = TwoTo(a) * TwoTo(k)}
<1>1. 0 \in T
  BY TwoToNext
<1>2. ASSUME NEW k \in T PROVE k + 1 \in T
  <2>. DEFINE x == TwoTo(a)  y == TwoTo(k)
  <2>1. x \in Nat /\ y \in Nat
    BY TwoToNext
  <2>2. TwoTo(k + 1) = 2 * y /\ TwoTo((a + k) + 1) = 2 * (x * y)
    BY TwoToNext
  <2>3. (a + k) + 1 = a + (k + 1)
    OBVIOUS
  <2>. HIDE DEF x, y
  <2>4. 2 * (x * y) = x * (2 * y)
    BY <2>1
  <2>5. TwoTo(a + (k + 1)) = x * TwoTo(k + 1)
    BY <2>2, <2>3, <2>4
  <2>. QED BY <2>5 DEF x
<1>. HIDE DEF T
<1>3. T = Nat
  BY <1>1, <1>2, Induction DEF T
<1>. QED BY <1>3 DEF T

LEMMA WordSizes ==
    /\ W \in Nat /\ W >= 4
    /\ Radix \in Nat /\ Radix >= 4 /\ \E k \in Nat : Radix = 2 * k
    /\ Size = Radix * Radix /\ Size \in Nat /\ Size >= 16
    /\ Size \div 2 \in Nat /\ Size = 2 * (Size \div 2)
<1>1. Half \in Nat /\ Half >= 2
  BY AluAssumption
<1>. DEFINE k == Half - 2  j == TwoTo(Half - 2)
<1>2. k \in Nat /\ Half = (k + 1) + 1 /\ k + 1 \in Nat /\ W = Half + Half
  BY <1>1 DEF W
<1>3. j \in Nat /\ j >= 1 /\ Radix = 4 * j
  BY <1>2, TwoToNext DEF Radix
<1>4. Size = Radix * Radix
  BY <1>1, <1>2, TwoToSum DEF Size, Radix
<1>. HIDE DEF j, k
<1>5. (4 * j) * (4 * j) = 16 * (j * j) /\ j * j \in Nat /\ j * j >= 1
  BY <1>3
<1>. DEFINE n == j * j
<1>6. Size = 16 * n /\ n \in Nat /\ n >= 1
  BY <1>3, <1>4, <1>5
<1>. HIDE DEF n
<1>7. Size \in Nat /\ Size >= 16 /\ Size \div 2 \in Nat /\ Size = 2 * (Size \div 2)
  BY <1>6
<1>8. Radix = 2 * (2 * j) /\ 2 * j \in Nat
  BY <1>3
<1>. QED BY <1>1, <1>2, <1>3, <1>4, <1>7, <1>8
-----------------------------------------------------------------------------
(* Words *)

LEMMA SameQuotient ==
    ASSUME NEW x \in Int, NEW y \in Int, NEW d \in Int, NEW s \in Nat, NEW t \in Nat,
           s < d, t < d, (x * d) + s = (y * d) + t
    PROVE  x = y /\ s = t
<1>1. ASSUME NEW p \in Int, NEW q \in Int, NEW e \in Nat, NEW f \in Nat, e < d, f < d,
             (p * d) + e = (q * d) + f
      PROVE  ~(p < q)
  <2>1. ASSUME p < q PROVE FALSE
    <3>. DEFINE c == q - p - 1
    <3>1. c \in Nat /\ q = (p + 1) + c
      BY <2>1
    <3>. HIDE DEF c
    <3>2. c * d \in Nat
      BY <1>1, <3>1
    <3>3. q * d = (p * d) + d + (c * d)
      BY <3>1
    <3>4. p * d \in Int
      OBVIOUS
    <3>. QED BY <1>1, <3>2, <3>3, <3>4
  <2>. QED BY <2>1
<1>2. ~(x < y) /\ ~(y < x)
  BY <1>1
<1>3. x = y /\ x * d \in Int
  BY <1>2
<1>. QED BY <1>3

LEMMA ModOf ==
    ASSUME NEW n \in Int, NEW d \in Nat, NEW q \in Int, NEW r \in Nat, r < d, n = (q * d) + r
    PROVE  n % d = r /\ n \div d = q
<1>. DEFINE p == n \div d  e == n % d
<1>1. p \in Int /\ e \in Nat /\ e < d /\ n = (p * d) + e
  OBVIOUS
<1>. HIDE DEF p, e
<1>2. p = q /\ e = r
  BY <1>1, SameQuotient
<1>. QED BY <1>2 DEF p, e

LEMMA DivMod ==
    ASSUME NEW n \in Int, NEW d \in Nat, d > 0
    PROVE  n \div d \in Int /\ n % d \in 0 .. d - 1 /\ n = ((n \div d) * d) + (n % d)
OBVIOUS

LEMMA SizeIsEven ==
    Size \in Nat /\ Size >= 16 /\ Size \div 2 \in Nat /\ Size = 2 * (Size \div 2)
BY WordSizes

LEMMA WrapOf ==
    ASSUME NEW n \in Int, NEW q \in Int, NEW r \in Word, n = (q * Size) + r
    PROVE  Wrap(n) = r
<1>1. Size \in Nat /\ r \in Nat /\ r < Size
  BY SizeIsEven DEF Word
<1>. QED BY <1>1, ModOf DEF Wrap

LEMMA WrapShape ==
    ASSUME NEW n \in Int
    PROVE  Wrap(n) \in Word /\ \E q \in Int : n = (q * Size) + Wrap(n)
<1>1. Size \in Nat /\ Size > 0
  BY SizeIsEven
<1>. QED BY <1>1, DivMod DEF Wrap, Word

\* The words as numbers with a sign.
SignedWord == -(Size \div 2) .. (Size \div 2) - 1

LEMMA SignedShape ==
    ASSUME NEW x \in Word
    PROVE  /\ x \in Int /\ Signed(x) \in SignedWord /\ (Negative(x) <=> Signed(x) < 0)
           /\ Signed(x) = IF Negative(x) THEN x - Size ELSE x
BY SizeIsEven DEF Word, Signed, SignedWord, Negative

LEMMA SignedWrap ==
    ASSUME NEW n \in SignedWord
    PROVE  Wrap(n) \in Word /\ Signed(Wrap(n)) = n
<1>1. n \in Int
  BY SizeIsEven DEF SignedWord
<1>2. CASE n >= 0
  <2>1. n \in Word /\ n = (0 * Size) + n /\ n < Size \div 2
    BY <1>1, <1>2, SizeIsEven DEF SignedWord, Word
  <2>2. Wrap(n) = n
    BY <1>1, <2>1, WrapOf
  <2>. QED BY <1>1, <2>1, <2>2, SizeIsEven DEF Signed, Negative
<1>3. CASE n < 0
  <2>1. n + Size \in Word /\ n = ((-1) * Size) + (n + Size) /\ ~(n + Size < Size \div 2)
    BY <1>1, <1>3, SizeIsEven DEF SignedWord, Word
  <2>2. Wrap(n) = n + Size
    BY <1>1, <2>1, WrapOf
  <2>. QED BY <1>1, <2>1, <2>2, SizeIsEven DEF Signed, Negative
<1>. QED BY <1>1, <1>2, <1>3

LEMMA HalvesShape ==
    ASSUME NEW x \in Word
    PROVE  /\ High(x) \in 0 .. Radix - 1 /\ Low(x) \in 0 .. Radix - 1
           /\ x = (High(x) * Radix) + Low(x)
<1>. DEFINE h == x \div Radix  l == x % Radix
<1>1. x \in Nat /\ x < Size
  BY SizeIsEven DEF Word
<1>2. h \in Nat /\ l \in 0 .. Radix - 1 /\ x = (h * Radix) + l
  <2>1. Radix \in Nat /\ Radix > 0 /\ x \in Int
    BY <1>1, WordSizes
  <2>2. h \in Int /\ l \in 0 .. Radix - 1 /\ x = (h * Radix) + l
    BY <2>1, DivMod
  <2>. HIDE DEF h, l
  <2>3. ASSUME h < 0 PROVE FALSE
    <3>. DEFINE c == -1 - h
    <3>1. c \in Nat /\ h = -1 - c
      BY <2>2, <2>3
    <3>. HIDE DEF c
    <3>2. h * Radix = (-Radix) - (c * Radix) /\ c * Radix \in Nat
      BY <2>1, <3>1
    <3>. QED BY <1>1, <2>1, <2>2, <3>2
  <2>. QED BY <2>2, <2>3
<1>. HIDE DEF h, l
<1>3. ASSUME ~(h < Radix) PROVE FALSE
  <2>1. h * Radix >= Radix * Radix /\ h * Radix \in Nat
    BY <1>2, <1>3, WordSizes
  <2>. QED BY <1>1, <1>2, <2>1, WordSizes
<1>4. h \in 0 .. Radix - 1
  BY <1>2, <1>3, WordSizes
<1>. QED BY <1>2, <1>4 DEF h, l, High, Low

LEMMA ImmShape == ASSUME rt \in Word PROVE Imm \in Word
<1>. DEFINE l == Low(rt)
<1>1. l \in 0 .. Radix - 1
  BY HalvesShape
<1>2. Imm = IF 2 * l >= Radix THEN l + Size - Radix ELSE l
  BY DEF Imm
<1>. HIDE DEF l
<1>3. Radix * Radix >= 4 * Radix
  BY WordSizes
<1>. QED BY <1>1, <1>2, <1>3, WordSizes DEF Word
-----------------------------------------------------------------------------
(* Sums *)

\* No word of Size values has this number.
Beyond(n) == n < -(Size \div 2) \/ n >= Size \div 2

LEMMA SumIsExact ==
    ASSUME NEW a \in Word, NEW b \in Word, NEW r, r = Wrap(a + b)
    PROVE  /\ Overflows(r, a, b) <=> Beyond(Signed(a) + Signed(b))
           /\ ~Overflows(r, a, b) => Signed(r) = Signed(a) + Signed(b)
<1>1. a \in 0 .. Size - 1 /\ b \in 0 .. Size - 1
  BY DEF Word
<1>2. r = IF a + b < Size THEN a + b ELSE a + b - Size
  <2>1. CASE a + b < Size
    <3>1. a + b \in Int /\ a + b \in Word /\ a + b = (0 * Size) + (a + b)
      BY <1>1, <2>1, SizeIsEven DEF Word
    <3>. QED BY <2>1, <3>1, WrapOf
  <2>2. CASE ~(a + b < Size)
    <3>. DEFINE c == (a + b) - Size
    <3>1. a + b \in Int /\ c \in Word /\ a + b = (1 * Size) + c
      BY <1>1, <2>2, SizeIsEven DEF Word
    <3>2. r = c
      BY <3>1, WrapOf
    <3>3. c = a + b - Size
      BY <1>1, SizeIsEven
    <3>. QED BY <2>2, <3>2, <3>3
  <2>. QED BY <2>1, <2>2
<1>. QED BY <1>1, <1>2, SizeIsEven DEF Overflows, Negative, Signed, Beyond

LEMMA DifferenceIsExact ==
    ASSUME NEW a \in Word, NEW b \in Word, NEW r, r = Wrap(a - b)
    PROVE  LET over == Negative(a) # Negative(b) /\ Negative(a) # Negative(r) IN
           /\ over <=> Beyond(Signed(a) - Signed(b))
           /\ ~over => Signed(r) = Signed(a) - Signed(b)
<1>1. a \in 0 .. Size - 1 /\ b \in 0 .. Size - 1
  BY DEF Word
<1>2. r = IF a - b >= 0 THEN a - b ELSE (a - b) + Size
  <2>1. CASE a - b >= 0
    <3>1. a - b \in Int /\ a - b \in Word /\ a - b = (0 * Size) + (a - b)
      BY <1>1, <2>1, SizeIsEven DEF Word
    <3>. QED BY <2>1, <3>1, WrapOf
  <2>2. CASE ~(a - b >= 0)
    <3>. DEFINE c == (a - b) + Size
    <3>1. a - b \in Int /\ c \in Word /\ a - b = ((-1) * Size) + c
      BY <1>1, <2>2, SizeIsEven DEF Word
    <3>2. r = c
      BY <3>1, WrapOf
    <3>. QED BY <2>2, <3>2
  <2>. QED BY <2>1, <2>2
<1>. QED BY <1>1, <1>2, SizeIsEven DEF Negative, Signed, Beyond

\* The sum of two words is the carry and the word that remains.
LEMMA CarryOut ==
    ASSUME NEW a \in Word, NEW b \in Word, NEW s, s = Wrap(a + b)
    PROVE  /\ s \in Word /\ Carry(s, a, b) \in 0 .. 1 /\ Carry(s, b, a) = Carry(s, a, b)
           /\ a + b = (Carry(s, a, b) * Size) + s
<1>1. a \in 0 .. Size - 1 /\ b \in 0 .. Size - 1
  BY DEF Word
<1>2. CASE a + b < Size
  <2>1. a + b \in Int /\ a + b \in Word /\ a + b = (0 * Size) + (a + b)
    BY <1>1, <1>2, SizeIsEven DEF Word
  <2>2. s = a + b
    BY <2>1, WrapOf
  <2>. QED BY <1>1, <2>1, <2>2 DEF Carry
<1>3. CASE ~(a + b < Size)
  <2>. DEFINE c == (a + b) - Size
  <2>1. a + b \in Int /\ c \in Word /\ a + b = (1 * Size) + c /\ c < a
    BY <1>1, <1>3, SizeIsEven DEF Word
  <2>2. s = c
    BY <2>1, WrapOf
  <2>3. Carry(s, a, b) = 1 /\ Carry(s, b, a) = 1
    BY <2>1, <2>2 DEF Carry
  <2>. QED BY <2>1, <2>2, <2>3
<1>. QED BY <1>2, <1>3

-----------------------------------------------------------------------------
(* Products *)

LEMMA Monotone ==
    ASSUME NEW a \in Nat, NEW b \in Nat, NEW c \in Nat, NEW d \in Nat, a <= b, c <= d
    PROVE  a * c <= b * d /\ a * c \in Nat
OBVIOUS

LEMMA Expand ==
    ASSUME NEW a \in Nat, NEW b \in Nat, NEW c \in Nat, NEW d \in Nat, NEW r \in Nat
    PROVE  ((a * r) + b) * ((c * r) + d)
             = ((a * c) * (r * r)) + (((a * d) + (c * b)) * r) + (b * d)
OBVIOUS

\* The words of the sum of partial products that unsigned_multiply forms.
LEMMA Columns ==
    ASSUME NEW ac \in Nat, NEW sum \in Nat, NEW l \in Nat, NEW carry \in Nat,
           NEW h \in Nat, NEW m \in Nat,
           sum = (carry * Size) + ((h * Radix) + m)
    PROVE  (ac * Size) + (sum * Radix) + l
             = (Size * (ac + (carry * Radix) + h)) + (l + (m * Radix))
<1>1. Radix \in Nat /\ Size = Radix * Radix
  BY WordSizes
<1>2. sum * Radix = ((carry * Size) * Radix) + ((h * Radix) * Radix) + (m * Radix)
  BY <1>1
<1>. DEFINE x == carry * Radix
<1>3. (carry * Size) * Radix = Size * x /\ (h * Radix) * Radix = Size * h
  BY <1>1
<1>4. Size * (ac + x + h) = (ac * Size) + (Size * x) + (Size * h)
  BY <1>1
<1>. QED BY <1>1, <1>2, <1>3, <1>4

LEMMA UnsignedProduct ==
    ASSUME NEW v1 \in Word, NEW v2 \in Word
    PROVE  LET p == UnsignedMultiply(v1, v2) IN
           p[1] \in Word /\ p[2] \in Word /\ Wide(p) = v1 * v2
<1>. DEFINE a == High(v1)  b == Low(v1)  c == High(v2)  d == Low(v2)
            bd == b * d  ad == a * d  cb == c * b  ac == a * c
            mid == Wrap(ad + cb)  mid2 == Wrap(mid + High(bd))
            c1 == Carry(mid, ad, cb)  c2 == Carry(mid2, mid, High(bd))
            hi1 == ac + ((c1 + c2) * Radix) + High(mid2)
            lo1 == Low(bd) + (Low(mid2) * Radix)
<1>1. UnsignedMultiply(v1, v2) = <<Wrap(hi1), lo1>>
  BY DEF UnsignedMultiply
<1>2. /\ a \in 0 .. Radix - 1 /\ b \in 0 .. Radix - 1
      /\ c \in 0 .. Radix - 1 /\ d \in 0 .. Radix - 1
      /\ v1 = (a * Radix) + b /\ v2 = (c * Radix) + d
  BY HalvesShape
<1>. HIDE DEF a, b, c, d
<1>3. Radix \in Nat /\ Radix >= 4 /\ Size = Radix * Radix /\ Size \in Nat
  BY WordSizes
<1>4. /\ bd \in Word /\ ad \in Word /\ cb \in Word /\ ac \in Nat
  <2>. DEFINE n == Radix - 1
  <2>1. n \in Nat /\ n * n < Size
    BY <1>3
  <2>2. ASSUME NEW x \in 0 .. Radix - 1, NEW y \in 0 .. Radix - 1 PROVE x * y \in Word
    <3>1. x \in Nat /\ y \in Nat /\ x <= n /\ y <= n
      BY <1>3
    <3>2. x * y <= n * n /\ x * y \in Nat
      BY <2>1, <3>1, Monotone
    <3>. QED BY <1>3, <2>1, <3>2 DEF Word
  <2>3. ac \in Word
    BY <1>2, <2>2
  <2>. QED BY <1>2, <2>2, <2>3, <1>3 DEF Word
<1>5. v1 * v2 = (ac * Size) + ((ad + cb) * Radix) + bd
  BY <1>2, <1>3, Expand
<1>. HIDE DEF bd, ad, cb, ac
<1>6. /\ High(bd) \in 0 .. Radix - 1 /\ Low(bd) \in 0 .. Radix - 1
      /\ bd = (High(bd) * Radix) + Low(bd)
  BY <1>4, HalvesShape
<1>7. High(bd) \in Word
  BY <1>3, <1>6 DEF Word
<1>8. mid \in Word /\ c1 \in 0 .. 1 /\ ad + cb = (c1 * Size) + mid
  BY <1>4, CarryOut
<1>. HIDE DEF mid, c1
<1>9. mid2 \in Word /\ c2 \in 0 .. 1 /\ mid + High(bd) = (c2 * Size) + mid2
  BY <1>7, <1>8, CarryOut
<1>. HIDE DEF mid2, c2
<1>10. /\ High(mid2) \in 0 .. Radix - 1 /\ Low(mid2) \in 0 .. Radix - 1
       /\ mid2 = (High(mid2) * Radix) + Low(mid2)
  BY <1>9, HalvesShape
<1>. DEFINE sum == ad + cb + High(bd)  carry == c1 + c2
<1>11. /\ sum \in Nat /\ carry \in Nat
       /\ sum = (carry * Size) + ((High(mid2) * Radix) + Low(mid2))
  <2>1. (c1 * Size) + (c2 * Size) = (c1 + c2) * Size
    BY <1>3, <1>8, <1>9
  <2>2. ad \in Nat /\ cb \in Nat /\ mid \in Nat /\ mid2 \in Nat /\ High(bd) \in Nat
    BY <1>3, <1>4, <1>6, <1>8, <1>9 DEF Word
  <2>. QED BY <1>3, <1>8, <1>9, <1>10, <2>1, <2>2
<1>12. v1 * v2 = (ac * Size) + (sum * Radix) + Low(bd)
  <2>1. sum * Radix = ((ad + cb) * Radix) + (High(bd) * Radix)
    BY <1>3, <1>4, <1>6 DEF Word
  <2>2. ac * Size \in Int /\ (ad + cb) * Radix \in Int /\ High(bd) * Radix \in Int
    BY <1>3, <1>4, <1>6 DEF Word
  <2>. QED BY <1>5, <1>6, <2>1, <2>2
<1>. HIDE DEF sum
<1>13. v1 * v2 = (Size * hi1) + lo1
  <2>1. carry \in Nat /\ High(mid2) \in Nat /\ Low(mid2) \in Nat /\ Low(bd) \in Nat
    BY <1>3, <1>6, <1>10, <1>11
  <2>. QED BY <1>4, <1>11, <1>12, <2>1, Columns
<1>14. lo1 \in Word
  <2>. DEFINE m == Low(mid2)
  <2>1. m \in Nat /\ m <= Radix - 1 /\ Radix - 1 \in Nat
    BY <1>3, <1>10
  <2>. HIDE DEF m
  <2>2. m * Radix <= (Radix - 1) * Radix /\ m * Radix \in Nat
    BY <1>3, <2>1, Monotone
  <2>3. (Radix - 1) * Radix = Size - Radix
    BY <1>3
  <2>. QED BY <1>3, <1>6, <2>2, <2>3 DEF Word, m
<1>15. hi1 \in Nat
  BY <1>3, <1>4, <1>8, <1>9, <1>10
<1>. HIDE DEF hi1, lo1
<1>16. hi1 < Size
  <2>1. v1 \in Nat /\ v2 \in Nat /\ v1 <= Size - 1 /\ v2 <= Size - 1 /\ Size - 1 \in Nat
    BY <1>3 DEF Word
  <2>2. v1 * v2 <= (Size - 1) * (Size - 1)
    BY <2>1, Monotone
  <2>3. (Size - 1) * (Size - 1) < Size * Size
    BY <1>3
  <2>4. ASSUME hi1 >= Size PROVE FALSE
    <3>1. Size * Size <= Size * hi1 /\ Size * hi1 \in Nat
      BY <1>3, <1>15, <2>4, Monotone
    <3>. QED BY <1>3, <1>13, <1>14, <2>1, <2>2, <2>3, <3>1 DEF Word
  <2>. QED BY <1>3, <1>15, <2>4
<1>17. hi1 \in Word /\ Wrap(hi1) = hi1
  <2>1. hi1 \in Word /\ hi1 = (0 * Size) + hi1
    BY <1>3, <1>15, <1>16 DEF Word
  <2>. QED BY <1>15, <2>1, WrapOf
<1>. QED BY <1>1, <1>13, <1>14, <1>17 DEF Wide
\* Numbers of two words are compared modulo Size * Size.
Same(x, n) == \E k \in Int : x = n + (k * (Size * Size))

LEMMA SameAsRemainder ==
    ASSUME NEW n \in Int, NEW h \in Word, NEW l \in Word, Same(Wide(<<h, l>>), n)
    PROVE  Wide(<<h, l>>) = n % (Size * Size)
<1>. DEFINE d == Size * Size  x == (Size * h) + l
<1>1. Size \in Nat /\ h \in Nat /\ h <= Size - 1 /\ l \in Nat /\ l < Size
  BY SizeIsEven DEF Word
<1>2. Size - 1 \in Nat /\ Size * (Size - 1) = d - Size /\ d \in Nat
  BY <1>1, SizeIsEven
<1>3. Size * h <= Size * (Size - 1) /\ Size * h \in Nat
  BY <1>1, <1>2, Monotone
<1>4. x \in Nat /\ x < d /\ Wide(<<h, l>>) = x
  BY <1>1, <1>2, <1>3 DEF Wide
<1>5. PICK k \in Int : x = n + (k * d)
  BY <1>4 DEF Same
<1>. HIDE DEF d, x
<1>6. -k \in Int /\ n = ((-k) * d) + x
  BY <1>2, <1>4, <1>5
<1>7. n % d = x
  BY <1>2, <1>4, <1>6, ModOf
<1>. QED BY <1>4, <1>7 DEF d

LEMMA NegatedShape ==
    ASSUME NEW h \in Word, NEW l \in Word
    PROVE  LET q == Negated(<<h, l>>) IN
           q[1] \in Word /\ q[2] \in Word /\ Same(Wide(q), -Wide(<<h, l>>))
<1>1. Size \in Nat /\ Size > 0 /\ h \in 0 .. Size - 1 /\ l \in 0 .. Size - 1
  BY SizeIsEven DEF Word
<1>2. \A x \in Word : Wrap(Not(x) + 1) = IF x = 0 THEN 0 ELSE Size - x
  <2>1. ASSUME NEW x \in Word PROVE Wrap(Not(x) + 1) = IF x = 0 THEN 0 ELSE Size - x
    <3>1. Not(x) + 1 = Size - x /\ Size - x \in Int /\ x \in 0 .. Size - 1
      BY <1>1 DEF Not, Word
    <3>2. CASE x = 0
      <4>1. 0 \in Word /\ Size - x = (1 * Size) + 0
        BY <1>1, <3>2 DEF Word
      <4>. QED BY <3>1, <3>2, <4>1, WrapOf
    <3>3. CASE x # 0
      <4>1. Size - x \in Word /\ Size - x = (0 * Size) + (Size - x)
        BY <1>1, <3>1, <3>3 DEF Word
      <4>. QED BY <3>1, <3>3, <4>1, WrapOf
    <3>. QED BY <3>2, <3>3
  <2>. QED BY <2>1
<1>. DEFINE m == IF l = 0 THEN 0 ELSE Size - l
            g == IF l = 0 THEN (IF h = 0 THEN 0 ELSE Size - h) ELSE Size - 1 - h
<1>3. m = 0 <=> l = 0
  BY <1>1
<1>4. Negated(<<h, l>>) = <<g, m>>
  <2>1. Wrap(Not(l) + 1) = m
    BY <1>2
  <2>2. Wrap(Not(h) + 1) = IF h = 0 THEN 0 ELSE Size - h
    BY <1>2
  <2>3. Not(h) = Size - 1 - h
    BY DEF Not
  <2>4. Negated(<<h, l>>) = <<IF m = 0 THEN Wrap(Not(h) + 1) ELSE Not(h), m>>
    BY <2>1 DEF Negated
  <2>. HIDE DEF m
  <2>. QED BY <1>3, <2>2, <2>3, <2>4
<1>5. g \in Word /\ m \in Word
  BY <1>1 DEF Word
<1>6. Wide(<<g, m>>) = (Size * g) + m /\ Wide(<<h, l>>) = (Size * h) + l
  BY DEF Wide
<1>7. Same((Size * g) + m, -((Size * h) + l))
  <2>1. CASE h = 0 /\ l = 0
    <3>1. (Size * g) + m = (-((Size * h) + l)) + (0 * (Size * Size))
      BY <1>1, <2>1
    <3>. QED BY <3>1 DEF Same
  <2>2. CASE ~(h = 0 /\ l = 0)
    <3>1. CASE l = 0
      <4>1. g = Size - h /\ m = 0
        BY <2>2, <3>1
      <4>. HIDE DEF g, m
      <4>2. (Size * g) + m = (-((Size * h) + l)) + (1 * (Size * Size))
        BY <1>1, <3>1, <4>1
      <4>. QED BY <4>2 DEF Same
    <3>2. CASE l # 0
      <4>1. g = (Size - 1) - h /\ m = Size - l
        BY <1>1, <3>2
      <4>. HIDE DEF g, m
      <4>2. (Size * g) + m = (-((Size * h) + l)) + (1 * (Size * Size))
        BY <1>1, <4>1
      <4>. QED BY <4>2 DEF Same
    <3>. QED BY <3>1, <3>2
  <2>. QED BY <2>1, <2>2
<1>. QED BY <1>4, <1>5, <1>6, <1>7

LEMMA MagnitudeShape ==
    ASSUME NEW v \in Word
    PROVE  Magnitude(v) \in Word /\ Magnitude(v) = IF Negative(v) THEN -Signed(v) ELSE Signed(v)
<1>1. CASE Negative(v)
  <2>1. Size - v \in Word /\ -v \in Int /\ -v = ((-1) * Size) + (Size - v)
    BY <1>1, SizeIsEven DEF Word, Negative
  <2>2. Wrap(-v) = Size - v
    BY <2>1, WrapOf
  <2>. QED BY <1>1, <2>1, <2>2, SizeIsEven DEF Magnitude, Signed, Word
<1>2. CASE ~Negative(v)
  BY <1>2 DEF Magnitude, Signed
<1>. QED BY <1>1, <1>2

LEMMA Signs ==
    ASSUME NEW a \in Int, NEW b \in Int
    PROVE  (-a) * (-b) = a * b /\ (-a) * b = -(a * b) /\ a * (-b) = -(a * b) /\ a * b \in Int
OBVIOUS

LEMMA SignedMultiplyShape ==
    ASSUME NEW v1 \in Word, NEW v2 \in Word
    PROVE  LET p == SignedMultiply(v1, v2) IN
           /\ p = <<p[1], p[2]>> /\ p[1] \in Word /\ p[2] \in Word
           /\ Same(Wide(p), Signed(v1) * Signed(v2))
<1>. DEFINE p == UnsignedMultiply(Magnitude(v1), Magnitude(v2))  q == SignedMultiply(v1, v2)
            n == Signed(v1) * Signed(v2)
<1>1. q = IF Negative(v1) # Negative(v2) THEN Negated(p) ELSE p
  BY DEF SignedMultiply
<1>2. /\ Magnitude(v1) \in Word /\ Magnitude(v2) \in Word
      /\ Magnitude(v1) = IF Negative(v1) THEN -Signed(v1) ELSE Signed(v1)
      /\ Magnitude(v2) = IF Negative(v2) THEN -Signed(v2) ELSE Signed(v2)
  BY MagnitudeShape
<1>3. Signed(v1) \in Int /\ Signed(v2) \in Int
  BY SizeIsEven DEF Word, Signed
<1>4. /\ p = <<p[1], p[2]>> /\ p[1] \in Word /\ p[2] \in Word
      /\ Wide(p) = Magnitude(v1) * Magnitude(v2)
  <2>1. p = <<p[1], p[2]>>
    BY DEF UnsignedMultiply
  <2>. QED BY <2>1, <1>2, UnsignedProduct
<1>5. /\ Wide(p) = IF Negative(v1) # Negative(v2) THEN -n ELSE n
      /\ n \in Int
  <2>1. Negative(v1) \in BOOLEAN /\ Negative(v2) \in BOOLEAN
    BY DEF Negative
  <2>. QED BY <1>2, <1>3, <1>4, <2>1, Signs
<1>. HIDE DEF p, n, q
<1>6. CASE Negative(v1) # Negative(v2)
  <2>1. q = Negated(<<p[1], p[2]>>) /\ Wide(<<p[1], p[2]>>) = -n
    BY <1>1, <1>4, <1>5, <1>6
  <2>2. q[1] \in Word /\ q[2] \in Word /\ Same(Wide(q), -(-n))
    BY <1>4, <2>1, NegatedShape
  <2>3. q = <<q[1], q[2]>>
    BY <2>1 DEF Negated
  <2>4. -(-n) = n
    BY <1>5
  <2>. QED BY <2>2, <2>3, <2>4 DEF q, n
<1>7. CASE ~(Negative(v1) # Negative(v2))
  <2>1. q = p /\ Wide(p) = n + (0 * (Size * Size))
    BY <1>1, <1>5, <1>7, SizeIsEven
  <2>2. Same(Wide(q), n)
    BY <2>1 DEF Same
  <2>. QED BY <1>4, <2>1, <2>2 DEF q, n
<1>. QED BY <1>6, <1>7

LEMMA AccumulatedShape ==
    ASSUME hi \in Word, lo \in Word, NEW h \in Word, NEW l \in Word
    PROVE  LET q == Accumulated(<<h, l>>) IN
           /\ q = <<q[1], q[2]>> /\ q[1] \in Word /\ q[2] \in Word
           /\ Same(Wide(q), Wide(<<hi, lo>>) + Wide(<<h, l>>))
<1>. DEFINE tmp == Wrap(lo + l)  c == Carry(tmp, l, lo)  top == hi + c + h
<1>1. Accumulated(<<h, l>>) = <<Wrap(top), tmp>>
  BY DEF Accumulated
<1>2. tmp \in Word /\ c \in 0 .. 1 /\ lo + l = (c * Size) + tmp
  BY CarryOut
<1>. HIDE DEF tmp, c
<1>3. /\ Size \in Int /\ hi \in Int /\ lo \in Int /\ h \in Int /\ l \in Int
      /\ tmp \in Int /\ c \in Int /\ top \in Int
  BY <1>2, SizeIsEven DEF Word
<1>4. PICK j \in Int : Wrap(top) \in Word /\ top = (j * Size) + Wrap(top)
  BY <1>3, WrapShape
<1>. DEFINE w == Wrap(top)
<1>5. w \in Int /\ w \in Word /\ hi + c + h = (j * Size) + w
  BY <1>4, SizeIsEven DEF Word
<1>. HIDE DEF w
<1>6. (Size * w) + tmp
        = (((Size * hi) + lo) + ((Size * h) + l)) + ((-j) * (Size * Size))
  <2>1. w = ((hi + c) + h) - (j * Size) /\ tmp = (lo + l) - (c * Size) /\ j * Size \in Int
    BY <1>2, <1>3, <1>5
  <2>. DEFINE js == j * Size
  <2>2. Size * w = (((Size * hi) + (Size * c)) + (Size * h)) - (Size * js)
    BY <1>3, <2>1
  <2>3. Size * js = j * (Size * Size) /\ (-j) * (Size * Size) = -(j * (Size * Size))
    BY <1>3
  <2>4. j * (Size * Size) \in Int /\ Size * c = c * Size /\ Size * c \in Int
        /\ Size * hi \in Int /\ Size * h \in Int
    BY <1>3
  <2>. HIDE DEF js
  <2>. QED BY <1>3, <2>1, <2>2, <2>3, <2>4
<1>7. Same((Size * w) + tmp, ((Size * hi) + lo) + ((Size * h) + l))
  BY <1>6 DEF Same
<1>8. /\ Wide(<<w, tmp>>) = (Size * w) + tmp /\ Wide(<<hi, lo>>) = (Size * hi) + lo
      /\ Wide(<<h, l>>) = (Size * h) + l
  BY DEF Wide
<1>. QED BY <1>1, <1>2, <1>5, <1>7, <1>8 DEF w

LEMMA ReducedShape ==
    ASSUME hi \in Word, lo \in Word, NEW h \in Word, NEW l \in Word
    PROVE  LET q == Reduced(<<h, l>>) IN
           /\ q = <<q[1], q[2]>> /\ q[1] \in Word /\ q[2] \in Word
           /\ Same(Wide(q), Wide(<<hi, lo>>) - Wide(<<h, l>>))
<1>. DEFINE c == IF l > lo THEN 1 ELSE 0  tmp == Wrap(lo - l)  top == (hi - c) - h
<1>1. /\ Size \in Int /\ hi \in Int /\ lo \in Int /\ h \in Int /\ l \in Int
      /\ c \in Int /\ top \in Int
  BY SizeIsEven DEF Word
<1>2. lo - l \in Int
  BY <1>1
<1>3. Reduced(<<h, l>>) = <<Wrap(top), tmp>>
  <2>1. top = IF l > lo THEN hi - 1 - h ELSE hi - h
    BY <1>1
  <2>. HIDE DEF top
  <2>. QED BY <2>1 DEF Reduced
<1>4. tmp \in Word /\ lo - l = tmp - (c * Size)
  <2>1. CASE l > lo
    <3>1. (lo - l) + Size \in Word /\ lo - l = ((-1) * Size) + ((lo - l) + Size)
      BY <2>1, SizeIsEven DEF Word
    <3>2. Wrap(lo - l) = (lo - l) + Size
      BY <3>1, <1>2, WrapOf
    <3>. QED BY <1>1, <2>1, <3>1, <3>2
  <2>2. CASE ~(l > lo)
    <3>1. lo - l \in Word /\ lo - l = (0 * Size) + (lo - l)
      BY <2>2, SizeIsEven DEF Word
    <3>2. Wrap(lo - l) = lo - l
      BY <3>1, <1>2, WrapOf
    <3>. QED BY <1>1, <2>2, <3>1, <3>2
  <2>. QED BY <2>1, <2>2
<1>. HIDE DEF tmp, c
<1>5. PICK j \in Int : Wrap(top) \in Word /\ top = (j * Size) + Wrap(top)
  BY <1>1, WrapShape
<1>. DEFINE w == Wrap(top)
<1>6. w \in Int /\ tmp \in Int /\ w \in Word /\ (hi - c) - h = (j * Size) + w
  BY <1>4, <1>5, SizeIsEven DEF Word
<1>. HIDE DEF w
<1>7. (Size * w) + tmp
        = (((Size * hi) + lo) - ((Size * h) + l)) + ((-j) * (Size * Size))
  <2>1. w = ((hi - c) - h) - (j * Size) /\ tmp = (lo - l) + (c * Size) /\ j * Size \in Int
    BY <1>1, <1>4, <1>6
  <2>. DEFINE js == j * Size
  <2>2. Size * w = (((Size * hi) - (Size * c)) - (Size * h)) - (Size * js)
    BY <1>1, <2>1
  <2>3. Size * js = j * (Size * Size) /\ (-j) * (Size * Size) = -(j * (Size * Size))
    BY <1>1
  <2>4. j * (Size * Size) \in Int /\ Size * c = c * Size /\ Size * c \in Int
        /\ Size * hi \in Int /\ Size * h \in Int
    BY <1>1
  <2>. HIDE DEF js
  <2>. QED BY <1>1, <1>6, <2>1, <2>2, <2>3, <2>4
<1>8. Same((Size * w) + tmp, ((Size * hi) + lo) - ((Size * h) + l))
  BY <1>7 DEF Same
<1>9. /\ Wide(<<w, tmp>>) = (Size * w) + tmp /\ Wide(<<hi, lo>>) = (Size * hi) + lo
      /\ Wide(<<h, l>>) = (Size * h) + l
  BY DEF Wide
<1>. QED BY <1>3, <1>4, <1>6, <1>8, <1>9 DEF w
-----------------------------------------------------------------------------
(* Quotients *)

\* The quotient C truncates, with the remainder it leaves.
LEMMA Truncated ==
    ASSUME NEW a \in Int, NEW b \in Int, b # 0
    PROVE  LET q == Quotient(a, b)  r == a - (b * q) IN
           /\ q \in Int /\ r \in Int /\ b * q \in Int /\ Abs(q) * Abs(b) <= Abs(a)
           /\ Abs(r) < Abs(b) /\ (r = 0 \/ (r < 0) = (a < 0))
           /\ Abs(r) + (Abs(q) * Abs(b)) = Abs(a)
           /\ (a >= 0 /\ b >= 0 => q >= 0)
<1>. DEFINE m == Abs(a)  d == Abs(b)  p == m \div d  e == m % d
            q == Quotient(a, b)  r == a - (b * q)
<1>1. m \in Nat /\ d \in Nat /\ d > 0
  BY DEF Abs
<1>2. p \in Int /\ e \in 0 .. d - 1 /\ m = (p * d) + e
  BY <1>1, DivMod
<1>3. q = IF (a < 0) = (b < 0) THEN p ELSE -p
  BY DEF Quotient
<1>4. m = (IF a < 0 THEN -a ELSE a) /\ d = IF b < 0 THEN -b ELSE b
  BY DEF Abs
<1>. HIDE DEF p, e, m, d
<1>5. p >= 0
  <2>1. ASSUME p < 0 PROVE FALSE
    <3>. DEFINE c == -1 - p
    <3>1. c \in Nat /\ p = -1 - c
      BY <1>2, <2>1
    <3>. HIDE DEF c
    <3>2. p * d = (-d) - (c * d) /\ c * d \in Nat
      BY <1>1, <3>1
    <3>. QED BY <1>1, <1>2, <3>2
  <2>. QED BY <1>2, <2>1
<1>6. p * d \in Nat /\ p * d <= m
  BY <1>1, <1>2, <1>5
<1>7. q \in Int /\ Abs(q) = p
  BY <1>2, <1>3, <1>5 DEF Abs
<1>. HIDE DEF q
<1>8. b * q = IF a < 0 THEN -(p * d) ELSE p * d
  BY <1>2, <1>3, <1>4, Signs
<1>9. r = IF a < 0 THEN -e ELSE e
  BY <1>2, <1>4, <1>6, <1>8
<1>10. b * q \in Int
  BY <1>6, <1>8
<1>. HIDE DEF r
<1>11. r \in Int /\ Abs(r) = e /\ (r = 0 \/ (r < 0) = (a < 0))
  BY <1>1, <1>2, <1>9 DEF Abs
<1>12. a >= 0 /\ b >= 0 => q >= 0
  BY <1>3, <1>5
<1>. QED BY <1>1, <1>2, <1>6, <1>7, <1>10, <1>11, <1>12 DEF q, r, m, d

LEMMA SignedQuotient ==
    ASSUME NEW x \in Word, NEW y \in Word, y # 0, ~(x = Size \div 2 /\ y = Size - 1)
    PROVE  LET a == Signed(x)  b == Signed(y)  p == Divided(a, b) IN
           /\ p[1] \in Word /\ p[2] \in Word
           /\ DividesInto(a, b, Signed(p[2]), Signed(p[1]))
<1>. DEFINE a == Signed(x)  b == Signed(y)  q == Quotient(a, b)  r == a - (b * q)
            half == Size \div 2
<1>1. /\ half \in Nat /\ a \in -half .. half - 1 /\ b \in -half .. half - 1
      /\ b # 0 /\ ~(a = -half /\ b = -1)
  BY SizeIsEven DEF Signed, Negative, Word
<1>. HIDE DEF a, b
<1>2. /\ q \in Int /\ r \in Int /\ b * q \in Int /\ Abs(q) * Abs(b) <= Abs(a)
      /\ Abs(r) < Abs(b) /\ (r = 0 \/ (r < 0) = (a < 0))
  BY <1>1, Truncated
<1>3. (a = -half /\ b = 1) => q = -half
  <2>1. half > 0
    BY SizeIsEven
  <2>2. -half < 0 /\ ~(1 < 0) /\ Abs(-half) = half /\ Abs(1) = 1
    BY <1>1, <2>1 DEF Abs
  <2>3. half \div 1 = half
    BY <1>1
  <2>. QED BY <2>2, <2>3 DEF Quotient
<1>. HIDE DEF q
<1>4. a = (b * q) + r
  BY <1>1, <1>2
<1>. HIDE DEF r
<1>5. r \in SignedWord
  BY <1>1, <1>2 DEF Abs, SignedWord
<1>6. q \in SignedWord
  <2>. DEFINE p == Abs(q)  d == Abs(b)
  <2>1. p \in Nat /\ d \in Nat /\ d >= 1 /\ p * d <= Abs(a) /\ Abs(a) <= half /\ Abs(a) \in Nat
    BY <1>1, <1>2 DEF Abs
  <2>2. p <= half - 1 => q \in SignedWord
    BY <1>1, <1>2 DEF Abs, SignedWord
  <2>3. (d = 1 => p <= Abs(a)) /\ (d >= 2 => p * 2 <= Abs(a))
    <3>1. p * 1 = p
      BY <2>1
    <3>2. d >= 2 => p * 2 <= p * d
      BY <2>1, Monotone
    <3>. HIDE DEF p, d
    <3>3. p * d \in Int /\ p * 2 \in Int /\ p \in Int
      BY <2>1
    <3>. QED BY <2>1, <3>1, <3>2, <3>3
  <2>4. half >= 8
    BY SizeIsEven
  <2>5. CASE d >= 2
    <3>1. p <= half - 1
      BY <1>1, <2>1, <2>3, <2>4, <2>5
    <3>. QED BY <2>2, <3>1
  <2>6. CASE d = 1 /\ a # -half
    <3>1. Abs(a) <= half - 1
      BY <1>1, <2>6 DEF Abs
    <3>2. p <= half - 1
      BY <1>1, <2>1, <2>3, <2>6, <3>1
    <3>. QED BY <2>2, <3>2
  <2>7. CASE d = 1 /\ a = -half
    <3>1. b = 1
      BY <1>1, <2>7 DEF Abs
    <3>2. q = -half
      BY <1>3, <2>7, <3>1
    <3>. QED BY <1>1, <2>4, <3>2 DEF SignedWord
  <2>. QED BY <2>1, <2>5, <2>6, <2>7
<1>7. /\ Wrap(r) \in Word /\ Signed(Wrap(r)) = r
      /\ Wrap(q) \in Word /\ Signed(Wrap(q)) = q
  BY <1>5, <1>6, SignedWrap
<1>8. Divided(a, b) = <<Wrap(r), Wrap(q)>>
  BY DEF Divided, q, r
<1>9. DividesInto(a, b, q, r)
  BY <1>2, <1>4 DEF DividesInto
<1>. QED BY <1>7, <1>8, <1>9 DEF a, b

LEMMA UnsignedQuotient ==
    ASSUME NEW a \in Word, NEW b \in Word, b # 0
    PROVE  LET p == Divided(a, b) IN
           p[1] \in Word /\ p[2] \in Word /\ DividesInto(a, b, p[2], p[1])
<1>. DEFINE q == Quotient(a, b)  r == a - (b * q)
<1>1. Size \in Nat /\ a \in 0 .. Size - 1 /\ b \in 1 .. Size - 1
  BY SizeIsEven DEF Word
<1>2. /\ q \in Int /\ r \in Int /\ b * q \in Int /\ Abs(q) * Abs(b) <= Abs(a)
      /\ Abs(r) < Abs(b) /\ (r = 0 \/ (r < 0) = (a < 0)) /\ q >= 0
  BY <1>1, Truncated
<1>. HIDE DEF q
<1>3. a = (b * q) + r
  BY <1>1, <1>2
<1>. HIDE DEF r
<1>4. r \in Word
  BY <1>1, <1>2 DEF Abs, Word
<1>5. q \in Word
  <2>1. q \in Nat /\ Abs(q) = q /\ Abs(b) = b /\ Abs(a) = a
    BY <1>1, <1>2 DEF Abs
  <2>2. q * 1 <= q * b /\ q * 1 = q
    BY <1>1, <2>1, Monotone
  <2>3. q * b <= a /\ q * b \in Int
    BY <1>1, <1>2, <2>1
  <2>. QED BY <1>1, <2>1, <2>2, <2>3 DEF Word
<1>6. Wrap(r) = r /\ Wrap(q) = q
  <2>1. r = (0 * Size) + r /\ q = (0 * Size) + q
    BY <1>1, <1>2
  <2>. QED BY <1>2, <1>4, <1>5, <2>1, WrapOf
<1>7. Divided(a, b) = <<Wrap(r), Wrap(q)>>
  BY DEF Divided, q, r
<1>8. DividesInto(a, b, q, r)
  BY <1>2, <1>3 DEF DividesInto
<1>. QED BY <1>4, <1>5, <1>6, <1>7, <1>8

-----------------------------------------------------------------------------
(* Shifts *)

LEMMA ShiftedRight ==
    ASSUME NEW n \in SignedWord, NEW d \in Nat, d > 0
    PROVE  n \div d \in SignedWord /\ n - ((n \div d) * d) \in 0 .. d - 1
<1>. DEFINE q == n \div d  e == n % d  half == Size \div 2
<1>1. half \in Nat /\ half > 0 /\ n \in -half .. half - 1
  BY SizeIsEven DEF SignedWord
<1>2. q \in Int /\ e \in 0 .. d - 1 /\ n = (q * d) + e
  BY <1>1, DivMod
<1>. HIDE DEF q, e, half
<1>3. ASSUME q < -half PROVE FALSE
  <2>. DEFINE c == (-half) - 1 - q
  <2>1. c \in Nat /\ q = ((-half) - 1) - c
    BY <1>1, <1>2, <1>3
  <2>. HIDE DEF c
  <2>2. q * d = ((-(half * d)) - d) - (c * d) /\ c * d \in Nat
    BY <1>1, <2>1
  <2>3. half * 1 <= half * d /\ half * 1 = half /\ half * d \in Nat
    BY <1>1, Monotone
  <2>. QED BY <1>1, <1>2, <2>2, <2>3
<1>4. ASSUME q >= half PROVE FALSE
  <2>1. half * 1 <= q * d /\ half * 1 = half /\ q * d \in Nat
    BY <1>1, <1>2, <1>4, Monotone
  <2>. QED BY <1>1, <1>2, <2>1
<1>5. q \in -half .. half - 1
  BY <1>1, <1>2, <1>3, <1>4
<1>6. q * d \in Int
  BY <1>2
<1>7. n - (q * d) \in 0 .. d - 1
  BY <1>1, <1>2, <1>6
<1>. QED BY <1>5, <1>7 DEF q, half, SignedWord

-----------------------------------------------------------------------------
(* Leading bits *)

LEMMA HasMax ==
    ASSUME NEW E \in SUBSET (-1 .. W - 1), -1 \in E
    PROVE  Max(E) \in E /\ \A x \in E : x <= Max(E)
<1>. DEFINE T == {k \in Nat : \A x \in E : x < W - k}
<1>1. ASSUME \A m \in E : \E x \in E : ~(m >= x) PROVE FALSE
  <2>1. W \in Nat
    BY WordSizes
  <2>2. 0 \in T
    BY <2>1
  <2>3. ASSUME NEW k \in T PROVE k + 1 \in T
    <3>1. k \in Nat /\ \A x \in E : x \in Int /\ x <= W - (k + 1)
      BY <2>1
    <3>2. W - (k + 1) \notin E
      BY <1>1, <2>1, <3>1
    <3>3. \A x \in E : x < W - (k + 1)
      BY <2>1, <3>1, <3>2
    <3>. QED BY <3>1, <3>3
  <2>. HIDE DEF T
  <2>4. T = Nat
    BY <2>2, <2>3, Induction DEF T
  <2>5. W + 1 \in T
    BY <2>1, <2>4
  <2>6. -1 < W - (W + 1)
    BY <2>5 DEF T
  <2>. QED BY <2>1, <2>6
<1>2. \E m \in E : \A x \in E : m >= x
  BY <1>1
<1>3. Max(E) \in E /\ \A x \in E : Max(E) >= x
  BY <1>2 DEF Max
<1>4. \A x \in E : x \in Int
  BY WordSizes
<1>. QED BY <1>3, <1>4

\* The bits set in a word.
Ones(x) == {i \in 0 .. W - 1 : Bit(x, i) # 0}

LEMMA HighestBit ==
    ASSUME NEW x \in Word, NEW m, m = Max({-1} \cup Ones(x))
    PROVE  /\ m \in -1 .. W - 1 /\ x < TwoTo(m + 1)
           /\ m >= 0 => TwoTo(m) <= x
<1>1. W \in Nat /\ W >= 4
  BY WordSizes
<1>2. x \in Nat /\ x < TwoTo(W)
  BY SizeIsEven DEF Word, Size
<1>3. m \in {-1} \cup Ones(x) /\ \A i \in {-1} \cup Ones(x) : i <= m
  <2>1. {-1} \cup Ones(x) \in SUBSET (-1 .. W - 1)
    BY <1>1 DEF Ones
  <2>. QED BY <2>1, HasMax
<1>4. m \in -1 .. W - 1
  BY <1>1, <1>3 DEF Ones
<1>5. ASSUME m >= 0 PROVE TwoTo(m) <= x
  <2>1. m \in Nat /\ Bit(x, m) # 0
    BY <1>3, <1>4, <1>5 DEF Ones
  <2>. DEFINE d == TwoTo(m)
  <2>2. d \in Nat /\ d > 0
    BY <2>1, TwoToNext
  <2>3. Bit(x, m) = (x \div d) % 2
    BY DEF Bit
  <2>. HIDE DEF d
  <2>4. ASSUME x < d PROVE FALSE
    <3>1. x = (0 * d) + x
      BY <1>2, <2>2
    <3>2. x \div d = 0
      BY <1>2, <2>2, <2>4, <3>1, ModOf
    <3>. QED BY <2>1, <2>3, <3>2
  <2>5. d <= x
    BY <1>2, <2>2, <2>4
  <2>. QED BY <2>5 DEF d
<1>. DEFINE T == {k \in Nat : W - k >= m + 1 => x < TwoTo(W - k)}
<1>6. 0 \in T
  BY <1>1, <1>2
<1>7. ASSUME NEW k \in T PROVE k + 1 \in T
  <2>1. k \in Nat
    OBVIOUS
  <2>2. ASSUME W - (k + 1) >= m + 1 PROVE x < TwoTo(W - (k + 1))
    <3>. DEFINE i == W - (k + 1)  d == TwoTo(i)
    <3>1. i \in 0 .. W - 1 /\ i > m /\ i \in Nat /\ W - k = i + 1 /\ W - k >= m + 1
      BY <1>1, <1>4, <2>1, <2>2
    <3>2. x < TwoTo(i + 1)
      BY <3>1
    <3>. HIDE DEF i
    <3>3. d \in Nat /\ d > 0 /\ x < 2 * d
      BY <3>1, <3>2, TwoToNext
    <3>4. i \notin Ones(x)
      BY <1>3, <1>4, <3>1
    <3>5. (x \div d) % 2 = 0
      BY <3>1, <3>4 DEF Ones, Bit
    <3>. HIDE DEF d
    <3>6. ASSUME x >= d PROVE FALSE
      <4>1. x = (1 * d) + (x - d) /\ x - d \in Nat /\ x - d < d
        BY <1>2, <3>3, <3>6
      <4>2. x \div d = 1
        BY <1>2, <3>3, <4>1, ModOf
      <4>. QED BY <3>5, <4>2
    <3>. QED BY <1>2, <3>3, <3>6 DEF d, i
  <2>. QED BY <2>1, <2>2
<1>. HIDE DEF T
<1>8. T = Nat
  BY <1>6, <1>7, Induction DEF T
<1>9. W - (m + 1) \in Nat /\ W - (W - (m + 1)) = m + 1
  BY <1>1, <1>4
<1>10. W - (m + 1) \in T
  BY <1>8, <1>9
<1>11. x < TwoTo(m + 1)
  <2>1. W - (W - (m + 1)) >= m + 1 => x < TwoTo(W - (W - (m + 1)))
    BY <1>10 DEF T
  <2>. QED BY <1>4, <1>9, <2>1
<1>. QED BY <1>4, <1>5, <1>11

LEMMA NotBit ==
    ASSUME NEW x \in Word, NEW i \in 0 .. W - 1
    PROVE  Not(x) \in Word /\ (Bit(Not(x), i) # 0 <=> Bit(x, i) # 1)
<1>. DEFINE d == TwoTo(i)  u == TwoTo((W - 1) - i)  q == x \div d  e == x % d
<1>1. W \in Nat /\ i \in Nat /\ (W - 1) - i \in Nat /\ W = (i + 1) + ((W - 1) - i)
  BY WordSizes
<1>2. d \in Nat /\ d > 0 /\ u \in Nat /\ TwoTo(i + 1) = 2 * d /\ i + 1 \in Nat
  BY <1>1, TwoToNext
<1>3. Size = (2 * d) * u
  BY <1>1, <1>2, TwoToSum DEF Size
<1>4. x \in Int /\ x \in 0 .. Size - 1 /\ Size \in Nat
  BY SizeIsEven DEF Word
<1>5. Not(x) = (Size - 1) - x /\ Not(x) \in Word
  BY <1>4 DEF Not, Word
<1>. HIDE DEF d, u
<1>6. q \in Int /\ e \in 0 .. d - 1 /\ x = (q * d) + e
  BY <1>2, <1>4, DivMod
<1>. HIDE DEF q, e
<1>. DEFINE c == ((2 * u) - 1) - q  f == (d - 1) - e
<1>7. c \in Int /\ f \in Nat /\ f < d
  BY <1>2, <1>6
<1>8. (Size - 1) - x = (c * d) + f
  <2>1. c * d = (((2 * d) * u) - d) - (q * d)
    BY <1>2, <1>6
  <2>2. q * d \in Int /\ (2 * d) * u \in Int
    BY <1>2, <1>6
  <2>. QED BY <1>2, <1>3, <1>4, <1>6, <2>1, <2>2
<1>9. Not(x) \div d = c
  BY <1>2, <1>4, <1>5, <1>7, <1>8, ModOf
<1>10. c % 2 # 0 <=> q % 2 # 1
  BY <1>2, <1>6
<1>11. Bit(Not(x), i) = c % 2 /\ Bit(x, i) = q % 2
  BY <1>9 DEF Bit, d, q
<1>. QED BY <1>5, <1>10, <1>11

\* The first bit from the top that is not b is the first one of the word, or of
\* its complement.
LEMMA LeadingShape ==
    ASSUME rs \in Word, NEW b \in {0, 1}
    PROVE  LET n == Leading(b)  x == IF b = 0 THEN rs ELSE Not(rs) IN
           n \in 0 .. W /\ x < TwoTo(W - n) /\ (n < W => TwoTo(W - n - 1) <= x)
<1>. DEFINE x == IF b = 0 THEN rs ELSE Not(rs)
            D == {i \in 0 .. W - 1 : Bit(rs, i) # b}  m == Max({-1} \cup D)
<1>1. Leading(b) = W - 1 - m
  BY DEF Leading
<1>2. W \in Nat
  BY WordSizes
<1>3. x \in Word
  <2>1. 0 \in 0 .. W - 1
    BY WordSizes
  <2>. QED BY <2>1, NotBit
<1>4. D = Ones(x)
  BY NotBit DEF Ones
<1>5. m = Max({-1} \cup Ones(x))
  BY <1>4
<1>. HIDE DEF D, m, x
<1>6. m \in -1 .. W - 1 /\ x < TwoTo(m + 1) /\ (m >= 0 => TwoTo(m) <= x)
  BY <1>3, <1>5, HighestBit
<1>. DEFINE n == W - 1 - m
<1>7. n \in 0 .. W /\ W - n = m + 1 /\ W - n - 1 = m /\ (n < W => m >= 0)
  BY <1>2, <1>6
<1>. QED BY <1>1, <1>6, <1>7 DEF x
-----------------------------------------------------------------------------
(* The integer instructions *)

AluShape ==
    /\ rs \in Word /\ rt \in Word /\ old \in Word \X Word
    /\ op = "none" => hi = old[1] /\ lo = old[2] /\ trap = FALSE

\* Before an instruction HI and LO are what the ghost says.
Ready == rs \in Word /\ rt \in Word /\ hi \in Word /\ lo \in Word /\ trap = FALSE /\ old = <<hi, lo>>

LEMMA Executed ==
    ASSUME AluShape, NEW name, Execute(name)
    PROVE  Ready /\ op' = name /\ rs' = rs /\ rt' = rt /\ old' = old
BY DEF AluShape, Execute, Ready

\* What trap and rd must be if the sum or difference is n.
Exactly(n) == trap' = Beyond(n) /\ (~trap' => Signed(rd') = n)

LEMMA AddStep == ASSUME AluShape, Add PROVE op' # "none" /\ ArithmeticExact'
<1>1. ASSUME NEW b \in Word, NEW name, Sum(name, b), Ready
      PROVE  Exactly(Signed(rs) + Signed(b))
  <2>. DEFINE r == Wrap(rs + b)
  <2>1. rs \in Word /\ trap = FALSE
    BY <1>1 DEF Ready
  <2>2. IF Overflows(r, rs, b) THEN Raise ELSE Result(r)
    BY <1>1 DEF Sum
  <2>3. Overflows(r, rs, b) \in BOOLEAN /\ Beyond(Signed(rs) + Signed(b)) \in BOOLEAN
    BY DEF Overflows, Beyond
  <2>4. /\ Overflows(r, rs, b) <=> Beyond(Signed(rs) + Signed(b))
        /\ ~Overflows(r, rs, b) => Signed(r) = Signed(rs) + Signed(b)
    BY <2>1, SumIsExact
  <2>. HIDE DEF r
  <2>. QED BY <2>1, <2>2, <2>3, <2>4 DEF Raise, Result, Exactly
<1>2. ASSUME Sum("add", rt) PROVE op' = "add" /\ Exact(Signed(rs) + Signed(rt))'
  <2>1. Ready /\ op' = "add" /\ rs' = rs /\ rt' = rt
    BY <1>2, Executed DEF Sum
  <2>2. Exactly(Signed(rs) + Signed(rt))
    BY <1>1, <1>2, <2>1 DEF Ready
  <2>3. (Signed(rs) + Signed(rt))' = Signed(rs) + Signed(rt) /\ Signed(rd)' = Signed(rd')
    BY <2>1
  <2>. QED BY <2>1, <2>2, <2>3 DEF Exactly, Exact, Beyond
<1>3. ASSUME Sum("addi", Imm) PROVE op' = "addi" /\ Exact(Signed(rs) + Signed(Imm))'
  <2>1. Ready /\ op' = "addi" /\ rs' = rs /\ rt' = rt
    BY <1>3, Executed DEF Sum
  <2>2. Exactly(Signed(rs) + Signed(Imm))
    BY <1>1, <1>3, <2>1, ImmShape DEF Ready
  <2>3. (Signed(rs) + Signed(Imm))' = Signed(rs) + Signed(Imm) /\ Signed(rd)' = Signed(rd')
    BY <2>1 DEF Imm
  <2>. QED BY <2>1, <2>2, <2>3 DEF Exactly, Exact, Beyond
<1>. QED BY <1>2, <1>3 DEF Add, ArithmeticExact

LEMMA SubStep == ASSUME AluShape, Sub PROVE op' # "none" /\ ArithmeticExact'
<1>1. Ready /\ op' = "sub" /\ rs' = rs /\ rt' = rt
  BY Executed DEF Sub
<1>2. rs \in Word /\ rt \in Word /\ trap = FALSE
  BY <1>1 DEF Ready
<1>. DEFINE r == Wrap(rs - rt)
            over == Negative(rs) # Negative(rt) /\ Negative(rs) # Negative(r)
<1>3. IF over THEN Raise ELSE Result(r)
  BY DEF Sub
<1>4. (over <=> Beyond(Signed(rs) - Signed(rt))) /\ (~over => Signed(r) = Signed(rs) - Signed(rt))
  BY <1>2, DifferenceIsExact
<1>5. over \in BOOLEAN /\ Beyond(Signed(rs) - Signed(rt)) \in BOOLEAN
  BY DEF Beyond
<1>. HIDE DEF r, over
<1>6. Exactly(Signed(rs) - Signed(rt))
  BY <1>2, <1>3, <1>4, <1>5 DEF Raise, Result, Exactly
<1>7. (Signed(rs) - Signed(rt))' = Signed(rs) - Signed(rt) /\ Signed(rd)' = Signed(rd')
  BY <1>1
<1>8. Exact(Signed(rs) - Signed(rt))'
  BY <1>6, <1>7 DEF Exactly, Exact, Beyond
<1>. QED BY <1>1, <1>8 DEF ArithmeticExact

\* The numbers the instructions multiply do not change.
LEMMA Operands ==
    ASSUME Ready, rs' = rs, rt' = rt, old' = old
    PROVE  /\ SignedProduct \in Int /\ SignedProduct' = SignedProduct
           /\ rs * rt \in Int /\ (rs * rt)' = rs * rt
           /\ Wide(old) \in Int /\ Wide(old)' = Wide(old) /\ Wide(old) = Wide(<<hi, lo>>)
<1>1. /\ Signed(rs) \in Int /\ Signed(rt) \in Int /\ rs \in Int /\ rt \in Int
      /\ hi \in Int /\ lo \in Int /\ Size \in Int
  BY SizeIsEven DEF Ready, Signed, Word
<1>2. SignedProduct \in Int /\ SignedProduct' = SignedProduct /\ rs * rt \in Int
  BY <1>1 DEF SignedProduct
<1>3. Wide(old) = Wide(<<hi, lo>>) /\ Wide(<<hi, lo>>) = (Size * hi) + lo
  BY DEF Ready, Wide
<1>4. Wide(old) \in Int
  BY <1>1, <1>3
<1>. QED BY <1>2, <1>3, <1>4

\* The words an instruction leaves in HI and LO have the number n.
LEMMA HeldWide ==
    ASSUME NEW n \in Int, NEW p, HiLo(p), p[1] \in Word, p[2] \in Word, Same(Wide(<<p[1], p[2]>>), n)
    PROVE  Wide(<<hi', lo'>>) = n % (Size * Size)
<1>1. hi' = p[1] /\ lo' = p[2]
  BY DEF HiLo
<1>. QED BY <1>1, SameAsRemainder

LEMMA SameItself == ASSUME NEW n \in Int PROVE Same(n, n)
<1>1. n = n + (0 * (Size * Size))
  BY SizeIsEven
<1>. QED BY <1>1 DEF Same

LEMMA SameSum ==
    ASSUME NEW a \in Int, NEW b \in Int, NEW n \in Int, NEW x \in Int, Same(b, n)
    PROVE  /\ Same(x, a + b) => Same(x, a + n)
           /\ Same(x, a - b) => Same(x, a - n)
<1>. DEFINE d == Size * Size
<1>1. d \in Int
  BY SizeIsEven
<1>2. PICK k \in Int : b = n + (k * d)
  BY DEF Same
<1>. HIDE DEF d
<1>3. ASSUME NEW j \in Int
      PROVE  (j + k) * d = (j * d) + (k * d) /\ (j - k) * d = (j * d) - (k * d)
             /\ j * d \in Int /\ k * d \in Int
  BY <1>1
<1>4. ASSUME NEW j \in Int, x = (a + b) + (j * d) PROVE Same(x, a + n)
  <2>1. x = (a + n) + ((j + k) * d) /\ j + k \in Int
    BY <1>2, <1>3, <1>4
  <2>. QED BY <2>1 DEF Same, d
<1>5. ASSUME NEW j \in Int, x = (a - b) + (j * d) PROVE Same(x, a - n)
  <2>1. x = (a - n) + ((j - k) * d) /\ j - k \in Int
    BY <1>2, <1>3, <1>5
  <2>. QED BY <2>1 DEF Same, d
<1>. QED BY <1>4, <1>5 DEF Same, d
LEMMA MultiplyStep == ASSUME AluShape, Multiply PROVE op' # "none" /\ ArithmeticExact'
<1>. DEFINE p == SignedMultiply(rs, rt)  u == UnsignedMultiply(rs, rt)
<1>1. ASSUME Ready
      PROVE  /\ p = <<p[1], p[2]>> /\ p[1] \in Word /\ p[2] \in Word
             /\ Same(Wide(<<p[1], p[2]>>), SignedProduct)
             /\ u = <<u[1], u[2]>> /\ u[1] \in Word /\ u[2] \in Word
             /\ Wide(<<u[1], u[2]>>) = rs * rt
  <2>1. u = <<u[1], u[2]>>
    BY DEF UnsignedMultiply
  <2>2. rs \in Word /\ rt \in Word
    BY <1>1 DEF Ready
  <2>. QED BY <2>1, <2>2, UnsignedProduct, SignedMultiplyShape DEF SignedProduct
<1>. HIDE DEF p, u
<1>2. ASSUME Execute("mult"), HiLo(p) PROVE op' = "mult" /\ HoldsWide(SignedProduct)'
  <2>1. Ready /\ op' = "mult" /\ rs' = rs /\ rt' = rt /\ old' = old
    BY <1>2, Executed
  <2>2. SignedProduct \in Int /\ SignedProduct' = SignedProduct
    BY <2>1, Operands
  <2>3. Wide(<<hi', lo'>>) = SignedProduct % (Size * Size)
    BY <1>1, <1>2, <2>1, <2>2, HeldWide
  <2>. QED BY <2>1, <2>2, <2>3 DEF HoldsWide
<1>3. ASSUME Execute("multu"), HiLo(u) PROVE op' = "multu" /\ HoldsWide(rs * rt)'
  <2>1. Ready /\ op' = "multu" /\ rs' = rs /\ rt' = rt /\ old' = old
    BY <1>3, Executed
  <2>2. rs * rt \in Int /\ (rs * rt)' = rs * rt
    BY <2>1, Operands
  <2>3. Same(Wide(<<u[1], u[2]>>), rs * rt)
    BY <1>1, <2>1, <2>2, SameItself
  <2>4. Wide(<<hi', lo'>>) = (rs * rt) % (Size * Size)
    BY <1>1, <1>3, <2>1, <2>2, <2>3, HeldWide
  <2>. QED BY <2>1, <2>2, <2>4 DEF HoldsWide
<1>4. ASSUME Execute("mul"), rd' = p[2] PROVE op' = "mul" /\ rd' = Wrap(SignedProduct)'
  <2>1. Ready /\ op' = "mul" /\ rs' = rs /\ rt' = rt /\ old' = old
    BY <1>4, Executed
  <2>2. SignedProduct \in Int /\ SignedProduct' = SignedProduct
    BY <2>1, Operands
  <2>3. PICK k \in Int : Wide(<<p[1], p[2]>>) = SignedProduct + (k * (Size * Size))
    BY <1>1, <2>1 DEF Same
  <2>4. p[1] \in Int /\ p[2] \in Int /\ p[2] \in Word /\ Size \in Int
    BY <1>1, <2>1, SizeIsEven DEF Word
  <2>5. Wide(<<p[1], p[2]>>) = (Size * p[1]) + p[2]
    BY DEF Wide
  <2>. DEFINE q == p[1] - (k * Size)
  <2>6. q \in Int /\ q * Size = (Size * p[1]) - (k * (Size * Size))
    BY <2>4
  <2>. HIDE DEF q
  <2>7. Size * p[1] \in Int /\ k * (Size * Size) \in Int
    BY <2>4
  <2>8. SignedProduct = (q * Size) + p[2]
    BY <2>2, <2>3, <2>4, <2>5, <2>6, <2>7
  <2>9. Wrap(SignedProduct) = p[2]
    BY <2>2, <2>4, <2>6, <2>8, WrapOf
  <2>. QED BY <1>4, <2>1, <2>2, <2>9 DEF Wrap
<1>5. \/ Execute("mult") /\ HiLo(p)
      \/ Execute("multu") /\ HiLo(u)
      \/ Execute("mul") /\ rd' = p[2]
  BY DEF Multiply, p, u
<1>. QED BY <1>2, <1>3, <1>4, <1>5 DEF ArithmeticExact

LEMMA MultiplyAddStep == ASSUME AluShape, MultiplyAdd PROVE op' # "none" /\ ArithmeticExact'
<1>. DEFINE a == Wide(old)
\* Adding p to HI and LO, or taking it away, does so with what p is the same as.
<1>1. ASSUME Ready, old' = old, NEW p, p = <<p[1], p[2]>>, p[1] \in Word, p[2] \in Word,
             NEW n \in Int, Same(Wide(p), n)
      PROVE  /\ HiLo(Accumulated(p)) => Wide(<<hi', lo'>>) = (a + n) % (Size * Size)
             /\ HiLo(Reduced(p)) => Wide(<<hi', lo'>>) = (a - n) % (Size * Size)
  <2>. DEFINE b == Wide(<<p[1], p[2]>>)  s == Accumulated(p)  t == Reduced(p)
  <2>1. \A h \in Word, l \in Word : Wide(<<h, l>>) \in Int
    BY SizeIsEven DEF Wide, Word
  <2>2. hi \in Word /\ lo \in Word /\ a = Wide(<<hi, lo>>) /\ a \in Int /\ b \in Int
    BY <1>1, <2>1 DEF Ready
  <2>3. /\ s = <<s[1], s[2]>> /\ s[1] \in Word /\ s[2] \in Word /\ Same(Wide(s), a + b)
        /\ t = <<t[1], t[2]>> /\ t[1] \in Word /\ t[2] \in Word /\ Same(Wide(t), a - b)
    <3>. DEFINE sp == Accumulated(<<p[1], p[2]>>)  tp == Reduced(<<p[1], p[2]>>)
    <3>1. /\ sp = <<sp[1], sp[2]>> /\ sp[1] \in Word /\ sp[2] \in Word
          /\ Same(Wide(sp), Wide(<<hi, lo>>) + b)
      BY <1>1, <2>2, AccumulatedShape
    <3>2. /\ tp = <<tp[1], tp[2]>> /\ tp[1] \in Word /\ tp[2] \in Word
          /\ Same(Wide(tp), Wide(<<hi, lo>>) - b)
      BY <1>1, <2>2, ReducedShape
    <3>3. sp = s /\ tp = t
      BY <1>1
    <3>. HIDE DEF s, t, sp, tp, a, b
    <3>. QED BY <2>2, <3>1, <3>2, <3>3
  <2>4. Same(b, n)
    BY <1>1
  <2>. HIDE DEF a, b, s, t
  <2>5. Wide(s) \in Int /\ Wide(t) \in Int
    BY <2>1, <2>3
  <2>6. Same(Wide(s), a + n) /\ Same(Wide(t), a - n)
    BY <1>1, <2>2, <2>3, <2>4, <2>5, SameSum
  <2>7. a + n \in Int /\ a - n \in Int
    BY <1>1, <2>2
  <2>8. HiLo(s) => Wide(<<hi', lo'>>) = (a + n) % (Size * Size)
    BY <2>3, <2>6, <2>7, HeldWide
  <2>9. HiLo(t) => Wide(<<hi', lo'>>) = (a - n) % (Size * Size)
    BY <2>3, <2>6, <2>7, HeldWide
  <2>. QED BY <2>8, <2>9 DEF s, t
<1>. DEFINE p == SignedMultiply(rs, rt)  u == UnsignedMultiply(rs, rt)
<1>2. ASSUME Ready
      PROVE  /\ p = <<p[1], p[2]>> /\ p[1] \in Word /\ p[2] \in Word
             /\ Same(Wide(p), SignedProduct) /\ SignedProduct \in Int
             /\ u = <<u[1], u[2]>> /\ u[1] \in Word /\ u[2] \in Word
             /\ Same(Wide(u), rs * rt) /\ rs * rt \in Int
  <2>1. u = <<u[1], u[2]>>
    BY DEF UnsignedMultiply
  <2>2. rs \in Word /\ rt \in Word /\ rs * rt \in Int /\ SignedProduct \in Int
    <3>1. rs \in Int /\ rt \in Int /\ Signed(rs) \in Int /\ Signed(rt) \in Int
      BY <1>2, SizeIsEven DEF Ready, Word, Signed
    <3>. QED BY <1>2, <3>1 DEF Ready, SignedProduct
  <2>3. Wide(u) = rs * rt
    BY <2>2, UnsignedProduct
  <2>4. Same(rs * rt, rs * rt)
    BY <2>2, SameItself
  <2>. QED BY <2>1, <2>2, <2>3, <2>4, UnsignedProduct, SignedMultiplyShape DEF SignedProduct
<1>. HIDE DEF p, u
<1>3. ASSUME Ready, rs' = rs, rt' = rt, old' = old
      PROVE  /\ (a + SignedProduct)' = a + SignedProduct /\ (a + (rs * rt))' = a + (rs * rt)
             /\ (a - SignedProduct)' = a - SignedProduct /\ (a - (rs * rt))' = a - (rs * rt)
  BY <1>3, Operands
<1>. HIDE DEF a
<1>4. \A name : Execute(name) => Ready /\ op' = name /\ rs' = rs /\ rt' = rt /\ old' = old
  BY Executed
<1>5. ASSUME Execute("madd"), HiLo(Accumulated(p))
      PROVE  op' = "madd" /\ HoldsWide(a + SignedProduct)'
  <2>1. Wide(<<hi', lo'>>) = (a + SignedProduct) % (Size * Size)
    BY <1>1, <1>2, <1>4, <1>5
  <2>. QED BY <1>3, <1>4, <1>5, <2>1 DEF HoldsWide
<1>6. ASSUME Execute("maddu"), HiLo(Accumulated(u))
      PROVE  op' = "maddu" /\ HoldsWide(a + (rs * rt))'
  <2>1. Wide(<<hi', lo'>>) = (a + (rs * rt)) % (Size * Size)
    BY <1>1, <1>2, <1>4, <1>6
  <2>. QED BY <1>3, <1>4, <1>6, <2>1 DEF HoldsWide
<1>7. ASSUME Execute("msub"), HiLo(Reduced(p))
      PROVE  op' = "msub" /\ HoldsWide(a - SignedProduct)'
  <2>1. Wide(<<hi', lo'>>) = (a - SignedProduct) % (Size * Size)
    BY <1>1, <1>2, <1>4, <1>7
  <2>. QED BY <1>3, <1>4, <1>7, <2>1 DEF HoldsWide
<1>8. ASSUME Execute("msubu"), HiLo(Reduced(u))
      PROVE  op' = "msubu" /\ HoldsWide(a - (rs * rt))'
  <2>1. Wide(<<hi', lo'>>) = (a - (rs * rt)) % (Size * Size)
    BY <1>1, <1>2, <1>4, <1>8
  <2>. QED BY <1>3, <1>4, <1>8, <2>1 DEF HoldsWide
<1>9. \/ Execute("madd") /\ HiLo(Accumulated(p))
      \/ Execute("maddu") /\ HiLo(Accumulated(u))
      \/ Execute("msub") /\ HiLo(Reduced(p))
      \/ Execute("msubu") /\ HiLo(Reduced(u))
  BY DEF MultiplyAdd, p, u
<1>. QED BY <1>5, <1>6, <1>7, <1>8, <1>9 DEF ArithmeticExact, a
LEMMA DivideStep == ASSUME AluShape, Divide PROVE op' # "none" /\ ArithmeticExact'
<1>1. \A name : Execute(name) => Ready /\ op' = name /\ rs' = rs /\ rt' = rt
  BY Executed
<1>2. Undefined \in BOOLEAN
  BY DEF Undefined
<1>3. ASSUME Execute("div"), ~Undefined, HiLo(Divided(Signed(rs), Signed(rt)))
      PROVE  DividesInto(Signed(rs'), Signed(rt'), Signed(lo'), Signed(hi'))
  <2>. DEFINE p == Divided(Signed(rs), Signed(rt))
  <2>1. DividesInto(Signed(rs), Signed(rt), Signed(p[2]), Signed(p[1]))
    BY <1>1, <1>3, SignedQuotient DEF Ready, Undefined
  <2>. HIDE DEF p
  <2>2. hi' = p[1] /\ lo' = p[2]
    BY <1>3 DEF HiLo, p
  <2>. QED BY <1>1, <1>3, <2>1, <2>2
<1>4. ASSUME Execute("divu"), ~Undefined, HiLo(Divided(rs, rt))
      PROVE  DividesInto(rs', rt', lo', hi')
  <2>. DEFINE p == Divided(rs, rt)
  <2>1. DividesInto(rs, rt, p[2], p[1])
    BY <1>1, <1>4, UnsignedQuotient DEF Ready, Undefined
  <2>. HIDE DEF p
  <2>2. hi' = p[1] /\ lo' = p[2]
    BY <1>4 DEF HiLo, p
  <2>. QED BY <1>1, <1>4, <2>1, <2>2
<1>5. CASE Execute("div") /\ HiLo(IF Undefined THEN <<hi, lo>> ELSE Divided(Signed(rs), Signed(rt)))
  <2>1. op' = "div" /\ (Undefined' <=> Undefined)
    BY <1>1, <1>5 DEF Undefined
  <2>2. ~Undefined => DividesInto(Signed(rs), Signed(rt), Signed(lo), Signed(hi))'
    BY <1>2, <1>3, <1>5
  <2>. QED BY <2>1, <2>2 DEF ArithmeticExact
<1>6. CASE Execute("divu") /\ HiLo(IF Undefined THEN <<hi, lo>> ELSE Divided(rs, rt))
  <2>1. op' = "divu" /\ (Undefined' <=> Undefined)
    BY <1>1, <1>6 DEF Undefined
  <2>2. ~Undefined => DividesInto(rs, rt, lo, hi)'
    BY <1>2, <1>4, <1>6
  <2>. QED BY <2>1, <2>2 DEF ArithmeticExact
<1>. QED BY <1>5, <1>6 DEF Divide

LEMMA ShiftStep == ASSUME AluShape, Shift PROVE op' # "none" /\ ArithmeticExact'
<1>1. \A name : Execute(name) => Ready /\ op' = name /\ rs' = rs /\ rt' = rt
  BY Executed
<1>2. ASSUME Execute("srav"), Result(Wrap(Signed(rt) \div TwoTo(Shamt)))
      PROVE  ArithmeticExact'
  <2>. DEFINE d == TwoTo(Shamt)  q == Signed(rt) \div d
  <2>1. rs \in Nat /\ rt \in Word /\ Shamt \in Nat
    <3>1. rs \in Nat /\ rt \in Word /\ W \in Nat /\ W > 0
      BY <1>1, <1>2, WordSizes DEF Ready, Word
    <3>2. rs % W \in 0 .. W - 1
      BY <3>1, DivMod
    <3>. QED BY <3>1, <3>2 DEF Shamt
  <2>2. d \in Nat /\ d > 0
    BY <2>1, TwoToNext
  <2>3. Signed(rt) \in SignedWord
    BY <2>1, SignedShape
  <2>. HIDE DEF d
  <2>4. q \in SignedWord /\ Signed(rt) - (q * d) \in 0 .. d - 1
    BY <2>2, <2>3, ShiftedRight
  <2>5. Signed(Wrap(q)) = q
    BY <2>4, SignedWrap
  <2>6. rd' = Wrap(q)
    BY <1>2 DEF Result, d
  <2>. HIDE DEF q
  <2>7. Signed(rt) - (Signed(rd') * d) \in 0 .. d - 1
    BY <2>4, <2>5, <2>6
  <2>8. (Signed(rt) - Signed(rd) * TwoTo(Shamt) \in 0 .. TwoTo(Shamt) - 1)'
    <3>1. Shamt' = Shamt /\ Signed(rt') = Signed(rt)
      BY <1>1, <1>2 DEF Shamt
    <3>. QED BY <2>7, <3>1 DEF d
  <2>9. op' = "srav"
    BY <1>1, <1>2
  <2>. QED BY <2>8, <2>9 DEF ArithmeticExact
<1>3. ASSUME Execute("sllv") \/ Execute("srlv") PROVE ArithmeticExact'
  BY <1>1, <1>3 DEF ArithmeticExact
<1>4. op' # "none"
  BY <1>1 DEF Shift
<1>. QED BY <1>2, <1>3, <1>4 DEF Shift

LEMMA CountStep == ASSUME AluShape, Count PROVE op' # "none" /\ ArithmeticExact'
<1>1. \A name : Execute(name) => Ready /\ op' = name /\ rs' = rs
  BY Executed
<1>2. rs \in Word
  BY DEF AluShape
<1>3. ASSUME NEW b \in {0, 1}, NEW x, x = (IF b = 0 THEN rs ELSE Not(rs)), rd' = Leading(b)
      PROVE  x < TwoTo(W - rd') /\ (rd' < W => TwoTo(W - rd' - 1) <= x)
  BY <1>2, <1>3, LeadingShape
<1>4. CASE Execute("clo") /\ Result(Leading(1))
  <2>1. rd' = Leading(1) /\ op' = "clo" /\ rs' = rs
    BY <1>1, <1>4 DEF Result
  <2>2. Not(rs) < TwoTo(W - rd') /\ (rd' < W => TwoTo(W - rd' - 1) <= Not(rs))
    BY <1>3, <2>1
  <2>3. (Not(rs) < TwoTo(W - rd) /\ (rd < W => TwoTo(W - rd - 1) <= Not(rs)))'
    BY <2>1, <2>2
  <2>. QED BY <2>1, <2>3 DEF ArithmeticExact
<1>5. CASE Execute("clz") /\ Result(Leading(0))
  <2>1. rd' = Leading(0) /\ op' = "clz" /\ rs' = rs
    BY <1>1, <1>5 DEF Result
  <2>2. rs < TwoTo(W - rd') /\ (rd' < W => TwoTo(W - rd' - 1) <= rs)
    BY <1>3, <2>1
  <2>3. (rs < TwoTo(W - rd) /\ (rd < W => TwoTo(W - rd - 1) <= rs))'
    BY <2>1, <2>2
  <2>. QED BY <2>1, <2>3 DEF ArithmeticExact
<1>. QED BY <1>4, <1>5 DEF Count

\* Comparisons and traps are not what ArithmeticExact is about.
LEMMA CompareAndTrap ==
    ASSUME AluShape, SetLess \/ Trap
    PROVE  op' # "none" /\ ArithmeticExact'
<1>1. op' \in {"slt", "slti", "sltu", "sltiu", "teq", "teqi", "tne", "tnei", "tge", "tgei",
              "tgeu", "tgeiu", "tlt", "tlti", "tltu", "tltiu"}
  BY DEF SetLess, Trap, TrapIf, Execute
<1>. QED BY <1>1 DEF ArithmeticExact

LEMMA AluStart == Init => AluShape /\ ArithmeticExact
<1>1. AluInit => AluShape
  BY AluAssumption DEF AluInit, AluShape
<1>2. NoAlu => AluShape
  <2>1. 0 \in Word
    BY SizeIsEven DEF Word
  <2>. QED BY <2>1 DEF NoAlu, AluShape
<1>3. Init => AluShape /\ op = "none"
  BY <1>1, <1>2 DEF Init, AluInit, NoAlu
<1>4. op = "none" => ArithmeticExact
  BY DEF ArithmeticExact
<1>. QED BY <1>3, <1>4

LEMMA AluStep == AluShape /\ AluNext => (AluShape /\ ArithmeticExact)'
<1>1. ASSUME AluShape, AluNext PROVE op' # "none" /\ ArithmeticExact'
  BY <1>1, AddStep, SubStep, MultiplyStep, MultiplyAddStep, DivideStep, ShiftStep, CountStep,
     CompareAndTrap DEF AluNext
<1>2. ASSUME AluNext PROVE \E name : Execute(name)
  BY <1>2 DEF AluNext, Add, Sum, Sub, Multiply, MultiplyAdd, Divide, Shift, Count, SetLess,
             Trap, TrapIf
<1>3. ASSUME AluShape, AluNext PROVE AluShape'
  <2>1. rs' = rs /\ rt' = rt /\ old' = old
    BY <1>2, <1>3 DEF Execute
  <2>. QED BY <1>1, <1>3, <2>1 DEF AluShape
<1>. QED BY <1>1, <1>3

\* The integer instructions agree with arithmetic on words of any even number of
\* bits from four on, those of run_spim being one case.
THEOREM ArithmeticIsExact == Spec => []ArithmeticExact
<1>1. AluShape /\ ArithmeticExact /\ [Next]_vars => (AluShape /\ ArithmeticExact)'
  <2>1. Next => AluNext \/ UNCHANGED aluVars
    BY DEF Next, OneInstruction, Access
  <2>2. UNCHANGED vars => UNCHANGED aluVars
    BY DEF vars
  <2>3. AluShape /\ UNCHANGED aluVars => AluShape'
    BY DEF AluShape, aluVars
  <2>4. ArithmeticExact /\ UNCHANGED aluVars => ArithmeticExact'
    BY DEF ArithmeticExact, aluVars, Exact, HoldsWide, SignedProduct, Undefined, Imm, Shamt
  <2>. QED BY <2>1, <2>2, <2>3, <2>4, AluStep
<1>. QED BY <1>1, AluStart, PTL DEF Spec
=============================================================================
