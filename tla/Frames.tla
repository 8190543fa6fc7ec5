------------------------------- MODULE Frames -------------------------------
(***************************************************************************)
(* Activation records: the code ARSystem::prologue and epilogue            *)
(* (Register.cpp) and genFunctionCall (codeGen.c) emit for calls, running. *)
(* Memory is an array of words and the stack grows downwards; addresses    *)
(* count words, so 4*i in the source is i here.  The program is arbitrary: *)
(* at each step it assigns to a local, uses a callee-saved register, goes  *)
(* on with a call, whose arguments may contain calls, or returns.          *)
(***************************************************************************)
EXTENDS Integers, Sequences

CONSTANTS
    Functions, Main,    \* the functions, of which Main has no parameters
    ParamCount,         \* function -> number of parameters
    LocalSizes,         \* function -> the sizes of its locals, in words
    SavedRegs,          \* RegisterSystem::getCallee, a sequence of registers
    StackTop            \* bound: words of stack

VARIABLES
    mem,            \* the words of the stack
    sp, fp, ra,     \* $sp, $fp and $ra
    saved,          \* the callee-saved registers
    pc,             \* the position in the code
    frames          \* ghost: the activations, read from the words above

vars == <<mem, sp, fp, ra, saved, pc, frames>>

Words == 0 .. StackTop
SavedSet == {SavedRegs[i] : i \in DOMAIN SavedRegs}

\* The first i numbers of s together.
SumTo(s, i) ==
    LET to[k \in 0 .. i] == IF k = 0 THEN 0 ELSE to[k - 1] + s[k] IN to[i]

\* A position in the text segment: the function and the calls whose arguments
\* are being evaluated there, each with the number already stored.
At(f, calls) == [func |-> f, calls |-> calls]
calls == pc.calls
depth == Len(calls)
Restart == [func |-> "exit", calls |-> <<>>]

\* A word of the stack holds a number (a value or an address) or a position.
Number(v) == [num |-> v, pos |-> Restart]
Position(p) == [num |-> 0, pos |-> p]
Values == {Number(0), Number(1)}

\* ARSystem::clear and prologue: where the locals of a function begin.
FirstOffset == Len(SavedRegs)
\* Fault: the frame has no room for the saved registers.
FrameWithoutSaved(f) == SumTo(LocalSizes[f], Len(LocalSizes[f]))
\* _framesize_: totalOffset after the last declaration.
FrameSize(f) == FirstOffset + SumTo(LocalSizes[f], Len(LocalSizes[f]))

ASSUME FramesAssumption ==
    /\ Main \in Functions
    /\ ParamCount \in [Functions -> Nat] /\ ParamCount[Main] = 0
    /\ LocalSizes \in [Functions -> Seq(Nat)]
    /\ SavedRegs \in Seq(SavedSet)
    /\ \A i, k \in DOMAIN SavedRegs : SavedRegs[i] = SavedRegs[k] => i = k
    /\ StackTop \in Nat /\ StackTop - 2 - FrameSize(Main) \in Nat

\* ARSystem::addVariable: word j of local i of f, and parameter k, at frame fr.
LocalAddress(fr, f, i, j) ==
    fr - FirstOffset - SumTo(LocalSizes[f], i) + j
\* Fault: the first parameter is looked for in the slot of $ra.
ParamInLinkArea(fr, k) == fr + 1 + (k - 1)
ParamAddress(fr, k) == fr + 2 + (k - 1)
SavedAddress(fr, i) == fr - (i - 1) - 1

Write(m, a, v) == [m EXCEPT ![a] = v]

\* The stores of all callee-saved registers below frame fr.
SaveAll(m, fr) ==
    [a \in Words |-> IF fr - a \in DOMAIN SavedRegs THEN saved[SavedRegs[fr - a]] ELSE m[a]]
RestoreAll(m, fr) ==
    [r \in SavedSet |-> LET i == CHOOSE k \in DOMAIN SavedRegs : SavedRegs[k] = r
                            IN m[SavedAddress(fr, i)]]

\* ARSystem::prologue of f, entered with link as $ra.
Prologue(f, link) ==
    /\ sp - 2 - FrameSize(f) \in Words
    /\ ra' = link
    /\ mem' = SaveAll(Write(Write(mem, sp, Position(link)), sp - 1, Number(fp)), sp - 1)
    /\ fp' = sp - 1
    /\ sp' = sp - 2 - FrameSize(f)
    /\ pc' = At(f, <<>>)
    /\ UNCHANGED saved

Init ==
    /\ mem = [a \in Words |->
                IF a = StackTop - 1 THEN Number(StackTop) ELSE Number(0)]
    /\ sp = StackTop - 2 - FrameSize(Main) /\ fp = StackTop - 1
    /\ ra = Restart /\ saved = [r \in SavedSet |-> Number(0)]
    /\ pc = At(Main, <<>>)

\* An assignment to word j of local i, saved at once or at an eviction.
SetLocal(i, j, v) ==
    /\ mem' = Write(mem, LocalAddress(fp, pc.func, i, j), v)
    /\ UNCHANGED <<sp, fp, ra, saved, pc>>

\* The body works in a callee-saved register.
SetSaved(r, v) ==
    /\ saved' = [saved EXCEPT ![r] = v]
    /\ UNCHANGED <<mem, sp, fp, ra, pc>>

\* genFunctionCall: room for the arguments of g.
Prepare(g) ==
    /\ g # Main /\ sp - ParamCount[g] \in Words
    /\ sp' = sp - ParamCount[g]
    /\ pc' = At(pc.func, Append(calls, [callee |-> g, passed |-> 0]))
    /\ UNCHANGED <<mem, fp, ra, saved>>

\* Fault: the arguments are stored from 0($sp) upwards.
ArgAddressLow(i) == sp + i
ArgAddress(i) == sp + i + 1

\* genFunctionCall: the next argument has been evaluated, to v, and is stored.
PassArgument(v) ==
    /\ depth > 0
    /\ LET c == calls[depth] IN
       /\ c.passed < ParamCount[c.callee]
       /\ mem' = Write(mem, ArgAddress(c.passed), v)
       /\ pc' = At(pc.func, [calls EXCEPT ![depth].passed = c.passed + 1])
    /\ UNCHANGED <<sp, fp, ra, saved>>

\* jal and the prologue of the called function.
Jal ==
    /\ depth > 0
    /\ calls[depth].passed = ParamCount[calls[depth].callee]
    /\ Prologue(calls[depth].callee, pc)

\* Fault: $sp is set from the frame pointer of the caller.
EpilogueSp == mem[fp].num + 1
RestoredSp == fp + 1

\* ARSystem::epilogue, jr $ra, and the caller's addition to $sp.
Return ==
    /\ pc.func # Main /\ depth = 0
    /\ saved' = RestoreAll(mem, fp)
    /\ ra' = mem[fp + 1].pos
    /\ fp' = mem[fp].num
    /\ LET back == mem[fp + 1].pos.calls
           call == back[Len(back)] IN
       /\ sp' = RestoredSp + ParamCount[call.callee]
       /\ pc' = At(mem[fp + 1].pos.func, SubSeq(back, 1, Len(back) - 1))
    /\ UNCHANGED mem

\* The epilogue of main ends in the exit system call.
Exit ==
    /\ pc.func = Main /\ depth = 0
    /\ pc' = Restart
    /\ UNCHANGED <<mem, sp, fp, ra, saved>>

---------------------------------------------------------------------------
(* The activations as the memory shows them: the chain of frame pointers.  *)

\* The activations oldest first, each [fp, at, sp, saved]; sp is where its code
\* has $sp.  No more than StackTop fit.
Suspended(m, f) == [fp |-> m[f].num, at |-> m[f + 1].pos, sp |-> f + 1, saved |-> RestoreAll(m, f)]
Extended(m, w) ==
    IF m[w[1].fp + 1].pos = Restart THEN w ELSE <<Suspended(m, w[1].fp)>> \o w
Activations(m, stack, frame, regs, here) ==
    LET Walk[k \in 0 .. StackTop] ==
          IF k = 0 THEN <<[fp |-> frame, at |-> here, sp |-> stack, saved |-> regs]>>
          ELSE Extended(m, Walk[k - 1])
    IN Walk[StackTop]

\* The argument lists of an activation, outermost first: the innermost one is
\* at its $sp, the others above it.
Rooms(cs) == [n \in DOMAIN cs |-> ParamCount[cs[n].callee]]
Room(cs) == SumTo(Rooms(cs), Len(cs))
ArgLists(m, a) ==
    LET cs == a.at.calls IN
    [n \in DOMAIN cs |-> [k \in 1 .. ParamCount[cs[n].callee] |->
                            m[a.sp + Room(cs) - SumTo(Rooms(cs), n) + k]]]

LocalWords(m, a) ==
    LET f == a.at.func IN
    [k \in 1 .. FrameSize(f) - FirstOffset |-> m[a.fp - FrameSize(f) + k - 1]]

FrameOf(m, a) ==
    [at |-> a.at, saved |-> a.saved,
     params |-> [i \in 1 .. ParamCount[a.at.func] |-> m[ParamAddress(a.fp, i)]],
     locals |-> LocalWords(m, a), args |-> ArgLists(m, a)]
View(m, stack, frame, regs, here) ==
    LET acts == Activations(m, stack, frame, regs, here) IN [k \in DOMAIN acts |-> FrameOf(m, acts[k])]

Step ==
    \/ \E i \in DOMAIN LocalSizes[pc.func], v \in Values :
          \E j \in 0 .. LocalSizes[pc.func][i] - 1 : SetLocal(i, j, v)
    \/ \E r \in SavedSet, v \in Values : SetSaved(r, v)
    \/ \E g \in Functions : Prepare(g)
    \/ \E v \in Values : PassArgument(v)
    \/ Jal \/ Return \/ Exit

Next == /\ pc # Restart /\ Step
        /\ frames' = IF pc' = Restart THEN <<>> ELSE View(mem', sp', fp', saved', pc')

InitSpec == Init /\ frames = View(mem, sp, fp, saved, pc)
Spec == InitSpec /\ [][Next]_vars

Started(at) == At(at.calls[Len(at.calls)].callee, <<>>)
NextSlot(at) == at.calls[Len(at.calls)].passed + 1
PassedOne(at) ==
    At(at.func, [at.calls EXCEPT ![Len(at.calls)].passed = @ + 1])
Popped(at) == At(at.func, SubSeq(at.calls, 1, Len(at.calls) - 1))

Calls == INSTANCE CallStack WITH
            Begin <- Started, Slot <- NextSlot, Passed <- PassedOne, After <- Popped

---------------------------------------------------------------------------

\* The words of an activation's frame, by use.
SavedCells(a) == {SavedAddress(a.fp, i) : i \in DOMAIN SavedRegs}
LocalCells(a) ==
    LET f == a.at.func IN
    UNION {{LocalAddress(a.fp, f, i, j) : j \in 0 .. LocalSizes[f][i] - 1} :
           i \in DOMAIN LocalSizes[f]}

\* However deep the calls are nested, no word of the stack has two uses: saved
\* registers, locals and link area of an activation are apart, above the argument
\* lists it is building, and below those of its caller.
FramesApart ==
    pc # Restart =>
       LET acts == Activations(mem, sp, fp, saved, pc) IN
       \A k \in DOMAIN acts :
          /\ SavedCells(acts[k]) \cap LocalCells(acts[k]) = {}
          /\ \A w \in SavedCells(acts[k]) \cup LocalCells(acts[k]) :
                acts[k].sp + Room(acts[k].at.calls) < w /\ w < acts[k].fp
          /\ k > 1 => acts[k].fp + 1 <= acts[k - 1].sp

\* Reading the stack through saved frame pointers gives activations that behave
\* as calls promise: arguments arrive, locals and callee-saved registers of
\* callers survive, arguments already stored survive the calls in later ones,
\* and every return finds its caller.
ImplementsCallStack == [][pc' # Restart => Calls!NextFrames]_vars
=============================================================================
