# A TLA+ model of the C-- compiler and of spim

The repository holds two programs: a C-- compiler (a bison grammar builds an AST, a
semantic analysis declares names and types expressions, a code generator emits MIPS
assembly) and spim, the MIPS simulator that assembles and runs what it emits. The
compiler is sequential and keeps nothing between runs. What is hard in it is not
concurrency but *two state machines that must stay in step*: what the compiler
believes about a register, a list, a type or a name, and what is there when the
emitted code runs or the name is used. spim adds what a processor adds: delay slots,
exceptions, interrupts, devices, and a user who stops it and goes on.

The modules follow a program on its way: parser, declarations and types, symbol
table, register cache and code generator, frames and branches of the emitted code,
assembler, instructions, run loop and debugger. TLC checks each with arbitrary
inputs; TLAPS proves for every value of the constants what the provers can reach of
it: the register cache under straight-line and conditional code, the symbol table,
expressions' types and folding, the layout of arrays, activation records and calls, the
scopes of labels and what their uses come to, memory, integer arithmetic and the codes of
instructions, the run loop and the debugger.

## 1. Inventory

### Components

| Component | Where | State | Operations |
|---|---|---|---|
| Grammar, scanner | `parser.y`, `lexer3.l` | flex/bison stacks | `yyparse`; then semantic analysis, then code generation, **also after errors** (`parser.y:766-780`) |
| AST construction | `parser.y:20-120`, `alloc.c` | sibling lists: `leftmostSibling`, `rightSibling`, `child`, `parent` | `makeSibling`, `makeChild`, `makeFamily`, the productions |
| Symbol table | `symbolTable.c` | `hashTable`, `scopeDisplay`, `currentLevel`, `sameNameInOuterLevel` links | `enterSymbol`, `removeSymbol`, `retrieveSymbol`, `declaredLocally`, `openScope`, `closeScope` |
| Declarations and scopes | `semanticAnalysis.c` | the table, type descriptors, the function being declared, `errorOccur` | `declareIdList`, `processDeclDimList`, `declareFunction`, `processBlockNode` |
| Type checking, folding | `semanticAnalysis.c` | `dataType` and constant value of every node | `processExprNode`, `evaluateExprValue`, `checkFunctionCall`, ... |
| Register cache | `Register.cpp`, `Register.h` | per register: `dirty`, `modified`, `targetType`, the target; `lockMap` | `load`, `operand`, `save`, `setTarget`, `clear`; `getReg`, `getFit`, `findVacant`, `lock`, `saveAndClear`, `clearRegRecord`; `AST_NODE::getTempReg` |
| Code generation | `codeGen.c` | the AST walk; `AST_NODE::reg` | `genExprNode`, `genAssignStmt`, `genVariable`, `genFunctionCall`, `genIfStmt`, `genForStmt`, `genWhileStmt` |
| Activation records | `ARSystem`, `Address` | offsets, `localVarible`, `globalVariable`, init routines | `addVariable`, `getAddress`, `prologue`, `epilogue`, `globalInitRoutine` |
| Output | `gen-part.cpp` | the output stream | `genSyscall`, `CodeGenStream` |
| spim, assembler | `sym-tbl.c`, `inst.c`, `data.c`, `CPU/parser.y` | labels with their pending uses, local labels, the labels of the line, next pc of each segment | `lookup_label`, `record_label`, `resolve_label_uses`, `flush_local_labels`, `i_type_inst`, ... |
| spim, instructions | `run.c`, `inst.c`, `op.h` | registers, HI/LO, FCCR/FCSR | the cases of `run_spim`; `inst_encode`, `inst_decode` |
| spim, memory | `mem.c` | text, data and stack blocks with their bounds | `read_mem_*`, `set_mem_*`, `expand_data`, `expand_stack` |
| spim, run loop and devices | `run.c`, `mem.c` | PC, CP0 Status/Cause/EPC, `running_in_delay_slot`, nested calls, device registers and timers | `run_spim`, `raise_exception`, `check_memory_mapped_IO`, ... |
| spim, debugger | `spim.c`, `spim-utils.c` | breakpoint records, where the program stopped | `run`, `continue`, `step`, `breakpoint`, `delete`, `reinitialize` |
| `functions.c` (AST graph), scanners, display, tests | | | debug output; generated automata; formatting; inputs |

### How they interact

The parser hands the analysis a tree of four kinds of pointers. The analysis keeps
pointers to symbol table entries in it, `closeScope` frees nothing the AST uses but
unlinks every entry of a scope and links again what each one hid; a function whose
parameters are wrong is entered, analysed in part and removed again.

Code generation walks the AST depth first. For every node whose value it needs it
calls `AST_NODE::getTempReg`, which asks the register cache for the register that
still *fits* the node, or takes a vacant one with `findVacant`, which may store
and forget (evict) what that register held. A node's own pointer `AST_NODE::reg`
can thus be stale; `fit` compares it with the register's record. Between the
moment an operand is generated and the moment its parent uses it, any amount of
code may have been generated, so `genExprNode` *locks* the left operand's register
while it generates the right one. Locks are flags. Code is generated once, in text
order, but runs along branches: the records at a label are those of the text above.

The emitted code calls through frames whose layout is computed in three places
(`addVariable`, `prologue`/`epilogue`, `genFunctionCall`), and names labels that
spim's assembler meets before or after their definition. spim runs the instruction
in a delay slot by a nested call of its loop, leaves the loop by `longjmp` on
errors, and polls devices every `IO_INTERVAL` instructions; the debugger replaces an
instruction to set a breakpoint and takes it away for one step to go on.

### Hard behaviours

* stale beliefs: a record in the cache that no longer matches register or memory; a
  lock without an owner; an entry uncovered in the wrong order; a last-of-list
  pointer; flags kept twice; a pending bit without a ready device;
* steps interleaved by nesting: eviction between generating an operand and using
  it, calls in arguments, jumps in `run_spim` that run another `run_spim`;
* order: labels before and after their uses, halves of an unaligned word, ways of
  control that join;
* interrupts between any two instructions, commands of the user between any two runs;
* limits: every register dirty, modified or locked; `scopeDisplay` full; segments
  that move when they grow; the edges of a word;
* partial failure: an error half-way through a declaration; an instruction that
  faults in a slot.

There are no threads, no messages and no persistence. `PROJECT.json` lists the
hazards at their lines; those without a property say why.

### What makes each component correct

* parser: the tree is the one the source says, and its pointers agree;
* declarations: elements of an array are apart and inside its room;
* type checker: a message exactly for what breaks a rule; types and folded values
  are right otherwise;
* symbol table: a use finds the innermost declaration; what a closed scope
  uncovers is what it hid; a withdrawn function leaves no trace;
* register cache: a variable found in the cache has its current value, along every
  way that leads there; an operand waiting for its parent is intact; no variable is
  cached twice; a register is always available; locks end with their operand;
* code generation: the emitted code computes what the program means;
* frames: no word of the stack has two uses; calls return with everything as it was;
* assembler: every reference ends at the definition that is meant;
* instructions, memory: as the architecture says, at the edges too;
* run loop, debugger: control flows as in a MIPS processor, interrupts are taken,
  breakpoints stay.

## 2. Modules

    Source          what a straight-line C-- program means (abstract)
    Registers       class Register, RegisterSystem and getTempReg, as operators
    ExprGen         codeGen.c over Registers; EXTENDS Registers, INSTANCE Source
    Conditionals    if and for over Registers
    ControlFlow     while, && and || beside them
    RegistersProofs, ExprGenProofs      lemmas, invariant and theorems

    ScopeStack      a stack of scopes (abstract)
    SymbolTable     symbolTable.c, as operators on a table
    Scopes          the semantic analysis driving it; EXTENDS SymbolTable, INSTANCE ScopeStack
    ScopesProofs    the invariant of Scopes and the theorems

    OrderedTrees    what a parser promises (abstract)
    AstBuilder      makeSibling, makeChild, makeFamily under the productions; INSTANCE OrderedTrees
    Declarations    type descriptors, and the layout ARSystem makes of them
    TypeCheck       processExprNode and its helpers, and the statements' checks
    FrontEnd        the three of them
    FrontEndProofs  the theorems about all three

    CallStack       what calls promise (abstract)
    Frames          prologue, epilogue and calls, running; INSTANCE CallStack
    Assembler       spim's labels and the instructions made of their uses
    TargetCode      Frames, Conditionals and Assembler side by side
    FramesProofs    activation records and calls; lists, sums and induction
    BranchesProofs  joins and the scopes of labels; EXTENDS FramesProofs, RegistersProofs

    Mips            the flow of control of a processor (abstract)
    Cpu             run_spim's loop, exceptions, interrupts, the console devices
    Debugger        the prompt over Cpu; INSTANCE Mips
    DebuggerProofs  invariants, breakpoints, devices and the refinement
    Alu, Unaligned, FpuFlags, InstCode, SpimMemory
                    instructions, their binary form, memory
    Instructions    the five of them side by side
    InstructionsProofs      flags, comparisons, memory, codes

    MC*             constants, views and bounds for TLC

Modules that are only side by side in one specification (`FrontEnd`, `TargetCode`,
`Instructions`) share no state: a behaviour is about one of them, chosen at first,
and the others keep a first state.

### Source and ExprGen

A program is nondeterministic: at each step it evaluates another leaf, applies an
operator, or ends a statement. `Source` keeps the variables (`env`), the operands
not yet consumed (`operands`) and what the last step let out (`printed`).

`ExprGen` takes the same step in the source meaning and, in one action, does what
the compiler does for it *and* what the emitted instructions do when they run.
That is sound for straight-line code, where emission order is execution order.
`m.reg[r]` joins the compile-time record (`dirty`, `modified`, `locked`, target)
with the run-time `content`; `m.mem` is the run-time memory.

| Action | Code |
|---|---|
| `PushConst` | `genConStmt`: a caller register, `load(int)` |
| `PushVar` | `genExprRelatedNode` on an identifier, `getTempReg` |
| `PushRead` | `genReadFunction` |
| `PushCall` | `genFunctionCall` without parameters: `jal`, `clearRegRecord`, `$v0` into the node's register |
| `Hold` | `lock(getTempReg(), true)` on the operand just generated |
| `Binary` | the end of `genExprNode`: both operands looked up again, result register, `operand`, the two unlocks |
| `Unary` | `genExprNode`, `UNARY_OPERATION`: result register first, operand looked up after |
| `Assign` | `genAssignStmt`: `RegDisableload` register of the left side, `load(Register *)`, `save()`, unlock |
| `DeclareInit` | `genVariable` with an initialiser |
| `Emit` | `write`, `return`, the test of a condition |
| `Discard` | a call used as a statement |
| `Flush` | the `saveAndClear` calls of `genForStmt`, along one path of execution |
| `EndList` | `genGeneralNode` at the end of a list of statements or declarations: a register for the first of them |

`findVacant` is `FindVacant`: first clean, else first unmodified, else any
unlocked one (`rand()`), which is saved and cleared. If every register of the pool
is locked the code loops for ever; the operator then has no outcome and
`RegisterAvailable` says this does not happen.

Decisions and abstractions:

* Registers are the integer pools, variables are `int` scalars. The float pools
  run the same code on other registers; arrays use `volatile` addresses, which are
  not modelled.
* A pending AST node is named by its place in the stack of operands; the operator
  node being evaluated has the name `MaxDepth + 1` until it becomes pending itself
  (`Becomes`). A node of a finished statement is never looked up again.
* `AST_NODE::reg` of a node that was never given a register is taken not to fit.
* A callee leaves one arbitrary value (`junk`) in all caller-saved registers, and
  arbitrary values in the globals. It restores the callee-saved registers
  (`prologue`, `epilogue`).
* `DeclareInit` requires that no register caches the variable: its stack slot is
  new. A declaration in a loop body does not meet this.
* Reading `$v0` into a register and the register moves of `write` are `Operand`
  and a read of `content`: `$v0` and `$a0` are outside the pools.
* Integer constants are values, not literals; that `load(int)` passes them through
  a float is a hazard of its own and not in the model.
* `Forms` says which forms the program may use; `"block"` is the end of a list. Three
  of them are ones for which the compiler is wrong (section 4), and the passing runs and
  the theorems leave them out:
  `nestedCall`, a call while an operand is pending (run `locks`);
  `initVar`, an initialiser whose value lies in a callee-saved register (run `initvar`);
  `unaryTemp`, a unary operator on a value in a caller-saved register (in no run).
* `EndList` takes its register when no operand is pending, and forgets the node: the
  list's parent never asks for it.

### SymbolTable, Scopes and ScopeStack

`SymbolTable` has a table record: `chain` (entries per bucket), `scope` (entries
per `scopeDisplay` slot), `outer` (`sameNameInOuterLevel`), `level`, `capacity`.
Linked lists are sets: the code searches them by name and never depends on order
as long as no name is twice in a chain, which `Innermost` implies. An entry is
known by name and level. What the lists' pointers could do wrong is kept where the
code makes it visible: `Unlink` of an entry that is not in its chain takes it for
the head and drops the chain (`removeFromHashTrain`).

| Action | Code |
|---|---|
| `Declare` | one name of `declareIdList`; `wrong` stands for every other reason to refuse it |
| `BeginFunction`, `DeclareParameter`, `BeginBody` | `declareFunction`, in its order: name, `openScope`, parameters, body unless `errorOccur` |
| `BeginBlock` | `processBlockNode` |
| `BeginClose`, `CloseEntry`, `EndClose` | `closeScope`, one action per turn of its loop in any order; `EndClose` includes `removeSymbol` of a function that was wrong |
| `Lookup` | `retrieveSymbol` |

`ScopeStack` promises a stack of sets of names; the refinement maps slot `l` of
`scopeDisplay` to element `l + 1`.

### OrderedTrees, AstBuilder, Declarations, TypeCheck

`AstBuilder` has the four pointers of every node and a stack of semantic values; an
action is the shape of a production (`Leaf`, a family, an append to a list, ...). A
list under construction is handed on by its *last* node. The refinement reads the
pointers as ordered trees.

`Declarations` enters names with the descriptor `declareIdList` makes of the
identifier's dimensions and those of its type, and remembers what the program wrote.
A size that is no constant is read from a field nobody set (`Garbage`). Addresses
are those of `ARSystem::getAddress`: subscripts combined dimension by dimension.

`TypeCheck` walks an expression depth first over a stack of checked nodes. Each node
carries what the code writes (`type`, `folded`, `value`) and what the language says
(`rule`, `constant`, `exact`). `flaws` collects uses that nobody checks (section 4);
the run stops there, since what follows is undefined.

### CallStack and Frames

`Frames` runs the emitted prologue, epilogue and argument stores on an array of
words; the program is arbitrary and calls may be nested in arguments. `frames` is a
ghost: the activations, read from the words through the chain of frame pointers.
Addresses count words. The refinement says what a call promises.

### Conditionals and ControlFlow

The generator goes over the statements once, while one run of the code executes a
part of what is emitted. `live` says whether it executes what is emitted now: records
change always, contents and memory only then (`Executed`). At the end of a statement
that branches the run comes back from either side. `JoinsCoherent` asks that what the
records say of registers and memory is what the run has. `Allowed` adds to the
programs `"else"` parts and `"init"`, an initialised local that is still only in its
register at an `if`; `ControlFlow` adds `while`, `&&` and `||`. With each of these alone
the property fails, and the passing run leaves them out: `target_code` has nested `if`
and `for` only. The registers that lists of statements take (`EndList` above) are not in
these two modules.

### Assembler

A step is one line's label or command. `image` holds the instructions and words made
so far and the labels with their pending uses, resolved when the line's labels are
cleared. Ghosts remember references and definitions; `Reached` executes the
instructions made for a reference. Words have two halves of `Radix` values, so that a
negative lower half and its carry into the upper one happen at small addresses.
`Displacement` is `IDISP`, whose shift comes before the sign extension: a branch reaches
`Radix / 2` bytes each way, a quarter of what its immediate could say. `clear_labels`
and `resolve_label_uses` are folds over the lists in the order of the code, newest first,
so that the lower half of a pending pair is resolved before its upper half.

### Mips, Cpu, Debugger

`Cpu` keeps the flow of control: at each address there is some instruction, chosen
when it is executed: a plain one, a jump, a branch-likely, a fault, `ERET`, a write
to Status or Compare, an access to a device. The nested calls of `run_spim` are the
sequence `slots`. `Poll` is the head of its outer loop (interrupts, devices), and
`Complete` its end, which pops the nested calls. `Debugger` adds the user. The abstract
`Mips` has no nesting, no polling and no breakpoints. `SlotFaults` and `Aborts` add
programs that fault in a delay slot, or stop with an error there or over a breakpoint:
spim is wrong for these (section 4), and `machine` leaves them out. An interrupt may
come in any slot, so with delayed branches `SlotFaults` also is what lets a program set
IE: `machine` tries interrupts without delayed branches, with memory-mapped devices and
without, and interrupts together with delayed branches occur in `delayslot` only. `Cpu` has
no exit system call and no `MTC0` to Cause, by which a program can set and clear pending
bits itself.

### Alu, Unaligned, FpuFlags, InstCode, SpimMemory

`Alu`: one instruction from any register contents, on words of `2 * Half` bits, the
C expressions of `run.c` with their widths. `Unaligned`: `LWL`, `LWR`, `SWL`, `SWR`
in pairs, any order, both byte orders. `FpuFlags`: comparisons, flag moves and
branches. `InstCode`: the six fields of a code word, `inst_encode` and `inst_decode`
through the table of `op.h`. `SpimMemory`: segments as arrays of bytes that move when
they grow.

## 3. Runs

| Run | Instance | Shows |
|---|---|---|
| `core` | one global, one local, 2 callee and 3 caller registers, depth 2; constants, unary, initialisers, flushes, blocks | `Coherent`, `OperandsIntact`, `UniqueCache`, `RegisterAvailable`; refinement of `Source` |
| `calls` | one local, 3 callee and 3 caller registers, depth 3; `read` as any operand, calls as whole right-hand sides | `OperandsIntact`, also for an operand unlocked early; locals survive clobbering: `LocksAreHeld`, `OutputRight`; refinement |
| `scopes` | three names, two in one bucket, one predefined; nesting 2, `scopeDisplay` of 2 | `Innermost`, `ClosingLinked`, `HidesNearest`; refinement of `ScopeStack` |
| `frontend` | 7 AST nodes; 2 declared names, up to 3 dimensions; 6 kinds of names, all operators, 3 pending nodes | `WellLinked`, `ElementsDisjoint`, `PartsAreObjects`, `MessagesExact`, `TypesFollowRules`, `FoldedExactly`; refinement of `OrderedTrees` |
| `target_code` | `main` and a recursive function, 15 words of stack; 3 scalars over 2 callee registers, statements nested 2 deep; 2 files, 2 names, 2 references, 8-bit words | `FramesApart`, refinement of `CallStack`; `JoinsCoherent`; `ReferencesResolved`, `NamesScoped` |
| `instructions` | words of 4 bits; 3 of the 8 flags moved; every instruction type read back; 3 small segments | `ArithmeticExact`, `UnalignedWhole`, `FlagsLinked`, `ComparisonsHold`, `CodesInvert`, `MemoryKept` |
| `machine` | 2 user and 2 handler instructions, all four settings, one breakpoint, steps of 1, polling every 2 instructions | `RequestsMatchDevices`, `BreakpointsKept`; refinement of `Mips`; liveness `InterruptsTaken`, `TransmitterFrees` |
| `initvar`, `locks`, `globals`, `joins`, `delayslot` | smallest instances | violations, section 4 |

Why the bounds are enough. In the code generator words have one bit, with `sgt` for
the binary operator because it does not commute and can tell its operands apart; a
lost or stale value shows as soon as it can differ. Two callee registers and two or
three variables make every eviction order happen; three caller registers are the
least that leave one for the result of an operator over two locked temporaries. Locks
are flags, which matters from three operands on: in `x + (x + read())` the inner operator
unlocks `x` while the outer one waits. `calls` has this depth and a third callee register,
and there the unlocked variable is evicted and found again. No operand is pending when a
call is made: what survives a call in this run is locals. The
run `core` has a global that no call changes; `calls` has none, because calls that
change globals are what `globals` shows to be wrong. Two nesting levels below the
globals are the least at which a name is hidden twice, and capacity 2 makes
`openScope` grow the display. Seven nodes are the least for two lists joined inside a
third. Three dimensions tell a swapped or forgotten one apart, sizes 2 and 3 differ, a first
dimension left open (a parameter) is tried with 3 rows (`Rows`).
Fifteen words hold three activations, two of them of the same function and one called
from an argument. Nested conditionals of depth 2 are the least at which a branch that
is not taken contains one. Halves of 4 bits put labels at addresses whose lower half is
negative, text and data into different 16-word regions of jumps; two references and two definitions
are the least at which a pending list has an order. Four bits overflow, carry and
divide in every way 32 do. Two instructions are the least for a jump with its slot;
a handler of two can return and can jump.

Views take states as one that differ in dead words only: words below `$sp`; the content
of a register that neither caches a variable nor belongs to a pending operand
(`LiveView`), which is written before it is read; the last fault. Symmetry is used for the labels' names. The
constraint of `frontend` stops at a use nobody checks.

Fairness. The compiler is sequential and its input may end at any step, so nothing is
assumed there; its one liveness question, "does `findVacant` return", is the safety
property `RegisterAvailable`. `run_spim` is a loop: in `Debugger` weak fairness holds
of its step, which includes the poll, as long as it runs. Nothing is assumed of
the user, of the input or of the timer, which may be silent for ever.

`CHECK_DEADLOCK FALSE` is set where a program may really end: a parse that has reached
its last node, code that exits, an assembler at the end of its files, an expression
that crashed the compiler. `core`, `calls` and `scopes` check deadlock.

Each component module with a type invariant has one, and the run checks it; everything
else is about the hazards. A refinement is stronger than the invariants beside it: every
*step* must be a step of the abstract specification.

## 4. Where the code is wrong

Runs that find a violation:

* `initvar`: `int c = b;` with `b` in a register that is not dirty. `genVariable`
  takes the register of `c` before it looks `b` up again and nobody locks it; `c`
  is given `b`'s register, `b` is loaded into it anew, and the load of the register
  from itself emits nothing. (`codeGen.c:67`)
* `locks`: a call as right operand clears the record of the left one but not its
  lock; the unlock goes to a newly taken register. The left value is lost, and
  enough such expressions lock the pool: `findVacant` spins. (`codeGen.c:357`,
  `Register.cpp:407`)
* `globals`: a global cached in a callee-saved register is not read again after a
  call that assigned it. (`codeGen.c:305`)
* `joins`: in `if (x || y)` with `x` true, `y` is never loaded, and the then-part takes
  it from the register it would have been loaded into. (`codeGen.c:353`) The same
  configuration with `Allowed` or the next-state relation reduced shows the others:
  records after an `else` part are those of that part; a local initialised just before
  an `if` is stored on one way only (`codeGen.c:421`); a `while` jumps back to code that
  relies on the records of the first entry (`codeGen.c:198`).
* `delayslot`: an instruction in a delay slot raises an exception; the jump's target
  then overwrites the handler's address, with EXL left on. (`run.c:136`)

Others, seen while modelling; a module that meets one leaves it out and says so:

* a unary operator's result register may be its operand's, which then does not fit
  (`codeGen.c:365`; `Forms = {"const", "unary", "unaryTemp"}` shows it); `+x` is emitted as
  `abs`; `a && b` is the bitwise `and`, so `1 && 2` is 0 (`Register.cpp:30`);
  `>=` and `>` on floats are swapped for equal operands (`Register.cpp:34-38,117-123`);
* the tests of `for` use the first of several conditions, and with none a register
  nobody loaded (`codeGen.c:172`);
* nobody refuses: operands that are void, the name of a function as a variable
  (`semanticAnalysis.c:1058`), partly subscripted arrays as subscripts, a string or an
  expression that is not constant as the size of an array; a folded float comparison has
  the wrong type; folding divides by zero while compiling (`semanticAnalysis.c:729`);
* spim: a ^C or an error in a slot loses the jump's target and leaves
  `running_in_delay_slot` set (`run.c:93`), or loses the breakpoint that is being
  stepped over; a breakpoint met with EXL set clears it (`spim-utils.c:364`); one in a
  slot goes to the handler; one on an empty address stays without a record
  (`inst.c:1037`); `reinitialize` clears Cause and keeps the devices; without
  memory-mapped I/O interrupts are looked for once per run;
* spim, instructions: `divu` does nothing for the two words at which `div` overflows;
  comparisons set flag `4 * cc` and branches read `cc`, `CTC1` cannot clear flag 0
  (`run.c:1315`), so only flag 0 is compared; six types of instructions are not read
  back as written; the target of `j` loses a bit (`inst.c:1554`);
* spim, memory: `expand_k_data` divides the offsets of the bytes it clears by
  `BYTES_PER_WORD` (`mem.c:289`) and so clears others than the new ones; kernel data is not
  modelled; a byte of an empty text word dereferences NULL;
* spim, assembler: a second definition of a data label moves it (`Redefines`), a name
  made global after its definition is still flushed (`LateGlobals`), `.word L+4` before
  `L` loses the 4; a load of `L - n` on the line that defines `L`, where the difference is
  a negative 16-bit number, is one instruction without an upper half of its own, and its
  negative lower half is added to the pending `lui` of an earlier load from `L` if that
  stands two instructions before (`sym-tbl.c:355-369`; an operand `-140` shows it).

## 5. Proofs

### The code generator

`ExprGenProofs` proves, for any finite pools, any set of variables, any word and
any operators on it, and any depth:

| Theorem | Statement |
|---|---|
| `TypeCorrect` | `Spec => []TypeOK` |
| `CacheCoherent` | `Spec => []Coherent` |
| `OperandsStayIntact` | `Spec => []OperandsIntact` |
| `CachedOnlyOnce` | `Spec => []UniqueCache` |
| `LocksReleased` | `Spec => []LocksAreHeld` |
| `OutputCorrect` | `Spec => []OutputRight` |
| `NeverOutOfRegisters` | `Spec => []RegisterAvailable` |
| `GeneratorImplementsSource` | `Spec => ImplementsSource` |

Assumptions. The named assumptions of `Registers` and `ExprGen`: the pools are
disjoint and list each register once (the constructor of `RegisterSystem`), NULL
is no variable, `MaxDepth` is positive, operators return words. And `Safe`, the
hypothesis of every theorem: the program uses none of the three forms above, and
calls do not change globals. None of its parts can be
dropped: three violation runs show it for calls, initialisers and globals, and
section 4 says how to see it for unary operators. `NeverOutOfRegisters` also needs `PoolsSuffice`: at least `MaxDepth`
(and two) callee registers and more than `MaxDepth` caller registers. With the 8
and 10 of the real pools that is nesting up to depth 8; beyond it nothing is
claimed.

The argument. `OutputRight` and `Coherent` are not inductive: that a store may be
left out depends on flags, and that an operand is intact depends on locks. `IInv`
adds:

* `Good(m, env, {})`: no variable is in two registers, and only in callee-saved
  ones; a modified register is dirty; a register that caches `v` holds `env[v]`, and
  so does memory *unless the register is modified*; a variable in no register is
  right in memory. The third argument names variables left aside for the duration
  of one assignment, between `setTarget` and `load`.
* `Guarded(m, waiting)`: the first `waiting` operands, those whose parent locked
  them, have their value in their register, and a temporary's register is locked.
* `Held(m, waiting)`: conversely every lock belongs to one of them. Together with
  "no variable twice" this lets an operator's two unlocks be traced to its two
  operands, although a variable used twice is unlocked early.
* `VarsPending`: a variable that waits has not been assigned since. It may have
  been evicted after an early unlock; then it is reloaded from memory.
* `TopHeld`: the last operand is locked if its parent has begun to use it, so the
  lookup of the left operand in `Binary` cannot evict the right one.

`RegistersProofs` shows what each operator does to a machine and that it keeps
`Good`, built on `Elsewhere` (only `r` changes) and `Quietly` (only an unlocked
register changes): `QuietStep` then carries `Guarded` and `Held` across any number
of lookups. The proofs of the actions follow the order of the calls in the code.
`NeverOutOfRegisters` counts: `Held` maps locked registers to operands, and no
two to the same one. The refinement theorem needs nothing more: under `IInv` the
mapped variables equal `env`, `operands` and `printed`.

### The symbol table

`ScopesProofs` proves, for any set of names, any hash function, any first size of
`scopeDisplay` and any nesting bound:

| Theorem | Statement |
|---|---|
| `ScopesTypeCorrect` | `Spec => []TypeOK`: `openScope` always grows the display in time |
| `FindsInnermost` | `Spec => []Innermost` |
| `UnlinksLinked` | `Spec => []ClosingLinked` |
| `OuterLinksNearest` | `Spec => []HidesNearest` |
| `TableImplementsStack` | `Spec => ImplementsScopeStack` |

The only assumption is `TableAssumption` (the hash function maps every name to a
bucket, some names are predefined, the first capacity is positive, NULL is no
entry). `Innermost` is not inductive: while `closeScope` runs, the table is
between two states that satisfy it, and closing relies on what the entries hide,
which a lookup never reads. The invariant `IInv` speaks of `gone`, the entries of
the current scope the loop has already unlinked, and says:

* `Linked(table, gone)`: the chains hold exactly the nearest open declarations,
  not counting `gone`; `Covered(table, gone)`: every other open declaration has
  one. With `gone = {}` this is `Innermost`.
* `Hides(table)`: `sameNameInOuterLevel` is the nearest declaration further out,
  so the entry `Uncover` links is the one that becomes nearest.
* `Typed(table)`: entries lie in the list of their own level, lists above the
  current level are empty, and the current level has a slot.
* `PhaseInv`: which level belongs to which phase, and that a function that was
  entered is still in the global list when `removeSymbol` comes for its name.

One lemma per operation of the table (`EnterShape`, `OpenShape`, `UncoverShape`,
`LeaveShape`, `RemoveShape`) shows that it keeps these; the action lemmas only
combine them. For the refinement, `StackShape` and its companions read the lists
as a sequence of sets of names, and each action becomes one of `ScopeStack`:
`CloseEntry` is a step the stack does not see, `EndClose` is `Close` or
`CloseAndWithdraw`.

### Activation records

| Theorem | Statement |
|---|---|
| `ActivationsApart` | `TargetSpec => []FramesApart` |
| `CallsAreKept` | `TargetSpec => ImplementsCallStack` |

Both are in `FramesProofs` and have no hypothesis: any functions, any numbers of
parameters and sizes of locals, any callee-saved registers, any program and any depth
that `StackTop` words have room for. `FramesAssumption` types the constants and gives
`Main` no parameters and a stack its own frame fits on.

What memory means is found by walking it: `Activations` follows the saved frame
pointers until it meets the return address of `main`. The invariant `FrameInv` says that
there is a sequence of activations, of some length, which that walk returns: each is
linked to the next by the words at its frame pointer (`$fp` of the caller, `$ra`), each
one's saved words are those the caller had, and each lies below the caller's
argument lists with its own frame and lists between `sp` and `fp`. From the layout
`FramesApart` follows by arithmetic. A step writes a word of the top activation only
or pushes or pops one, so the others are linked as before: a lemma per operation says
which words it leaves alone, and `FrameStep` combines them. For the refinement the same
sequence, mapped by `FrameOf`, is the abstract `frames`.

The walk, the sums of sizes and the lengths of the argument lists are recursive
functions over numbers. The induction theorems of the library take an operator, which
the provers cannot instantiate, but well-foundedness of `<` on the naturals does
not: `Induction` derives from it that a *set* with 0 and the successors of its elements
contains every number, and each recursive fact is proved by naming the set for which it
holds. Facts about sequences whose elements have no common type in the model (an
activation has lists of lists) go through `IsList`, a sequence of its own elements.

### Joins

`BranchesProofs` proves `WaysMeet`, `Plainly => (TargetSpec => []JoinsCoherent)`, for any
pools, variables, words and nesting. `Plainly` says that the conditionals are neither
with else-parts nor met while an initialised local is still only in its register; the
run `joins` and section 4 show that neither can be left out.

The code is generated once and run along one of its ways, so the invariant speaks of
two machines. While the run executes what is emitted (`live`), `m` is `Good` as in
section "The code generator": what the records say is what the run has. While it does
not, memory already is what the run has, and the records are well formed but say
nothing of the contents (`FitFor`). At a label both must be true of one state, which
`Settled` is: no register caches anything, memory is complete. `JoinInv` adds which
open statements the run reached (`Nested`), so that the end of a statement knows which
of the two it resumes from. What makes it inductive is `saveAndClear` before a test
and at the end of each part: it turns `FitFor` of either kind into `Settled`.

### The front end

`FrontEndProofs` needs no hypothesis beyond the assumptions `SymbolsAssumption`,
`ProgramAssumption` and `DimensionAssumption`, which give the constants their types.

| Theorem | Statement |
|---|---|
| `MessagesAreExact` | `Spec => []MessagesExact` |
| `TypesAreTheLanguages` | `Spec => []TypesFollowRules` |
| `FoldingIsExact` | `Spec => []FoldedExactly` |
| `FrontEndTypeCorrect` | `Spec => []TypeOK` |
| `ElementsAreApart` | `Spec => []ElementsDisjoint` |
| `PartsAreOfTheirType` | `Spec => []PartsAreObjects` |
| `ListsAreLinked` | `Spec => []WellLinked` |
| `TreesAreBuilt` | `Spec => BuildsTrees` |

`CheckInv` is the invariant of the first three. A wrong operand makes its parent wrong
only through `ERROR_TYPE`, so the pending nodes must be right together: as long as
there is neither a message nor a rule broken nor a use nobody checks (`Calm`) all have
the type of the language (`Sound`), and unless the compiler crashed folding, constant
nodes have the exact value (`Faithful`). The arithmetic is in one lemma: the quotient C
truncates is the one the language defines by sign and remainder. `DeclInv` shows that
no descriptor exceeds `MAX_ARRAY_DIMENSION`, also when types are made of array types.

Its part `MadeOf` says what a descriptor is made of, the dimensions written before those
of the type it is declared with; the last two theorems follow from it. The address of an
element and the size of an array are both `Scaled`, one recursion over the dimensions
(Horner's rule), so each fact about them is an induction over a prefix of the dimensions:
with subscripts in their ranges the result lies below the product, and equal results have
equal subscripts, because quotient and remainder by the last dimension are unique. The
inductions are by `Induction`, described under "Activation records". Both theorems are
about exact numbers: an array of more than 2^31 bytes, whose size overflows in C, is
outside the model.

`AstInv` is the invariant of the last two, for programs of any size. Its part `Linked`
says that every node is in one list of siblings (`Siblings`), whose members agree about
its beginning, their order and their parent; `Rooted`, that the semantic values stand for
lists of their own that have no parent. No node refers to one place of all this alone:
`makeSibling` gives the members of a whole list a new beginning, `makeChild` a new parent.
`Continued` (two lists become one), `Attached` (lists become the children of a node) and
`Adopted` (one list does) say what their loops leave, and each production is a few of
these in a row.

The refinement reads trees off the pointers, by a recursion (`Forests`) that goes down as
many layers as there are nodes. That this is deep enough is no matter of course, because
links could form a cycle. `AstInv` therefore names for every node a tree `t[n]` that is
its label over the trees of its children (`Reading`), a rank above those of its children
(`Ranked`), and a budget: the ranks in the list of the `i`-th value fit between
`off[i-1]` and `off[i]`, which means `rank[n] + off[i-1] <= off[i]`, and `off` ends at no
more than the number of nodes (`Budget`). A production keeps the trees of the
values below and combines those of its right side; the new node takes a rank above its
children's, for which the node itself is the room. `ChainShape` and `ForestsRead` then
show by `Induction` that the recursion returns these trees.

### The assembler

`BranchesProofs` also proves, for any names, segments, word and number of files:

| Theorem | Hypotheses | Statement |
|---|---|---|
| `NamesAreScoped` | `~LateGlobals` | `TargetSpec => []NamesScoped` |
| `ReferencesAreResolved` | `~Redefines`, `OffsetsFit` | `TargetSpec => []ReferencesResolved` |

For the first, programs may define a name again (`Redefines`); what they may not do is
declare a defined name global, because `record_label` has by then put it on the list
`flush_local_labels` empties (section 4).

`NamesScoped` speaks of definitions and references only, and is about the table as it
was when they were made; that the table of a later line agrees takes `Fit`: an entry of
the table leads to a label of its name (`Tied`); the local list holds exactly this
file's definitions that are not global (`OwnLabel`, `Found`), so that the flush takes out those and
no others; an earlier file's definition is in the table iff it is global (`Found`), and a name
referred to in this file stays in the table with the label it got (`Referred`).
Most of a step does not touch any of this: resolving uses, compensating halves and
aligning an item change text, data, addresses and uses. `Keeps` says so once, of every
operator of the module: no label appears, changes its name or becomes undefined, and no
defined label changes its scope. `KeepsFit` then carries the invariant over, whatever
the order in which pending uses are resolved.

For the second, a name has one definition, because a redefinition moves a label whose
uses are resolved already; and no offset of the program leads from an address of its text
into the last `Radix / 2` bytes of memory (`OffsetsFit`), which leaves out the single
instruction that spoils an earlier one (section 4). The property asks whether the
instructions *made*, executed, come to the label; the code never computes that at once. A
load of a label not yet known is a `lui`, perhaps an `addu`, and an `lw`, recorded as two
uses; when the label's line ends the uses are resolved newest first, the `lw`
carrying its negative lower half into an instruction that is still to be resolved.

`AsmInv` says of every reference that it waits or is solved (`Sound`). It waits
(`Waits`) as long as all its sites are among the label's uses and its instructions
are those for an address not known yet (`Code`, with the expressions untouched); it is
solved (`Solved`) when what the instructions come to (`Comes`, the run of at most three
instructions) is what was meant. Every use in a label's list belongs to a waiting
reference and the list descends (`UsesFit`), references lie apart (`Placed`), a label of
the current line has no final address yet, since aligning an item may still move it, and
everything that refers to it must wait (`LabelFit`, the last part of `AsmInv`).

The steps: `Amid` is the invariant inside `resolve_label_uses`, after `n` uses, and knows
that of a pair the lower half went first and left its carry (`UseResolved`);
`JumpSolved`, `BranchSolved`, `ValueSolved` and `LoadSolved` then compute where resolved
code arrives. Halves, signs and carries are arithmetic on quotients and remainders, each
found by naming the quotient (`ModOf`). Resolving a use stays within its own reference's
code (`OthersSame`). New code is appended (`Extends`), or, for a label known already,
made at once (`MadeKnown`): the one instruction, the pair or the triple is right by
itself, and what it may touch before it are expressions over its own symbol (`Grows`),
not immediates. So it does not change how solved references run (`SolvedSame`); where
references to that symbol still wait, the label being of the same line, `OffsetsFit`
excludes the touch.
Folds over the lists are unrolled (`Stages`): a fold is a sequence of states, and what
holds of each is shown by `Induction`.

### Instructions and memory

| Theorem | Hypothesis | Statement |
|---|---|---|
| `FlagsAreLinked` | `~ClearsFirst` | `Spec => []FlagsLinked` |
| `ComparisonsAreRight` | `Flags \subseteq {0}` | `Spec => []ComparisonsHold` |
| `MemoryIsWritten` | | `Spec => []MemoryKept` |
| `CodesAreInverse` | `ReadsBack` | `Spec => []CodesInvert` |
| `ArithmeticIsExact` | | `Spec => []ArithmeticExact` |

The hypotheses leave out what section 4 lists as wrong: clearing flag 0 through FCCR,
comparing into another flag than 0, types `inst_decode` does not read back and jump
targets with the bit it drops. `MemoryAssumption` orders and aligns the segments as
`mem.h` and `make_memory` do. `MemInv` says of every address that the array of last
stores (`written`) equals what memory, cut into segments that move and grow, has there
(`Cell`): growing the stack copies it to the end of the new block, which keeps `Cell`;
`sbrk` keeps what is below the old end. Aligned accesses never straddle two segments,
since their bounds are multiples of a word. For the codes `OneOwner` goes through the
opcode table type by type (each opcode has one type, and the fields of the type do not
meet its bits) and `ClassFound` through the levels of `inst_decode`.

`ArithmeticIsExact` holds of words of any even number of bits from four on. Powers of two
are the recursive function `TwoTo`, because the provers know nothing of `^`; `TwoToSum`,
by `Induction`, is what makes a word two halves. A remainder is found by naming its
quotient (`ModOf`): quotient and remainder are unique. `UnsignedProduct` follows the
columns of `unsigned_multiply`, two carries included, to the exact product over HI and LO;
signed products and sums of products equal theirs modulo `Size * Size` (`Same`), which
negation, `madd` and `msub` preserve, each with its carry or borrow. `Truncated` is C's
division; that its quotient fits a word is where `Undefined` is needed. `HighestBit` goes
down the bits of a word one by one to the highest that is set, for `clz` and, by the
complement (`NotBit`), `clo`.

### The run loop and the debugger

| Theorem | Hypothesis | Statement |
|---|---|---|
| `RequestsFollowDevices` | | `Spec => []RequestsMatchDevices` |
| `MachineTypeCorrect` | `"slot" \notin Aborts` | `Spec => []TypeOK` |
| `BreakpointsAreKept` | `"over", "slot" \notin Aborts` | `Spec => []BreakpointsKept` |
| `RunLoopImplementsMips` | `~SlotFaults`, `"slot" \notin Aborts` | `Spec => ImplementsMips` |

For any text, handler, polling interval and latency (`CpuAssumption`: the handler lies
above the user's text), and breakpoints in the user's text (`UserAssumption`). The
hypotheses are those of the run `machine`; with either of them gone spim is wrong
(section 4, run `delayslot`). `Placed` is the shape of a machine; its part `InSlot` ties
`running_in_delay_slot` to the nested call and says why EPC, the address before the
current one, is an instruction's. `BreakInv` says that the text and the records are the
user's breakpoints but for the one being stepped over. The refinement needs `Quiet`
beside `Placed`: a slot holds a plain instruction that nothing interrupts, and handlers
stay in the kernel, where no breakpoint and no user jump reaches; then each step of the
loop is a step of `Mips` or none.

## 6. Only model-checked, and not modelled

Only model-checked, and why:

* `InterruptsTaken`, `TransmitterFrees`: liveness;
* `UnalignedWhole`: its only parameter is the byte order, and the run tries every
  address and order, so that it is exhaustive already;
* the five violation runs, which show single executions. `joins` shows the short
  circuit; else-parts, initialised locals and `while` need its configuration reduced as
  section 4 says, and unary operators on temporaries (`unaryTemp`) need a configuration
  of their own.

Said of less than the code has:

* `MessagesExact` is about the first message: the model has `g_anyErrorOccur` and does not
  count, so it does not say that nothing is reported twice or made up afterwards;
* `FlagsLinked` and `ComparisonsHold` are about comparisons into flag 0, and moves that do
  not clear it through FCCR;
* `InterruptsTaken` is about the setting with mapped devices and without delayed branches.

Not modelled:

* the grammars and scanners: generated automata; `functions.c`, display and debug
  output; the text of assembly lines; host input and output;
* registers of floats and the float instructions: the same cache over other names, with
  conversions of the host;
* registers that hold the address of an element (`volatile`): their records are cleared
  by reading them, and two equal texts stand for different elements, so no invariant of
  the cache survives; listed as hazards;
* the initialisers of globals, which leak records from one function to the next;
* that `load(int)` passes constants through a float, which rounds above 2^24;
* what runs after an error: code generation over freed entries;
* delayed loads, kernel segments, `.extern`, `.lcomm` and the other
  pseudo-instructions of spim.

## 7. Running

    tlc -config MCExprGen_core.cfg MCExprGen
    tlc -config MCExprGen_calls.cfg MCExprGen
    tlc -config MCScopes.cfg MCScopes
    tlc -config MCFrontEnd.cfg MCFrontEnd
    tlc -config MCTargetCode.cfg MCTargetCode
    tlc -config MCInstructions.cfg MCInstructions
    tlc -config MCDebugger.cfg MCDebugger
    tlapm RegistersProofs.tla
    tlapm ExprGenProofs.tla
    tlapm ScopesProofs.tla
    tlapm FramesProofs.tla
    tlapm BranchesProofs.tla
    tlapm FrontEndProofs.tla
    tlapm InstructionsProofs.tla
    tlapm DebuggerProofs.tla

`target_code`, the longest, takes about a minute and a half, the others less than one. `MCExprGen_initvar`, `_locks`,
`_globals`, `MCControlFlow` and `MCDebugger_slot` end in a counterexample.
