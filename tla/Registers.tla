------------------------------ MODULE Registers ------------------------------
(***************************************************************************)
(* The register file as the code generator sees it while it emits code,    *)
(* and what that code does to the registers and to memory when it runs.    *)
(* A machine m has m.reg, the state of every allocatable register (the     *)
(* class Register with its entry of RegisterSystem::lockMap, and the value *)
(* the emitted code has put there), and m.mem, the memory word of every    *)
(* scalar variable.  Operators take a machine and return one; where the    *)
(* code picks a register at random they return the set of outcomes, each   *)
(* a record of the machine m and the register r that was picked.           *)
(***************************************************************************)
EXTENDS Naturals, Sequences, Functions

CONSTANTS
    Vars,           \* scalar variables, each with an address of its own
    NoVar,          \* the target of a register that caches no variable
    Val,            \* values of a 32-bit word
    CalleePool,     \* RegisterSystem::calleeReg, $s0 .. $s7, in order
    CallerPool,     \* RegisterSystem::callerReg, $t0 .. $t9, in order
    MaxDepth        \* most operands that wait for their parent at once

ASSUME MachineAssumption ==
    /\ NoVar \notin Vars
    /\ MaxDepth \in Nat \ {0}

\* The constructor enters every register in one pool, once.
ASSUME PoolAssumption ==
    /\ CalleePool \in Seq(Range(CalleePool))
    /\ CallerPool \in Seq(Range(CallerPool))
    /\ Range(CalleePool) \cap Range(CallerPool) = {}
    /\ IsInjective(CalleePool) /\ IsInjective(CallerPool)

\* RegisterSystem::registers, the order in which getFit looks.
AllRegs == CalleePool \o CallerPool
Callee  == Range(CalleePool)
Caller  == Range(CallerPool)
Reg     == Callee \cup Caller

(***************************************************************************)
(* targetType and the two targets are one choice: var # NoVar is           *)
(* targetType = 1 with that variable's address, var = NoVar and node = i   *)
(* is targetType = 0 with the AST node of the i-th pending operand, node = *)
(* MaxDepth + 1 is the operator node that is about to take the place of    *)
(* its operands, and node = 0 is target = NULL.                            *)
(***************************************************************************)
RegState == [dirty : BOOLEAN, modified : BOOLEAN, locked : BOOLEAN,
             var : Vars \cup {NoVar}, node : 0 .. MaxDepth + 1, content : Val]

Machine == [reg : [Reg -> RegState], mem : [Vars -> Val]]

-----------------------------------------------------------------------------
(* class Register *)

\* Register::clear leaves lockMap alone.
Clear(m, r) ==
    [m EXCEPT !.reg[r] = [@ EXCEPT !.dirty = FALSE, !.modified = FALSE,
                                   !.var = NoVar, !.node = 0]]

\* Register::save(const Address &) with the register's own target.
Store(m, r) == [m EXCEPT !.mem[m.reg[r].var] = m.reg[r].content]

MustStore(m, r) == m.reg[r].var # NoVar /\ m.reg[r].modified

\* Fault: a register that has been stored still counts as modified.
SaveStillModified(m, r) ==
    [(IF MustStore(m, r) THEN Store(m, r) ELSE m) EXCEPT !.reg[r] = [@ EXCEPT !.dirty = FALSE]]

\* Register::save().
Save(m, r) ==
    IF MustStore(m, r)
    THEN [Store(m, r) EXCEPT !.reg[r] = [@ EXCEPT !.dirty = FALSE,
                                                  !.modified = FALSE]]
    ELSE [m EXCEPT !.reg[r] = [@ EXCEPT !.dirty = FALSE]]

\* Register::setTarget(const AST_NODE *): the variable the register cached
\* until now is stored first, changed or not.
SetTargetNode(m, r, n) ==
    [(IF m.reg[r].var # NoVar THEN Store(m, r) ELSE m)
        EXCEPT !.reg[r] = [@ EXCEPT !.var = NoVar, !.node = n]]

\* Register::setTarget(const Address): nothing is stored.
SetTargetVar(m, r, v) ==
    [m EXCEPT !.reg[r] = [@ EXCEPT !.var = v, !.node = 0]]

\* Register::load(int) and load(const Address &): not "modified".
LoadValue(m, r, c) ==
    [m EXCEPT !.reg[r] = [@ EXCEPT !.content = c, !.dirty = TRUE]]

\* Register::operand(...), and load from a register outside the pools: the
\* register holds a value that memory does not have.
Operand(m, r, c) ==
    [m EXCEPT !.reg[r] = [@ EXCEPT !.content = c, !.dirty = TRUE,
                                   !.modified = TRUE]]

\* Register::load(Register *), which returns at once on itself.
LoadReg(m, r, from) ==
    IF r = from THEN m ELSE Operand(m, r, m.reg[from].content)

-----------------------------------------------------------------------------
(* class RegisterSystem *)

\* Fault: an unlock that has no effect.
LockForever(m, r, l) ==
    [m EXCEPT !.reg[r] = [@ EXCEPT !.locked = @ \/ l]]

\* RegisterSystem::lock, a flag and not a count.
Lock(m, r, l) == [m EXCEPT !.reg[r] = [@ EXCEPT !.locked = l]]

First(S) == {i \in S : \A j \in S : i <= j}

\* Fault: a search that does not ask whether a register is locked.
AnyLock(m, pool) == DOMAIN pool

\* isLocked, over a pool
Unlocked(m, pool) == {i \in DOMAIN pool : ~m.reg[pool[i]].locked}

(***************************************************************************)
(* findVacant: the first unlocked register that is not dirty, else the     *)
(* first that is not modified, else any unlocked one, saved and cleared.   *)
(* With every register locked the code never leaves its loop: no outcome.  *)
(***************************************************************************)
FindVacant(m, pool) ==
    LET unlocked   == Unlocked(m, pool)
        clean      == {i \in unlocked : ~m.reg[pool[i]].dirty}
        unmodified == {i \in unlocked : ~m.reg[pool[i]].modified}
        Take(i)    == [m |-> m, r |-> pool[i]]
        Evict(i)   == [m |-> Clear(Save(m, pool[i]), pool[i]), r |-> pool[i]]
    IN  IF clean # {} THEN {Take(i) : i \in First(clean)}
        ELSE IF unmodified # {} THEN {Take(i) : i \in First(unmodified)}
        ELSE {Evict(i) : i \in unlocked}

\* Fault: a register that has just been stored is not looked at.
FittingDirty(m, v) ==
    {AllRegs[i] : i \in First({j \in DOMAIN AllRegs :
                        m.reg[AllRegs[j]].var = v /\ m.reg[AllRegs[j]].dirty})}

\* getFit(const Address &), at most one register.
Fitting(m, v) ==
    {AllRegs[i] : i \in First({j \in DOMAIN AllRegs : m.reg[AllRegs[j]].var = v})}

\* Fault: RegisterSystem::clear where saveAndClear is meant.
ClearAll(m) ==
    [m EXCEPT !.reg = [r \in Reg |-> [m.reg[r] EXCEPT !.dirty = FALSE,
                            !.modified = FALSE, !.var = NoVar, !.node = 0]]]

\* saveAndClear: every register is stored, in order, if it has to be, and
\* forgotten; the last register that caches a variable has the last word.
SaveAndClear(m) ==
    LET stores(v) == {i \in DOMAIN AllRegs :
                        MustStore(m, AllRegs[i]) /\ m.reg[AllRegs[i]].var = v}
        last(v)   == CHOOSE i \in stores(v) : \A j \in stores(v) : j <= i
    IN  [reg |-> [r \in Reg |-> [m.reg[r] EXCEPT !.dirty = FALSE,
                            !.modified = FALSE, !.var = NoVar, !.node = 0]],
         mem |-> [v \in Vars |-> IF stores(v) = {} THEN m.mem[v]
                                 ELSE m.reg[AllRegs[last(v)]].content]]

\* Fault: a callee that does not restore the registers it uses.
ClobberAll(m, junk) ==
    [m EXCEPT !.reg = [r \in Reg |->
        IF r \in Caller
        THEN [m.reg[r] EXCEPT !.content = junk, !.dirty = FALSE,
                        !.modified = FALSE, !.var = NoVar, !.node = 0]
        ELSE [m.reg[r] EXCEPT !.content = junk]]]

\* clearRegRecord after a call: the caller-saved registers hold whatever the
\* callee left (junk) and are forgotten; a lock on one of them stays.
ClearRegRecord(m, junk) ==
    [m EXCEPT !.reg = [r \in Reg |->
        IF r \in Caller
        THEN [m.reg[r] EXCEPT !.content = junk, !.dirty = FALSE,
                        !.modified = FALSE, !.var = NoVar, !.node = 0]
        ELSE m.reg[r]]]

-----------------------------------------------------------------------------
(* AST_NODE::getTempReg *)

\* A node that is no variable and whose register does not fit: a vacant
\* register of the pool becomes the register of node n, nothing is loaded.
NewTemp(m, pool, n) ==
    {[m |-> SetTargetNode(a.m, a.r, n), r |-> a.r] : a \in FindVacant(m, pool)}

\* Fault: every use of a variable is taken for its left-hand side.
VarRegUnloaded(m, v, load) ==
    IF Fitting(m, v) # {} THEN {[m |-> m, r |-> r] : r \in Fitting(m, v)}
    ELSE {[m |-> SetTargetVar(a.m, a.r, v), r |-> a.r] : a \in FindVacant(m, CalleePool)}

\* A variable: the register that caches it, or a vacant callee register, loaded
\* from memory unless the caller asks for RegDisableload.
VarReg(m, v, load) ==
    IF Fitting(m, v) # {} THEN {[m |-> m, r |-> r] : r \in Fitting(m, v)}
    ELSE {[m |-> SetTargetVar(IF load THEN LoadValue(a.m, a.r, a.m.mem[v])
                              ELSE a.m, a.r, v),
           r |-> a.r] : a \in FindVacant(m, CalleePool)}
=============================================================================
