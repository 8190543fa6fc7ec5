---------------------------- MODULE Conditionals ----------------------------
(***************************************************************************)
(* Code with several ways through it: if and for (codeGen.c) over the      *)
(* register cache. The generator goes over a function once, while one run  *)
(* of the code, on some inputs, executes a part of what is emitted. live   *)
(* says whether the run executes what is emitted now: the records of the   *)
(* registers always change, their contents and memory only when it does.   *)
(* Statements are over scalars; a run goes through a loop at most once.    *)
(***************************************************************************)
EXTENDS Registers, SequencesExt

CONSTANTS
    MaxOpen,        \* bound on nested statements
    Allowed         \* what programs contain: "else" parts, "init" before an if

VARIABLES
    m,              \* registers and memory
    env,            \* the value each variable has in this run
    live,           \* the run executes what is emitted
    open            \* the statements the generator is in, innermost last

condVars == <<m, env, live, open>>

CondInit ==
    /\ env \in [Vars -> Val]
    /\ m \in [reg : [Reg -> {s \in RegState :
                                /\ ~s.dirty /\ ~s.modified /\ ~s.locked
                                /\ s.var = NoVar /\ s.node = 0}],
              mem : {env}]
    /\ live = TRUE /\ open = <<>>

\* What code that took the generator from machine a to b does to the run.
Executed(on, a, b) ==
    IF on THEN b
    ELSE [reg |-> [r \in Reg |-> [b.reg[r] EXCEPT !.content = a.reg[r].content]], mem |-> a.mem]

Innermost == Last(open)
NonZero(mm, r) == mm.reg[r].content # 0
InBody == open # <<>> /\ Innermost.kind = "else" => "else" \in Allowed
Inner == InBody /\ Len(open) < MaxOpen
Entered(kind, v, again) == Append(open, [kind |-> kind, before |-> live, var |-> v, again |-> again])

---------------------------------------------------------------------------
(* Statements.                                                             *)

Assigned(v, value) == env' = IF live THEN [env EXCEPT ![v] = value] ELSE env

\* genAssignStmt, of a variable and of a constant
Finished(right, v) ==
    \E left \in VarReg(Lock(right.m, right.r, TRUE), v, FALSE) :
        m' = Executed(live, m, Lock(Save(LoadReg(left.m, left.r, right.r), left.r), right.r, FALSE))
Copy(v, w) ==
    /\ InBody /\ \E right \in VarReg(m, w, TRUE) : Finished(right, v)
    /\ Assigned(v, env[w]) /\ UNCHANGED <<live, open>>
Set(v, c) ==
    /\ InBody
    /\ \E right \in NewTemp(m, CallerPool, 1) :
          Finished([right EXCEPT !.m = LoadValue(@, right.r, c)], v)
    /\ Assigned(v, c) /\ UNCHANGED <<live, open>>

\* genVariable, a local with an initialiser, before the statements
Initialise(v, c) ==
    /\ open = <<>> /\ Fitting(m, v) = {}
    /\ \E right \in NewTemp(m, CallerPool, 1) :
       \E slot \in VarReg(LoadValue(right.m, right.r, c), v, FALSE) :
          m' = LoadReg(slot.m, slot.r, right.r)
    /\ Assigned(v, c) /\ UNCHANGED <<live, open>>

\* write(v), an argument or return v
UseOf(v) ==
    /\ InBody /\ \E a \in VarReg(m, v, TRUE) : m' = Executed(live, m, a.m)
    /\ UNCHANGED <<env, live, open>>

---------------------------------------------------------------------------
(* Conditionals.                                                           *)

\* genGeneralNode of a STMT_LIST_NODE: a register is taken for its first statement.
Parts(mm) == {mm} \cup {a.m : a \in NewTemp(mm, CalleePool, 1)}

\* genIfStmt up to the branch
If(v) ==
    /\ Inner
    /\ (\E r \in Reg : m.reg[r].modified) => "init" \in Allowed
    /\ \E a \in VarReg(m, v, TRUE) :
          /\ m' = Executed(live, m, a.m) /\ live' = (live /\ NonZero(m', a.r))
    /\ open' = Entered("if", v, <<>>) /\ UNCHANGED env

\* Fault: the registers are stored and their records kept.
StoredOnly(mm) ==
    [SaveAndClear(mm) EXCEPT !.reg =
        [r \in Reg |-> [mm.reg[r] EXCEPT !.dirty = FALSE, !.modified = FALSE]]]
Joined(mm) == SaveAndClear(mm)

\* The end of the then-part: a jump to the end, and the label of the branch.
Else ==
    /\ open # <<>> /\ Innermost.kind = "if"
    /\ \E p \in Parts(m) : m' = Executed(live, m, Joined(p))
    /\ live' = (Innermost.before /\ ~live)
    /\ open' = [open EXCEPT ![Len(open)].kind = "else"] /\ UNCHANGED env

\* The end of the else-part, which is a NUL_NODE if the program has none.
EndIf ==
    /\ open # <<>> /\ Innermost.kind = "else"
    /\ \E p \in IF "else" \in Allowed THEN Parts(m) ELSE {m} : m' = Executed(live, m, p)
    /\ live' = Innermost.before /\ open' = Front(open) /\ UNCHANGED env

\* genForStmt: the condition's register becomes that of the list it is in.
For(v) ==
    /\ Inner
    /\ LET start == Executed(live, m, SaveAndClear(m)) IN
       \E a \in VarReg(start, v, TRUE) :
          LET tested == Executed(live, start, SetTargetNode(a.m, a.r, 1)) IN
          /\ live' = (live /\ NonZero(tested, a.r))
          /\ m' = Executed(live', tested, SaveAndClear(tested))
          /\ open' = Entered("for", v, [reg |-> a.r])
    /\ UNCHANGED env

\* Its end; a run that comes here jumps back, loads the condition again and leaves.
EndFor ==
    /\ open # <<>> /\ Innermost.kind = "for"
    /\ \E p \in Parts(m) :
          LET back == Executed(live, m, SaveAndClear(p)) IN
          /\ live => back.mem[Innermost.var] = 0
          /\ m' = IF live THEN [back EXCEPT !.reg[Innermost.again.reg].content = back.mem[Innermost.var]]
                  ELSE back
    /\ live' = Innermost.before /\ open' = Front(open) /\ UNCHANGED env

CondNext ==
    \/ \E v, w \in Vars : Copy(v, w)
    \/ \E v \in Vars, c \in Val : Set(v, c) \/ Initialise(v, c)
    \/ \E v \in Vars : UseOf(v) \/ If(v) \/ For(v)
    \/ Else \/ EndIf \/ EndFor

---------------------------------------------------------------------------

Seen(v) ==
    IF Fitting(m, v) = {} THEN m.mem[v]
    ELSE m.reg[CHOOSE r \in Fitting(m, v) : TRUE].content

\* Whichever way a run came to a point of the code, what the generator believes
\* there of registers and memory is what the run has: a use finds the value.
JoinsCoherent == live => \A v \in Vars : Seen(v) = env[v]
=============================================================================
