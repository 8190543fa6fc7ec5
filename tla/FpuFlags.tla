------------------------------ MODULE FpuFlags ------------------------------
(***************************************************************************)
(* The condition flags of the floating-point unit: comparisons             *)
(* (r_cond_type_inst in CPU/inst.c, run_spim and set_fpu_cc in CPU/run.c), *)
(* the moves to FCCR and FCSR, which both hold the flags, and the branches *)
(* and conditional moves that read them.  Two numbers are less, equal,     *)
(* greater or unordered; nothing else of them matters.                     *)
(***************************************************************************)
EXTENDS Integers

CONSTANTS Flags,        \* the flags programs compare into and branch on, of 0 .. 7
          MovedFlags,   \* the flags programs set by moves
          ClearsFirst   \* programs clear flag 0 by a move to FCCR

VARIABLES
    fccr, fcsr,     \* the flags, as FCCR and as FCSR hold them
    raised,         \* the last instruction raised an exception
    did,            \* ghost: the last comparison, with what it compared
    taken           \* what a branch after it read: "yes", "no", or "none" yet

flagVars == <<fccr, fcsr, raised, did, taken>>

Relations == {"less", "equal", "greater", "unordered"}
Cond(lt, eq, un, inv) == [LT |-> lt, EQ |-> eq, UN |-> un, INV |-> inv]

\* r_cond_type_inst
CondOf ==
    [f    |-> Cond(FALSE, FALSE, FALSE, FALSE), un  |-> Cond(FALSE, FALSE, TRUE, FALSE),
     eq   |-> Cond(FALSE, TRUE, FALSE, FALSE),  ueq |-> Cond(FALSE, TRUE, TRUE, FALSE),
     olt  |-> Cond(TRUE, FALSE, FALSE, FALSE),  ult |-> Cond(TRUE, FALSE, TRUE, FALSE),
     ole  |-> Cond(TRUE, TRUE, FALSE, FALSE),   ule |-> Cond(TRUE, TRUE, TRUE, FALSE),
     sf   |-> Cond(FALSE, FALSE, FALSE, TRUE),  ngle |-> Cond(FALSE, FALSE, TRUE, TRUE),
     seq  |-> Cond(FALSE, TRUE, FALSE, TRUE),   ngl |-> Cond(FALSE, TRUE, TRUE, TRUE),
     lt   |-> Cond(TRUE, FALSE, FALSE, TRUE),   nge |-> Cond(TRUE, FALSE, TRUE, TRUE),
     le   |-> Cond(TRUE, TRUE, FALSE, TRUE),    ngt |-> Cond(TRUE, TRUE, TRUE, TRUE)]

AllFlags == 0 .. 7
ASSUME FlagAssumption == Flags \subseteq AllFlags /\ MovedFlags \subseteq AllFlags
Nothing == [name |-> "none", rel |-> "equal", cc |-> 0]
FlagInit ==
    /\ fccr = [f \in AllFlags |-> FALSE] /\ fcsr = fccr
    /\ raised = FALSE /\ did = Nothing /\ taken = "none"

\* r_cond_type_inst shifts cc into FD, from where it is taken as it is: a
\* comparison into flag 1 writes flag 4, one into a higher flag writes none.
FlagOf(cc) == 4 * cc
\* Fault: the result is added to what the flag was.
SetFlagOnly(regs, cc, result) == [f \in AllFlags |-> regs[f] \/ (f = FlagOf(cc) /\ result)]
\* set_fpu_cc, in either register.
SetFlag(regs, cc, result) == [f \in AllFlags |-> IF f = FlagOf(cc) THEN result ELSE regs[f]]

Holds(c, rel) ==
    \/ c.LT /\ rel = "less"
    \/ c.EQ /\ rel = "equal"
    \/ c.UN /\ rel = "unordered"

\* C.cond into flag cc, of operands that are rel.
Compare(name, cc, rel) ==
    LET c == CondOf[name] IN
    /\ raised' = (c.INV /\ rel = "unordered") /\ taken' = "none"
    /\ did' = [name |-> name, rel |-> rel, cc |-> cc]
    /\ IF raised' THEN UNCHANGED <<fccr, fcsr>>
       ELSE /\ fccr' = SetFlag(fccr, cc, Holds(c, rel))
            /\ fcsr' = SetFlag(fcsr, cc, Holds(c, rel))

Moved(v) == [f \in AllFlags |-> f \in v]
\* CTC1 to FCCR: the mask leaves bit 23 of FCSR, flag 0, as it was.
MoveToFccr(v) ==
    /\ ClearsFirst \/ 0 \in v
    /\ fccr' = Moved(v) /\ fcsr' = [Moved(v) EXCEPT ![0] = @ \/ fcsr[0]]
    /\ raised' = FALSE /\ did' = Nothing /\ taken' = "none"
\* Fault: FCCR is not written along.
FcsrAlone(v) == fccr
FccrOf(v) == Moved(v)
\* CTC1 to FCSR; other says whether modes that are not supported are set as well.
MoveToFcsr(v, other) ==
    /\ fcsr' = Moved(v) /\ fccr' = FccrOf(v)
    /\ raised' = other /\ did' = Nothing /\ taken' = "none"

\* BC1T, MOVT and the like read FCCR.
Branch(cc) ==
    /\ taken' = (IF fccr[cc] THEN "yes" ELSE "no") /\ did # Nothing /\ did.cc = cc
    /\ UNCHANGED <<fccr, fcsr, raised, did>>

FlagNext ==
    \/ \E n \in DOMAIN CondOf, cc \in Flags, rel \in Relations : Compare(n, cc, rel)
    \/ \E v \in SUBSET MovedFlags : MoveToFccr(v) \/ \E other \in BOOLEAN : MoveToFcsr(v, other)
    \/ \E cc \in Flags : Branch(cc)

---------------------------------------------------------------------------

\* Both registers show the same flags, whichever instructions wrote them.
FlagsLinked == fccr = fcsr

\* What the names of the comparisons say, of those ordered and those unordered
\* operands: "not greater or less" is equal or unordered.
Meaning(n, rel) ==
    CASE n \in {"f", "sf"}   -> FALSE
      [] n \in {"un", "ngle"} -> rel \notin {"greater", "less", "equal"}
      [] n \in {"eq", "seq"} -> rel = "equal"
      [] n \in {"ueq", "ngl"} -> rel \notin {"greater", "less"}
      [] n \in {"olt", "lt"} -> rel = "less"
      [] n \in {"ult", "nge"} -> rel \notin {"greater", "equal"}
      [] n \in {"ole", "le"} -> rel \in {"less", "equal"}
      [] n \in {"ule", "ngt"} -> rel # "greater"

\* A branch on a flag goes the way of the comparison before it, unless that
\* raised an exception: which it does for unordered operands and the names that
\* signal.
ComparisonsHold ==
    did # Nothing =>
       /\ raised = (did.rel = "unordered"
                        /\ did.name \in {"sf", "ngle", "seq", "ngl", "lt", "nge", "le", "ngt"})
       /\ (taken # "none" /\ ~raised) => (taken = "yes") = Meaning(did.name, did.rel)
=============================================================================
