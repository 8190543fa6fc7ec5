----------------------------- MODULE Assembler ------------------------------
(***************************************************************************)
(* spim's assembler: labels, their uses and the instructions made from     *)
(* pseudo-instructions (CPU/sym-tbl.c, CPU/inst.c, CPU/data.c and the      *)
(* rules of CPU/parser.y that call them), on words of two halves.  A step  *)
(* is one line's label or command.  Not modelled: the bare machine, labels *)
(* near $gp (.extern, .lcomm), NAME = VALUE, code in the data segment,     *)
(* kernel segments.                                                        *)
(***************************************************************************)
EXTENDS Integers, Sequences, SequencesExt, FiniteSets

CONSTANTS
    Names,                  \* of labels
    Radix,                  \* half a word has this many values, 2^16
    TextStart, DataStart,   \* where the segments begin
    Delays,                 \* the values of delayed_branches tried
    Operands,               \* offset and base of the addresses in programs
    BaseValue,              \* what the base register holds when the code runs
    MaxRefs, MaxDefs, MaxText, MaxData, Files,  \* bounds on the program
    Redefines,              \* programs define a name again
    LateGlobals             \* programs declare a defined name global

Size == Radix * Radix
Wrap(n) == n % Size
High(v) == v \div Radix
Low(v) == v % Radix
SignEx(v) == IF 2 * Low(v) >= Radix THEN Wrap(Low(v) - Radix) ELSE Low(v)   \* SIGN_EX
Signed(v) == IF 2 * v >= Size THEN v - Size ELSE v
Region == Size \div 4           \* what the target of a jump can say
None == 0                       \* no symbol

ASSUME AssemblerAssumption ==
    /\ Radix \in Nat \ {0} /\ Radix % 4 = 0 /\ Delays \subseteq BOOLEAN
    /\ {Files, TextStart, DataStart} \subseteq Nat \ {0} /\ TextStart % 4 = 0
    /\ {MaxText, MaxData} \subseteq Nat                   \* segments are in the address space
    /\ TextStart + 4 * MaxText < Size /\ DataStart + 4 * (MaxData + 1) <= Size
    /\ BaseValue \in 0 .. Size - 1 /\ Operands \subseteq [off : Int, base : {"zero", "base"}]

VARIABLES
    image,      \* text, data, the labels, the table of them and the local ones
    line,       \* this_line_labels
    dir,        \* "text" or "data"
    datapc,     \* next_data_pc
    delayed,    \* delayed_branches
    file,       \* the number of the file
    refs, defs  \* ghosts: the references and the definitions of the program

asmVars == <<image, line, dir, datapc, delayed, file, refs, defs>>

Undefined(name) == [name |-> name, addr |-> 0, global |-> FALSE, uses |-> <<>>, meant |-> 0]
AsmInit ==
    /\ image = [text |-> <<>>, data |-> <<>>, labels |-> <<>>, table |-> [n \in Names |-> None],
                local |-> <<>>]
    /\ line = <<>> /\ dir = "text" /\ datapc = DataStart /\ file = 1
    /\ delayed \in Delays /\ refs = {} /\ defs = {}

PcOf(k) == TextStart + 4 * (k - 1)
TextPc(s) == PcOf(Len(s.text) + 1)

---------------------------------------------------------------------------
(* Expressions and instructions.                                           *)

Expr(off, sym) == [off |-> off, sym |-> sym, bits |-> "all"]
Upper(e) == [e EXCEPT !.bits = "upper"]
Lower(e) == [e EXCEPT !.bits = "lower"]
Const(v) == Expr(v, None)

IsKnown(s, e) == e.sym = None \/ s.labels[e.sym].addr # 0   \* SYMBOL_IS_DEFINED
Eval(s, e) ==
    LET v == Wrap(e.off + IF e.sym = None THEN 0 ELSE s.labels[e.sym].addr) IN
    CASE e.bits = "upper" -> High(v) [] e.bits = "lower" -> Low(v) [] OTHER -> v

Inst(op, rt, rs, e) == [op |-> op, rt |-> rt, rs |-> rs, imm |-> 0, expr |-> e]

\* The offset of a branch, in instructions; pc-relative expressions lose their own.
BranchOffset(s, i, pc) ==
    LET val == Signed(SignEx(Eval(s, [i.expr EXCEPT !.off = 0 - pc]))) \div 4
    IN Low(IF delayed THEN val - 1 ELSE val)

\* A negative lower half is added to the upper one of the LUI before it, or before
\* the ADDU of an index, unless that has an immediate already.
Lui(s, k, sym) ==
    /\ k > 0
    /\ LET i == s.text[k] IN i.op = "lui" /\ i.expr.sym = sym /\ i.imm = 0
Compensated(s, k, v) ==
    LET sym == s.text[k].expr.sym
        lui == IF Lui(s, k - 1, sym) THEN k - 1 ELSE k - 2
    IN IF SignEx(v) = Low(v) \/ ~Lui(s, lui, sym) THEN s
       ELSE [s EXCEPT !.text[lui].expr.off = @ + Radix]

\* resolve_a_label_sub, for the instruction at k.
Resolved(s, k) ==
    LET i == s.text[k]
        v == Eval(s, i.expr)
    IN CASE i.op = "b" -> [s EXCEPT !.text[k].imm = BranchOffset(s, i, PcOf(k))]
         [] i.op = "j" -> [s EXCEPT !.text[k].imm = (v % Region) \div 4]
         [] i.op = "lw" -> [Compensated(s, k, v) EXCEPT !.text[k].imm = Low(v)]
         [] OTHER -> [s EXCEPT !.text[k].imm = Low(v)]

\* Fault: uses are kept in the order they were met.
RecordedInOrder(s, sym, use) == [s EXCEPT !.labels[sym].uses = Append(@, use)]
\* record_inst_uses_symbol, record_data_uses_symbol
Recorded(s, sym, use) == [s EXCEPT !.labels[sym].uses = <<use>> \o @]

\* i_type_inst where it makes one instruction, and j_type_inst.
Single(s, op, rt, rs, e) ==
    LET t == [s EXCEPT !.text = Append(@, Inst(op, rt, rs, e))]
        k == Len(t.text)
    IN IF IsKnown(s, e) THEN Resolved(t, k)
       ELSE Recorded(t, e.sym, [kind |-> "inst", at |-> k])

Addu(s, rs) ==
    IF rs = "zero" THEN s ELSE [s EXCEPT !.text = Append(@, Inst("addu", "at", rs, Const(0)))]

\* Whether a value fits into the immediate of an instruction.
Fits(op, v) == IF op \in {"addiu", "lw"} THEN SignEx(v) = v ELSE v < Radix

\* i_type_inst_full_word of a load whose address is known, and of one not known.
KnownLoad(s, rt, rs, v) ==
    LET high == IF SignEx(v) = Low(v) THEN High(v) ELSE High(v) + 1
    IN Single(Addu(Single(s, "lui", "at", "zero", Const(high)), rs), "lw", rt, "at", Lower(Const(Low(v))))
UnknownLoad(s, rt, rs, e) ==
    Single(Addu(Single(s, "lui", "at", "zero", Upper(e)), rs), "lw", rt, "at", Lower(e))

\* produce_immediate
ProduceImmediate(s, rt, e) ==
    IF IsKnown(s, e) /\ Low(Eval(s, e)) = 0 THEN Single(s, "lui", rt, "zero", Upper(e))
    ELSE IF IsKnown(s, e) /\ High(Eval(s, e)) = 0 THEN Single(s, "ori", rt, "zero", Lower(e))
    ELSE Single(Single(s, "lui", "at", "zero", Upper(e)), "ori", rt, "at", Lower(e))

\* i_type_inst
IType(s, op, rt, rs, e) ==
    CASE IsKnown(s, e) /\ Fits(op, Eval(s, e)) -> Single(s, op, rt, rs, e)
      [] op = "b" /\ ~(IsKnown(s, e) /\ Fits(op, Eval(s, e))) -> Single(s, op, rt, rs, Lower(e))
      [] op = "lw" /\ IsKnown(s, e) /\ ~Fits(op, Eval(s, e)) -> KnownLoad(s, rt, rs, Eval(s, e))
      [] op = "lw" /\ ~IsKnown(s, e) -> UnknownLoad(s, rt, rs, e)
      [] OTHER -> ProduceImmediate(s, rt, e)

---------------------------------------------------------------------------
(* Labels.                                                                 *)

ResolveUse(s, sym, u) ==
    IF u.kind = "data" THEN [s EXCEPT !.data[u.at] = s.labels[sym].addr] ELSE Resolved(s, u.at)
\* resolve_label_uses
ResolveUses(s, sym) ==
    [FoldLeft(LAMBDA t, u : ResolveUse(t, sym, u), s, s.labels[sym].uses)
        EXCEPT !.labels[sym].uses = <<>>]

\* clear_labels, when what follows the line's labels is at a (a ghost), after
\* fix_current_label_address where the item was aligned.
Cleared(s, a) ==
    FoldLeft(LAMBDA t, l : [ResolveUses(t, l) EXCEPT !.labels[l].meant = a], s, line)
Fixed(s, a) == FoldLeft(LAMBDA t, l : [t EXCEPT !.labels[l].addr = a], s, line)

Looked(s, n) ==         \* lookup_label
    IF s.table[n] # None THEN s
    ELSE [s EXCEPT !.labels = Append(@, Undefined(n)), !.table[n] = Len(s.labels) + 1]

Here(s) == IF dir = "text" THEN TextPc(s) ELSE datapc

\* NAME: with record_label; the line's labels stay pending.
Label(n) ==
    LET s == Looked(image, n)
        l == s.table[n]
        again == s.labels[l].addr # 0
    IN /\ Cardinality(defs) < MaxDefs /\ (Redefines \/ ~again)
       /\ IF again THEN image' = Cleared(s, Here(s)) /\ line' = <<l>> /\ UNCHANGED defs
          ELSE /\ image' = [s EXCEPT !.labels[l].addr = Here(s),
                                     !.local = IF s.labels[l].global THEN @ ELSE <<l>> \o @]
               /\ line' = <<l>> \o line
               /\ defs' = defs \cup {[name |-> n, file |-> file, label |-> l]}
       /\ UNCHANGED <<dir, datapc, delayed, file, refs>>

\* The commands: each ends in clear_labels.
Done(s, a) == image' = Cleared(s, a) /\ line' = <<>>

\* .globl
Global(n) ==
    LET s == Looked(image, n)
        l == s.table[n]
    IN /\ ~s.labels[l].global /\ (LateGlobals \/ s.labels[l].addr = 0)
       /\ Done([s EXCEPT !.labels[l].global = TRUE], Here(s))
       /\ UNCHANGED <<dir, datapc, delayed, file, refs, defs>>

\* .text and .data
Segment ==
    /\ dir' = IF dir = "text" THEN "data" ELSE "text"
    /\ Done(image, Here(image)) /\ UNCHANGED <<datapc, delayed, file, refs, defs>>

\* .byte; one is enough to leave the alignment.
Byte ==
    /\ dir = "data" /\ datapc % 4 = 0 /\ datapc < DataStart + 4 * MaxData /\ datapc' = datapc + 1
    /\ Done(image, datapc) /\ UNCHANGED <<dir, delayed, file, refs, defs>>

Ref(kind, n, l, at, count, x) ==
    [kind |-> kind, name |-> n, label |-> l, file |-> file, at |-> at, count |-> count, x |-> x]

\* store_word, at an aligned address.
WithWord(s, a, v) ==
    [s EXCEPT !.data = [w \in {a} \cup DOMAIN s.data |-> IF w = a THEN v ELSE s.data[w]]]

\* .word NAME: aligned with the line's labels first, which resolves them.
Word(n) ==
    LET a == 4 * ((datapc + 3) \div 4)
        s == Looked(Cleared(Fixed(image, a), a), n)
        l == s.table[n]
        t == WithWord(s, a, s.labels[l].addr)
    IN /\ dir = "data" /\ Cardinality(refs) < MaxRefs /\ a < DataStart + 4 * MaxData
       /\ image' = IF s.labels[l].addr # 0 THEN t ELSE Recorded(t, l, [kind |-> "data", at |-> a])
       /\ line' = <<>> /\ datapc' = a + 4
       /\ refs' = refs \cup {Ref("word", n, l, a, 1, [off |-> 0, base |-> "zero"])}
       /\ UNCHANGED <<dir, delayed, file, defs>>

Emit(kind, n, x, op, rt) ==
    LET s == Looked(image, n)
        l == s.table[n]
        e == Expr(IF op = "b" THEN Wrap(-TextPc(s)) ELSE x.off, l)
        t == IF op = "j" THEN Single(s, op, rt, "zero", e) ELSE IType(s, op, rt, x.base, e)
    IN /\ dir = "text" /\ Cardinality(refs) < MaxRefs /\ Len(t.text) <= MaxText
       /\ Done(t, TextPc(s))
       /\ refs' = refs \cup {Ref(kind, n, l, Len(s.text) + 1, Len(t.text) - Len(s.text), x)}
       /\ UNCHANGED <<dir, datapc, delayed, file, defs>>

Plain == [off |-> 0, base |-> "zero"]
Load(n, x) == Emit("load", n, x, "lw", "t0")
LoadAddress(n, op, off) == Emit("value", n, [off |-> off, base |-> "zero"], op, "t0")
Branch(n) == Emit("branch", n, Plain, "b", "zero")
Jump(n) == Emit("jump", n, Plain, "j", "zero")

\* The end of a file: TERM, then flush_local_labels.
Flushed(s) ==
    [s EXCEPT !.table = [n \in Names |-> IF \E k \in DOMAIN s.local : s.labels[s.local[k]].name = n
                                         THEN None ELSE @[n]],
              !.local = <<>>]
\* Fault: the labels of a file stay known.
FlushedListOnly(s) == [s EXCEPT !.local = <<>>]
Closed(s) == Flushed(s)
EndOfFile ==
    /\ file < Files /\ file' = file + 1
    /\ image' = Closed(Cleared(image, Here(image))) /\ line' = <<>> /\ dir' = "text"
    /\ UNCHANGED <<datapc, delayed, refs, defs>>

Reference(n) ==
    \/ \E x \in Operands : Load(n, x)
    \/ \E x \in Operands, op \in {"ori", "addiu"} : LoadAddress(n, op, x.off)
    \/ Branch(n) \/ Jump(n) \/ Word(n)
AsmNext == Segment \/ Byte \/ EndOfFile \/ \E n \in Names : Label(n) \/ Global(n) \/ Reference(n)

---------------------------------------------------------------------------
(* What the code made computes.                                            *)

Registers == [zero |-> 0, at |-> 0, base |-> BaseValue, t0 |-> 0]
Ran(r, i) ==
    CASE i.op = "lui" -> [r EXCEPT ![i.rt] = i.imm * Radix]
      [] i.op = "ori" -> [r EXCEPT ![i.rt] = r[i.rs] + i.imm]    \* the low half of rs is 0
      [] i.op = "addu" -> [r EXCEPT ![i.rt] = Wrap(r[i.rt] + r[i.rs])]
      [] OTHER -> [r EXCEPT ![i.rt] = Wrap(r[i.rs] + SignEx(i.imm))]     \* addiu, the address of lw

\* IDISP: the immediate is a short, and is shifted before SIGN_EX looks at bit 15.
Displacement(imm) ==
    LET d == 4 * (IF 2 * imm >= Radix THEN imm - Radix ELSE imm)
    IN IF 2 * Low(d) >= Radix THEN Low(d) - Radix ELSE d

\* The address a reference comes to: of the word loaded, of the instruction gone to.
Reached(r) ==
    LET i == image.text[r.at] IN
    CASE r.kind = "word" -> image.data[r.at]
      [] r.kind = "jump" -> Region * (PcOf(r.at) \div Region) + 4 * i.imm
      [] r.kind = "branch" -> Wrap(PcOf(r.at) + Displacement(i.imm) + IF delayed THEN 4 ELSE 0)
      [] OTHER -> FoldLeft(Ran, Registers, SubSeq(image.text, r.at, r.at + r.count - 1)).t0

Near(r, a) ==
    CASE r.kind = "branch" -> a - PcOf(r.at) \in -(Radix \div 2) .. Radix \div 2 - 1
      [] r.kind = "jump" -> a \div Region = PcOf(r.at) \div Region
      [] OTHER -> TRUE
Target(r, a) == Near(r, a) /\ (r.kind \in {"branch", "jump"} => a % 4 = 0)
Meant(r) == image.labels[r.label].meant
\* Whether a label was defined before or after its use, and however its address
\* splits into halves, the instructions made for a reference arrive at what
\* followed the label (if a branch or jump can say so at all).
ReferencesResolved ==
    \A r \in refs : (Meant(r) # 0 /\ Target(r, Meant(r))) =>
        Reached(r) = Wrap(Meant(r) + r.x.off + Registers[r.x.base])

\* A name means its file's own definition where there is one; the definition of an
\* earlier file is found exactly when it was declared global.
NamesScoped ==
    \A r \in refs, d \in defs : r.name = d.name =>
        /\ d.file = r.file => d.label = r.label
        /\ d.file < r.file => (d.label = r.label <=> image.labels[d.label].global)
=============================================================================
