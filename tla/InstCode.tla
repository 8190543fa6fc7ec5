------------------------------ MODULE InstCode ------------------------------
(***************************************************************************)
(* The binary form of instructions (inst_encode and inst_decode in         *)
(* CPU/inst.c, the table CPU/op.h).  A code word is its six fields         *)
(*     op 31..26, rs 25..21, rt 20..16, rd 15..11, sa 10..6, fn 5..0,      *)
(* an immediate is rd, sa and fn together, a jump's target all but op; an  *)
(* instruction has its own fields of those names (FT is RT, FS is RD, FD   *)
(* is SHAMT, BASE and COND are RS, CC is the upper part of RT).            *)
(***************************************************************************)
EXTENDS Naturals

CONSTANTS Samples,      \* what the fields of an instruction hold, of 0 .. 31
          CodedTypes    \* the types of the instructions tried

VARIABLES
    made,       \* the instruction assembled
    code,       \* its code word
    read,       \* what was decoded from it
    coding      \* "made", "encoded" or "decoded"

codeVars == <<made, code, read, coding>>

Zero == [op |-> 0, rs |-> 0, rt |-> 0, rd |-> 0, sa |-> 0, fn |-> 0]
Opcode(o, s, t, f) == [Zero EXCEPT !.op = o, !.rs = s, !.rt = t, !.fn = f]
Primary(os) == {Opcode(o, 0, 0, 0) : o \in os}
Special(fs) == {Opcode(0, 0, 0, f) : f \in fs}
Special2(fs) == {Opcode(28, 0, 0, f) : f \in fs}
RegImm(ts) == {Opcode(1, 0, t, 0) : t \in ts}

\* op.h without the instructions of Rev 2, ssnop (an sll) and cop2.
Codes(type) ==
    CASE type = "B1"  -> RegImm({0, 1, 2, 3, 16, 17, 18, 19}) \cup Primary({6, 7, 22, 23})
      [] type = "I1s" -> RegImm({8, 9, 10, 11, 12, 14})
      [] type = "I1t" -> Primary({15})
      [] type = "I2"  -> Primary({8, 9, 10, 11, 12, 13, 14, 47, 51})
      [] type = "B2"  -> Primary({4, 5, 20, 21})
      [] type = "I2a" -> Primary({32, 33, 34, 35, 36, 37, 38, 40, 41, 42, 43, 46, 48, 50, 54, 56, 58, 62})
      [] type = "R1s" -> Special({8, 17, 19})
      [] type = "R1d" -> Special({13, 16, 18})
      [] type = "R2td" -> {Opcode(16, 0, 0, 0), Opcode(16, 4, 0, 0), Opcode(18, 0, 0, 0), Opcode(18, 4, 0, 0)}
      [] type = "R2st" -> Special({24, 25, 26, 27, 48, 49, 50, 51, 52, 54}) \cup Special2({0, 1, 4, 5})
      [] type = "R2ds" -> Special({9})
      [] type = "R2sh" -> Special({0, 2, 3})
      [] type = "R3" -> Special({10, 11, 32, 33, 34, 35, 36, 37, 38, 39, 42, 43}) \cup Special2({2, 32, 33})
      [] type = "R3sh" -> Special({4, 6, 7})
      [] type = "J" -> Primary({2, 3})
      [] type = "NOARG" -> Special({12, 15})
              \cup {Opcode(16, 16, 0, f) : f \in {1, 2, 6, 8, 16, 24}}
      [] type = "MOVC" -> {Opcode(0, 0, 0, 1), Opcode(0, 0, 1, 1)}
      [] type = "BC" -> {Opcode(17, 8, t, 0) : t \in 0 .. 3} \cup {Opcode(18, 8, t, 0) : t \in 0 .. 3}
      [] type = "FP_I2a" -> Primary({49, 53, 57, 61})
      [] type = "FP_R2ts" -> {Opcode(17, s, 0, 0) : s \in {0, 2, 4, 6}} \cup {Opcode(o, s, 0, 0) : o \in {16, 18}, s \in {2, 6}}
      [] type = "FP_R2ds" -> {Opcode(17, s, 0, f) : s \in {16, 17}, f \in {4, 5, 6, 7, 12, 13, 14, 15, 33, 36}}
              \cup {Opcode(17, 17, 0, 32), Opcode(17, 20, 0, 32)}
      [] type = "FP_R3" -> {Opcode(17, s, 0, f) : s \in {16, 17}, f \in 0 .. 3}
      [] type = "FP_CMP" -> {Opcode(17, s, 0, f) : s \in {16, 17}, f \in 48 .. 63}
      [] type = "FP_MOVC" -> {Opcode(17, s, t, 17) : s \in {16, 17}, t \in {0, 1}}
              \cup {Opcode(17, s, 0, f) : s \in {16, 17}, f \in {18, 19}}
AllTypes == {"B1", "I1s", "I1t", "I2", "B2", "I2a", "R1s", "R1d", "R2td", "R2st", "R2ds", "R2sh", "R3",
             "R3sh", "J", "NOARG", "MOVC", "BC", "FP_I2a", "FP_R2ts", "FP_R2ds", "FP_R3", "FP_CMP",
             "FP_MOVC"}
ASSUME CodeAssumption == Samples \subseteq 0 .. 31 /\ CodedTypes \subseteq AllTypes

\* The fields an instruction of a type has: those inst_encode puts into the word.
Immediate == {"rd", "sa", "fn"}
FieldsOf(type) ==
    CASE type \in {"B1", "I1s"} -> {"rs"} \cup Immediate
      [] type \in {"I1t", "I2", "B2", "I2a", "FP_I2a"} -> {"rs", "rt"} \cup Immediate
      [] type = "R1s" -> {"rs"}
      [] type = "R1d" -> {"rd"}
      [] type \in {"R2td", "FP_R2ts"} -> {"rt", "rd"}
      [] type = "R2st" -> {"rs", "rt"}
      [] type = "R2ds" -> {"rs", "rd"}
      [] type = "R2sh" -> {"rt", "rd", "sa"}
      [] type \in {"R3", "R3sh", "MOVC"} -> {"rs", "rt", "rd"}
      [] type = "J" -> {"rs", "rt"} \cup Immediate
      [] type = "NOARG" -> {}
      [] type = "BC" -> {"rt"} \cup Immediate
      [] type = "FP_R2ds" -> {"rd", "sa"}
      [] type \in {"FP_R3", "FP_MOVC"} -> {"rt", "rd", "sa"}
      [] type = "FP_CMP" -> {"rs", "rt", "rd", "sa"}

Fields == {"rs", "rt", "rd", "sa", "fn"}
\* The instructions of a type, each with the opcode of the table.
Instructions(type) ==
    {[opcode |-> c, type |-> type, fields |-> [f \in Fields |-> IF f \in FieldsOf(type) THEN v[f] ELSE 0]] :
        c \in Codes(type), v \in [Fields -> Samples]}

CodeInit ==
    /\ \E t \in CodedTypes : made \in Instructions(t)
    /\ code = Zero /\ read = made /\ coding = "made"

\* inst_encode.  The opcode's bits and the fields do not meet in a word, so that
\* | is a sum; COND is or-ed into those of a comparison, which hold it already.
Put(i, f) ==
    IF i.type \in {"BC", "FP_MOVC"} /\ f = "rt" THEN 4 * (i.fields[f] \div 4)
    ELSE IF i.type = "FP_CMP" /\ f = "rs" THEN 0 ELSE i.fields[f]
Encoded(i) == [f \in DOMAIN Zero |-> i.opcode[f] + IF f = "op" THEN 0 ELSE Put(i, f)]

Only(w, fs) == [f \in DOMAIN Zero |-> IF f \in fs \cup {"op"} THEN w[f] ELSE 0]
\* Fault: the second level of the branches on a sign is not looked at.
ClassTwoLevels(w) ==
    CASE w.op \in {0, 28} -> Only(w, {"fn"}) [] OTHER -> Only(w, {})
\* The bits of a word that tell its instruction.
Class(w) ==
    CASE w.op \in {0, 28} -> Only(w, {"fn"})
      [] w.op = 1 -> Only(w, {"rt"})
      [] w.op = 16 -> [Only(w, {"rs"}) EXCEPT !.fn = w.fn % 32]
      [] w.op = 17 /\ w.rs \div 8 = 1 -> [Only(w, {"rs"}) EXCEPT !.rt = w.rt % 2]
      [] w.op = 17 /\ w.rs \div 8 # 1 -> Only(w, {"rs", "fn"})
      [] w.op \in {18, 19} -> Only(w, {"rs"})
      [] OTHER -> Only(w, {})

\* inst_decode.  The word's fields that FS and FD lie in are read into RS and RD
\* for the floating-point types, and the target's mask leaves bit 24 out.
Taken(type, w, f) ==
    CASE type \in {"FP_R2ds", "FP_R3", "FP_CMP", "FP_MOVC"} ->
            (CASE f = "rs" -> IF type = "FP_CMP" THEN w.fn % 16 ELSE w.rd
               [] f = "rt" -> IF type = "FP_R2ds" THEN 0 ELSE w.rt
               [] f = "rd" -> w.sa
               [] OTHER -> 0)
      [] type = "BC" /\ f = "rs" -> w.rs
      [] type = "J" /\ f = "rs" -> w.rs - 8 * ((w.rs \div 8) % 2)
      [] OTHER -> IF f \in FieldsOf(type) THEN w[f] ELSE 0
Invalid == [opcode |-> Zero, type |-> "invalid", fields |-> [f \in Fields |-> 0]]
\* map_int_to_name_val_val, in the table of opcodes.
Found(w) == {t \in AllTypes : Class(w) \in Codes(t)}
Decoded(w) ==
    IF Found(w) = {} THEN Invalid
    ELSE LET t == CHOOSE t \in Found(w) : TRUE
         IN [opcode |-> Class(w), type |-> t, fields |-> [f \in Fields |-> Taken(t, w, f)]]

Encode == coding = "made" /\ code' = Encoded(made) /\ coding' = "encoded" /\ UNCHANGED <<made, read>>
Decode == coding = "encoded" /\ read' = Decoded(code) /\ coding' = "decoded" /\ UNCHANGED <<made, code>>
CodeNext == Encode \/ Decode

---------------------------------------------------------------------------

\* An instruction stored as a word, and read back from it, is the instruction
\* it was: what test_assembly compares.  Two instructions with one word would
\* break it, and so would a level of the opcode that inst_decode does not see.
CodesInvert == coding = "decoded" => read = made
=============================================================================
