-------------------------------- MODULE Alu ---------------------------------
(***************************************************************************)
(* The integer instructions of run_spim (CPU/run.c), on words of two       *)
(* halves of Half bits; C computes modulo 2^(2*Half).  One instruction is  *)
(* executed from any register contents: its operands are in rs and rt, an  *)
(* immediate is the low half of rt.                                        *)
(***************************************************************************)
EXTENDS Integers, FiniteSetsExt

CONSTANTS Half,             \* bits of half a word
          Accumulators      \* the contents of HI and LO tried, as pairs

\* 2 to the power n.
TwoTo(n) == LET p[k \in 0 .. n] == IF k = 0 THEN 1 ELSE 2 * p[k - 1] IN p[n]

W == 2 * Half
Radix == TwoTo(Half)
Size == TwoTo(W)
Word == 0 .. Size - 1

ASSUME AluAssumption == Half \in Nat \ {0, 1} /\ Accumulators \subseteq Word \X Word

VARIABLES
    rs, rt,         \* the operands
    hi, lo, rd,     \* HI, LO and the destination
    trap,           \* an exception was raised
    op,             \* the instruction executed, or "none"
    old             \* ghost: HI and LO before it

aluVars == <<rs, rt, hi, lo, rd, trap, op, old>>

Wrap(n) == n % Size
Not(x) == Size - 1 - x
Bit(x, i) == (x \div TwoTo(i)) % 2
High(x) == x \div Radix
Low(x) == x % Radix
Negative(x) == x >= Size \div 2                     \* SIGN_BIT
Signed(x) == IF Negative(x) THEN x - Size ELSE x       \* reg_word, of a u_reg_word
Imm == IF 2 * Low(rt) >= Radix THEN Low(rt) + Size - Radix ELSE Low(rt)

AluInit ==
    /\ rs \in Word /\ rt \in Word
    /\ old \in Accumulators /\ hi = old[1] /\ lo = old[2]
    /\ rd = 0 /\ trap = FALSE /\ op = "none"

Execute(name) == op = "none" /\ op' = name /\ UNCHANGED <<rs, rt, old>>
Result(v) == rd' = v /\ UNCHANGED <<hi, lo, trap>>
Raise == trap' = TRUE /\ UNCHANGED <<rd, hi, lo>>
HiLo(p) == hi' = p[1] /\ lo' = p[2] /\ UNCHANGED <<rd, trap>>

---------------------------------------------------------------------------
(* Sums.                                                                   *)

\* ARITH_OVFL
Overflows(r, a, b) == Negative(a) = Negative(b) /\ Negative(a) # Negative(r)
Sum(name, b) ==
    /\ Execute(name)
    /\ LET r == Wrap(rs + b) IN IF Overflows(r, rs, b) THEN Raise ELSE Result(r)
Add == Sum("add", rt) \/ Sum("addi", Imm)
Sub ==
    /\ Execute("sub")
    /\ LET r == Wrap(rs - rt) IN
       IF Negative(rs) # Negative(rt) /\ Negative(rs) # Negative(r) THEN Raise ELSE Result(r)

---------------------------------------------------------------------------
(* Products.  A pair is the contents of HI and LO.                         *)

Carry(sum, a, b) == IF sum < a \/ sum < b THEN 1 ELSE 0

\* unsigned_multiply: high-school multiplication of halves.
UnsignedMultiply(v1, v2) ==
    LET bd == Low(v1) * Low(v2)
        ad == High(v1) * Low(v2)
        cb == High(v2) * Low(v1)
        ac == High(v1) * High(v2)
        mid == Wrap(ad + cb)
        mid2 == Wrap(mid + High(bd))
        carry == Carry(mid, ad, cb) + Carry(mid2, mid, High(bd))
    IN <<Wrap(ac + carry * Radix + High(mid2)), Low(bd) + Low(mid2) * Radix>>

Magnitude(v) == IF Negative(v) THEN Wrap(-v) ELSE v
\* Fault: the carry out of the complemented LO is dropped.
NegatedHalves(p) == <<Not(p[1]), Wrap(Not(p[2]) + 1)>>
Negated(p) ==
    LET l == Wrap(Not(p[2]) + 1) IN <<IF l = 0 THEN Wrap(Not(p[1]) + 1) ELSE Not(p[1]), l>>

SignedMultiply(v1, v2) ==
    LET p == UnsignedMultiply(Magnitude(v1), Magnitude(v2)) IN
    IF Negative(v1) # Negative(v2) THEN Negated(p) ELSE p

Accumulated(p) ==
    LET tmp == Wrap(lo + p[2]) IN <<Wrap(hi + Carry(tmp, p[2], lo) + p[1]), tmp>>
Reduced(p) ==
    <<Wrap(IF p[2] > lo THEN hi - 1 - p[1] ELSE hi - p[1]), Wrap(lo - p[2])>>

Multiply ==
    \/ Execute("mult") /\ HiLo(SignedMultiply(rs, rt))
    \/ Execute("multu") /\ HiLo(UnsignedMultiply(rs, rt))
    \/ /\ Execute("mul") /\ UNCHANGED trap
       /\ LET p == SignedMultiply(rs, rt) IN hi' = p[1] /\ lo' = p[2] /\ rd' = p[2]
MultiplyAdd ==
    \/ Execute("madd") /\ HiLo(Accumulated(SignedMultiply(rs, rt)))
    \/ Execute("maddu") /\ HiLo(Accumulated(UnsignedMultiply(rs, rt)))
    \/ Execute("msub") /\ HiLo(Reduced(SignedMultiply(rs, rt)))
    \/ Execute("msubu") /\ HiLo(Reduced(UnsignedMultiply(rs, rt)))

\* C's division truncates.
Abs(n) == IF n < 0 THEN -n ELSE n
Quotient(a, b) == LET q == Abs(a) \div Abs(b) IN IF (a < 0) = (b < 0) THEN q ELSE -q
Divided(a, b) == <<Wrap(a - b * Quotient(a, b)), Wrap(Quotient(a, b))>>
Undefined == rt = 0 \/ (rs = Size \div 2 /\ rt = Size - 1)
Divide ==
    \/ Execute("div") /\ HiLo(IF Undefined THEN <<hi, lo>> ELSE Divided(Signed(rs), Signed(rt)))
    \/ Execute("divu") /\ HiLo(IF Undefined THEN <<hi, lo>> ELSE Divided(rs, rt))

---------------------------------------------------------------------------
(* Shifts, counts, comparisons and traps.                                  *)

Shamt == rs % W
Shift ==
    \/ Execute("sllv") /\ Result(Wrap(rt * TwoTo(Shamt)))
    \/ Execute("srlv") /\ Result(rt \div TwoTo(Shamt))
    \/ Execute("srav") /\ Result(Wrap(Signed(rt) \div TwoTo(Shamt)))

\* The loop down from the highest bit to the first that differs from b.
Leading(b) == W - 1 - Max({-1} \cup {i \in 0 .. W - 1 : Bit(rs, i) # b})
Count == (Execute("clo") /\ Result(Leading(1))) \/ (Execute("clz") /\ Result(Leading(0)))

Flag(p) == IF p THEN 1 ELSE 0
SetLess ==
    \/ Execute("slt") /\ Result(Flag(Signed(rs) < Signed(rt)))
    \/ Execute("slti") /\ Result(Flag(Signed(rs) < Signed(Imm)))
    \/ Execute("sltu") /\ Result(Flag(rs < rt))
    \/ Execute("sltiu") /\ Result(Flag(rs < Imm))

TrapIf(name, p) == Execute(name) /\ trap' = p /\ UNCHANGED <<rd, hi, lo>>
Trap ==
    \/ TrapIf("teq", rs = rt) \/ TrapIf("teqi", rs = Imm)
    \/ TrapIf("tne", rs # rt) \/ TrapIf("tnei", rs # Imm)
    \/ TrapIf("tge", Signed(rs) >= Signed(rt)) \/ TrapIf("tgei", Signed(rs) >= Signed(Imm))
    \/ TrapIf("tgeu", rs >= rt) \/ TrapIf("tgeiu", rs >= Imm)
    \/ TrapIf("tlt", Signed(rs) < Signed(rt)) \/ TrapIf("tlti", Signed(rs) < Signed(Imm))
    \/ TrapIf("tltu", rs < rt) \/ TrapIf("tltiu", rs < Imm)

AluNext ==
    \/ Add \/ Sub \/ Multiply \/ MultiplyAdd \/ Divide \/ Shift \/ Count \/ SetLess \/ Trap

---------------------------------------------------------------------------

Wide(p) == Size * p[1] + p[2]
SignedProduct == Signed(rs) * Signed(rt)
HoldsWide(n) == Wide(<<hi, lo>>) = n % (Size * Size)
Exact(n) == trap = (n < -(Size \div 2) \/ n >= Size \div 2) /\ (~trap => Signed(rd) = n)
DividesInto(n, d, q, r) == n = d * q + r /\ Abs(r) < Abs(d) /\ (r = 0 \/ (r < 0) = (n < 0))

\* The instructions compute what the architecture says of numbers: sums trap
\* exactly when they do not fit, products and sums of products are exact over
\* both words, quotient and remainder belong together, and counts and shifts
\* agree with the value.  (divu of the two words at which div overflows does
\* nothing, although it has a quotient: those are left out.)
ArithmeticExact ==
    CASE op = "add" -> Exact(Signed(rs) + Signed(rt))
      [] op = "addi" -> Exact(Signed(rs) + Signed(Imm))
      [] op = "sub" -> Exact(Signed(rs) - Signed(rt))
      [] op = "mult" -> HoldsWide(SignedProduct)
      [] op = "multu" -> HoldsWide(rs * rt)
      [] op = "mul" -> rd = Wrap(SignedProduct)
      [] op = "madd" -> HoldsWide(Wide(old) + SignedProduct)
      [] op = "maddu" -> HoldsWide(Wide(old) + rs * rt)
      [] op = "msub" -> HoldsWide(Wide(old) - SignedProduct)
      [] op = "msubu" -> HoldsWide(Wide(old) - rs * rt)
      [] op = "div" -> Undefined \/ DividesInto(Signed(rs), Signed(rt), Signed(lo), Signed(hi))
      [] op = "divu" -> Undefined \/ DividesInto(rs, rt, lo, hi)
      [] op = "clz" -> rs < TwoTo(W - rd) /\ (rd < W => TwoTo(W - rd - 1) <= rs)
      [] op = "clo" -> Not(rs) < TwoTo(W - rd) /\ (rd < W => TwoTo(W - rd - 1) <= Not(rs))
      [] op = "srav" -> Signed(rt) - Signed(rd) * TwoTo(Shamt) \in 0 .. TwoTo(Shamt) - 1
      [] OTHER -> TRUE
=============================================================================
