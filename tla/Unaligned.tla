----------------------------- MODULE Unaligned ------------------------------
(***************************************************************************)
(* LWL, LWR, SWL and SWR of run_spim (CPU/run.c), in both byte orders it   *)
(* is built for.  A word is a tuple of bytes, the most significant first;  *)
(* bytes are all different.  A program uses a left and a right half, in    *)
(* either order, on one unaligned word.                                    *)
(***************************************************************************)
EXTENDS Integers, Sequences

CONSTANT BigEndian      \* the byte orders tried

VARIABLES
    big,        \* SPIM_BIGENDIAN
    mem,        \* the words of memory
    reg,        \* the register
    at,         \* the address of the unaligned word
    halves      \* ghost: the instructions executed on it

unalignedVars == <<big, mem, reg, at, halves>>

Words == 1 .. 2
Contents == [w \in Words |-> [i \in 1 .. 4 |-> <<"mem", w, i>>]]
Register == [i \in 1 .. 4 |-> <<"reg", i>>]

UnalignedInit ==
    /\ big \in BigEndian /\ at \in 0 .. 4
    /\ mem = Contents /\ reg = Register /\ halves = {}

Left(a)  == IF big THEN a ELSE a + 3        \* the address LWL and SWL are given
Right(a) == IF big THEN a + 3 ELSE a        \* the one of LWR and SWR
WordOf(a) == (a \div 4) + 1

\* The bytes of the word from addr to its end, counted in memory order for a big
\* machine and backwards for a little one.
Span(addr) == IF big THEN 4 - (addr % 4) ELSE (addr % 4) + 1

\* Fault: the part for the little machine is taken on the big one as well.
LwlLittle(r, w, addr) ==
    LET n == (addr % 4) + 1 IN SubSeq(w, 5 - n, 4) \o SubSeq(r, n + 1, 4)
LwlValue(r, w, addr) ==
    LET n == Span(addr) IN SubSeq(w, 5 - n, 4) \o SubSeq(r, n + 1, 4)
LwrValue(r, w, addr) ==
    LET n == 5 - Span(addr) IN SubSeq(r, 1, 4 - n) \o SubSeq(w, 1, n)
SwlValue(d, r, addr) ==
    LET n == Span(addr) IN SubSeq(d, 1, 4 - n) \o SubSeq(r, 1, n)
SwrValue(d, r, addr) ==
    LET n == 5 - Span(addr) IN SubSeq(r, 5 - n, 4) \o SubSeq(d, n + 1, 4)

Used(h) == h \notin halves /\ halves' = halves \cup {h} /\ UNCHANGED <<big, at>>
Loads == halves \cap {"swl", "swr"} = {}
Stores == halves \cap {"lwl", "lwr"} = {}

Lwl == Used("lwl") /\ Loads /\ reg' = LwlValue(reg, mem[WordOf(Left(at))], Left(at)) /\ UNCHANGED mem
Lwr == Used("lwr") /\ Loads /\ reg' = LwrValue(reg, mem[WordOf(Right(at))], Right(at)) /\ UNCHANGED mem
Swl ==
    /\ Used("swl") /\ Stores /\ UNCHANGED reg
    /\ mem' = [mem EXCEPT ![WordOf(Left(at))] = SwlValue(@, reg, Left(at))]
Swr ==
    /\ Used("swr") /\ Stores /\ UNCHANGED reg
    /\ mem' = [mem EXCEPT ![WordOf(Right(at))] = SwrValue(@, reg, Right(at))]

UnalignedNext == Lwl \/ Lwr \/ Swl \/ Swr

---------------------------------------------------------------------------

\* The byte at an address, and the bytes of a word there, most significant first.
ByteAt(m, a) == m[WordOf(a)][IF big THEN (a % 4) + 1 ELSE 4 - (a % 4)]
WordAt(m, a) == [i \in 1 .. 4 |-> ByteAt(m, IF big THEN a + i - 1 ELSE a + 4 - i)]

\* A pair of halves in either order moves exactly the four bytes at the address,
\* wherever it is, and a store leaves the bytes around them alone, after the
\* first half as after the second.
UnalignedWhole ==
    /\ halves = {"lwl", "lwr"} => reg = WordAt(Contents, at)
    /\ halves = {"swl", "swr"} => WordAt(mem, at) = reg
    /\ \A a \in 0 .. 7 : a \notin at .. at + 3 => ByteAt(mem, a) = ByteAt(Contents, a)
=============================================================================
