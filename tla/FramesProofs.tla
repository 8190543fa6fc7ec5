---------------------------- MODULE FramesProofs ----------------------------
(***************************************************************************)
(* Proofs about Frames: for any functions, any sizes of parameters and     *)
(* locals, any callee-saved registers, any depth of the stack and any      *)
(* program, no word of the stack has two uses, and running on the stack    *)
(* implements calls.  The chain of frame pointers is a recursion over the  *)
(* memory: the facts about it are proved by induction over numbers.        *)
(***************************************************************************)
EXTENDS TargetCode, SequenceTheorems, WellFoundedInduction, TLAPS

-----------------------------------------------------------------------------
(* Sequences of any elements *)

IsList(f) == f \in Seq({f[k] : k \in DOMAIN f})

LEMMA ListShape ==
    ASSUME NEW f, IsList(f)
    PROVE  Len(f) \in Nat /\ DOMAIN f = 1 .. Len(f) /\ f = [k \in DOMAIN f |-> f[k]]
BY LenProperties DEF IsList

LEMMA ListsAre ==
    ASSUME NEW S, NEW f \in Seq(S)
    PROVE  IsList(f)
<1>1. f \in [1 .. Len(f) -> S] /\ Len(f) \in Nat /\ DOMAIN f = 1 .. Len(f)
  BY LenProperties
<1>2. f \in [1 .. Len(f) -> {f[k] : k \in DOMAIN f}]
  BY <1>1
<1>. QED BY <1>1, <1>2, SeqDef DEF IsList

LEMMA SameDomain ==
    ASSUME NEW f, IsList(f), NEW g, g = [k \in DOMAIN f |-> g[k]]
    PROVE  IsList(g) /\ Len(g) = Len(f)
<1>1. Len(f) \in Nat /\ DOMAIN f = 1 .. Len(f)
  BY ListShape
<1>2. g \in [1 .. Len(f) -> {g[k] : k \in DOMAIN g}] /\ DOMAIN g = 1 .. Len(f)
  BY <1>1
<1>3. g \in Seq({g[k] : k \in DOMAIN g})
  BY <1>1, <1>2, SeqDef
<1>4. Len(g) \in Nat /\ DOMAIN g = 1 .. Len(g)
  BY <1>3, LenProperties
<1>. QED BY <1>1, <1>2, <1>3, <1>4 DEF IsList

LEMMA ListAppend ==
    ASSUME NEW f, IsList(f), NEW e
    PROVE  LET g == Append(f, e) IN
           /\ IsList(g) /\ Len(g) = Len(f) + 1
           /\ g[Len(f) + 1] = e /\ \A k \in 1 .. Len(f) : g[k] = f[k]
<1>. DEFINE S == {f[k] : k \in DOMAIN f} \cup {e}
            g == Append(f, e)
<1>1. f \in Seq(S) /\ e \in S
  <2>1. \A k \in 1 .. Len(f) : f[k] \in S
    BY ListShape
  <2>2. f \in [1 .. Len(f) -> S] /\ Len(f) \in Nat
    BY <2>1, ListShape
  <2>. QED BY <2>2, SeqDef
<1>. HIDE DEF S
<1>2. g \in Seq(S) /\ Len(g) = Len(f) + 1 /\ g[Len(f) + 1] = e /\ \A k \in 1 .. Len(f) : g[k] = f[k]
  BY <1>1, AppendProperties
<1>3. IsList(g)
  BY <1>2, ListsAre
<1>. QED BY <1>2, <1>3

\* A list with an element put before it.
LEMMA ListCons ==
    ASSUME NEW f, IsList(f), NEW e
    PROVE  IsList(<<e>> \o f) /\ Range(<<e>> \o f) = {e} \cup Range(f)
<1>. DEFINE S == {f[k] : k \in DOMAIN f} \cup {e}
            g == <<e>> \o f
<1>1. f \in Seq(S) /\ <<e>> \in Seq(S)
  <2>1. \A k \in 1 .. Len(f) : f[k] \in S
    BY ListShape
  <2>2. f \in [1 .. Len(f) -> S] /\ Len(f) \in Nat
    BY <2>1, ListShape
  <2>. QED BY <2>2, SeqDef
<1>. HIDE DEF S
<1>2. /\ g \in Seq(S) /\ Len(g) = 1 + Len(f) /\ Len(f) \in Nat
      /\ g[1] = e /\ \A k \in 2 .. Len(f) + 1 : g[k] = f[k - 1]
  BY <1>1, ConcatProperties, ListShape
<1>3. DOMAIN g = 1 .. Len(f) + 1 /\ DOMAIN f = 1 .. Len(f)
  BY <1>2, LenProperties, ListShape
<1>. HIDE DEF g
<1>4. Range(g) \subseteq {e} \cup Range(f)
  <2>1. ASSUME NEW k \in 1 .. Len(f) + 1 PROVE g[k] \in {e} \cup Range(f)
    <3>1. CASE k = 1
      BY <1>2, <3>1
    <3>2. CASE k # 1
      <4>1. k \in 2 .. Len(f) + 1 /\ k - 1 \in 1 .. Len(f)
        BY <1>2, <3>2
      <4>. QED BY <1>2, <1>3, <4>1 DEF Range
    <3>. QED BY <3>1, <3>2
  <2>. QED BY <1>3, <2>1 DEF Range
<1>5. {e} \cup Range(f) \subseteq Range(g)
  <2>1. e \in Range(g)
    <3>1. 1 \in DOMAIN g
      BY <1>2, <1>3
    <3>. QED BY <1>2, <3>1 DEF Range
  <2>2. ASSUME NEW k \in 1 .. Len(f) PROVE f[k] \in Range(g)
    <3>1. k + 1 \in 2 .. Len(f) + 1 /\ (k + 1) - 1 = k /\ k + 1 \in DOMAIN g
      BY <1>2, <1>3
    <3>2. g[k + 1] = f[k]
      BY <1>2, <3>1
    <3>. QED BY <3>1, <3>2 DEF Range
  <2>. QED BY <1>3, <2>1, <2>2 DEF Range
<1>6. IsList(g)
  BY <1>2, ListsAre
<1>. QED BY <1>4, <1>5, <1>6 DEF g

LEMMA EmptyList == IsList(<<>>) /\ Range(<<>>) = {} /\ Len(<<>>) = 0
<1>1. <<>> \in Seq({}) /\ Len(<<>>) = 0 /\ DOMAIN <<>> = {}
  OBVIOUS
<1>2. IsList(<<>>)
  BY <1>1, ListsAre
<1>. QED BY <1>1, <1>2 DEF Range

LEMMA SameLists ==
    ASSUME NEW f, IsList(f), NEW g, IsList(g), Len(f) = Len(g), \A k \in 1 .. Len(f) : f[k] = g[k]
    PROVE  f = g
<1>1. f = [k \in 1 .. Len(f) |-> f[k]] /\ g = [k \in 1 .. Len(f) |-> g[k]]
  BY ListShape
<1>. QED BY <1>1

LEMMA ListOf ==
    ASSUME NEW n \in Nat, NEW f, f = [k \in 1 .. n |-> f[k]]
    PROVE  IsList(f) /\ Len(f) = n
<1>. DEFINE S == {f[k] : k \in 1 .. n}
<1>1. f \in [1 .. n -> S]
  OBVIOUS
<1>. HIDE DEF S
<1>2. f \in Seq(S) /\ Len(f) = n
  BY <1>1, SeqDef, LenProperties
<1>. QED BY <1>2, ListsAre

LEMMA ListFront ==
    ASSUME NEW f, IsList(f), NEW n \in Nat, n <= Len(f)
    PROVE  /\ IsList(SubSeq(f, 1, n)) /\ Len(SubSeq(f, 1, n)) = n
           /\ \A k \in 1 .. n : SubSeq(f, 1, n)[k] = f[k]
<1>. DEFINE S == {f[k] : k \in DOMAIN f}
            i == SubSeq(f, 1, n)
<1>1. f \in Seq(S) /\ Len(f) \in Nat /\ DOMAIN f = 1 .. Len(f)
  BY ListShape DEF IsList
<1>2. \A k \in 1 .. n : f[k] \in S
  BY <1>1
<1>. HIDE DEF S
<1>3. /\ i \in Seq(S) /\ Len(i) = (IF 1 <= n THEN n - 1 + 1 ELSE 0)
      /\ \A k \in 1 .. n - 1 + 1 : i[k] = f[1 + k - 1]
  BY <1>2, SubSeqProperties
<1>. HIDE DEF i
<1>4. n - 1 + 1 = n /\ \A k \in 1 .. n : 1 + k - 1 = k
  OBVIOUS
<1>5. Len(i) = n /\ \A k \in 1 .. n : i[k] = f[k]
  BY <1>3, <1>4
<1>6. IsList(i)
  BY <1>3, ListsAre
<1>. QED BY <1>5, <1>6 DEF i

-----------------------------------------------------------------------------
(* Induction, and sums of sequences *)

\* Induction over the numbers, for sets: an operator cannot be a parameter.
LEMMA Induction ==
    ASSUME NEW T, T \subseteq Nat, 0 \in T, \A n \in T : n + 1 \in T
    PROVE  T = Nat
<1>. DEFINE before == OpToRel(<, Nat)
            rest == Nat \ T
<1>1. IsWellFoundedOn(before, Nat)
  BY NatLessThanWellFounded
<1>2. \A n \in Nat : <<n, n + 1>> \in before
  BY DEF OpToRel
<1>. HIDE DEF before
<1>3. ASSUME rest # {} PROVE FALSE
  <2>1. PICK x \in rest : \A y \in rest : <<y, x>> \notin before
    BY <1>1, <1>3, WFMin
  <2>2. x \in Nat /\ x # 0 /\ x - 1 \in Nat
    OBVIOUS
  <2>3. x - 1 \in rest /\ <<x - 1, x>> \in before
    BY <1>2, <2>2
  <2>. QED BY <2>1, <2>3
<1>. QED BY <1>3

\* What the recursion of SumTo defines.
Sums(s, i, g) == g = [k \in 0 .. i |-> IF k = 0 THEN 0 ELSE g[k - 1] + s[k]]

LEMMA SumsExist == ASSUME NEW s, NEW i \in Nat PROVE \E g : Sums(s, i, g)
<1>. DEFINE T == {n \in Nat : \E g : Sums(s, n, g)}
<1>1. 0 \in T
  <2>1. Sums(s, 0, [k \in 0 .. 0 |-> 0])
    BY DEF Sums
  <2>. QED BY <2>1
<1>2. ASSUME NEW n \in T PROVE n + 1 \in T
  <2>1. PICK g : Sums(s, n, g)
    OBVIOUS
  <2>. DEFINE h == [k \in 0 .. n + 1 |-> IF k <= n THEN g[k] ELSE g[n] + s[n + 1]]
  <2>2. Sums(s, n + 1, h)
    <3>1. ASSUME NEW k \in 0 .. n + 1 PROVE h[k] = IF k = 0 THEN 0 ELSE h[k - 1] + s[k]
      <4>1. k \in Int /\ n \in Nat
        OBVIOUS
      <4>2. CASE k = 0
        BY <4>1, <4>2, <2>1 DEF Sums
      <4>3. CASE k # 0 /\ k <= n
        BY <4>1, <4>3, <2>1 DEF Sums
      <4>4. CASE k = n + 1
        BY <4>1, <4>4, <2>1 DEF Sums
      <4>. QED BY <4>1, <4>2, <4>3, <4>4
    <3>2. h = [k \in 0 .. n + 1 |-> h[k]]
      OBVIOUS
    <3>. HIDE DEF h
    <3>. QED BY <3>1, <3>2 DEF Sums
  <2>. QED BY <2>2
<1>. HIDE DEF T
<1>3. T = Nat
  BY <1>1, <1>2, Induction DEF T
<1>. QED BY <1>3 DEF T

LEMMA SumIsLast == ASSUME NEW s, NEW i \in Nat PROVE \E g : Sums(s, i, g) /\ SumTo(s, i) = g[i]
<1>. DEFINE g == CHOOSE x : x = [k \in 0 .. i |-> IF k = 0 THEN 0 ELSE x[k - 1] + s[k]]
<1>1. Sums(s, i, g)
  BY SumsExist DEF Sums
<1>2. SumTo(s, i) = g[i]
  BY DEF SumTo
<1>. QED BY <1>1, <1>2

SameUpTo(s, t, i) == \A k \in 1 .. i : s[k] = t[k]

\* Two sums over the same numbers agree.
LEMMA SumsAgree ==
    ASSUME NEW s, NEW t, NEW i \in Nat, NEW j \in Nat, NEW g, NEW h, Sums(s, i, g), Sums(t, j, h),
           i <= j, SameUpTo(s, t, i)
    PROVE  g[i] = h[i]
<1>. DEFINE T == {n \in Nat : n <= i => g[n] = h[n]}
<1>1. 0 \in T
  BY DEF Sums
<1>2. ASSUME NEW n \in T PROVE n + 1 \in T
  <2>1. ASSUME n + 1 <= i PROVE g[n + 1] = h[n + 1]
    <3>1. n + 1 \in 0 .. i /\ n + 1 \in 0 .. j /\ n + 1 # 0 /\ (n + 1) - 1 = n /\ n + 1 \in 1 .. i
      BY <2>1
    <3>2. g[n + 1] = g[n] + s[n + 1] /\ h[n + 1] = h[n] + t[n + 1]
      BY <3>1 DEF Sums
    <3>3. s[n + 1] = t[n + 1]
      BY <3>1 DEF SameUpTo
    <3>. QED BY <2>1, <3>1, <3>2, <3>3
  <2>. QED BY <2>1
<1>. HIDE DEF T
<1>3. T = Nat
  BY <1>1, <1>2, Induction DEF T
<1>. QED BY <1>3 DEF T

LEMMA SumZero == ASSUME NEW s PROVE SumTo(s, 0) = 0
BY SumIsLast DEF Sums

LEMMA SumSame ==
    ASSUME NEW s, NEW t, NEW i \in Nat, \A k \in 1 .. i : s[k] = t[k]
    PROVE  SumTo(s, i) = SumTo(t, i)
<1>1. PICK g : Sums(s, i, g) /\ SumTo(s, i) = g[i]
  BY SumIsLast
<1>2. PICK h : Sums(t, i, h) /\ SumTo(t, i) = h[i]
  BY SumIsLast
<1>3. i <= i /\ SameUpTo(s, t, i)
  BY DEF SameUpTo
<1>4. g[i] = h[i]
  BY <1>1, <1>2, <1>3, SumsAgree
<1>. QED BY <1>1, <1>2, <1>4

LEMMA SumNext ==
    ASSUME NEW s, NEW i \in Nat
    PROVE  SumTo(s, i + 1) = SumTo(s, i) + s[i + 1]
<1>1. PICK g : Sums(s, i + 1, g) /\ SumTo(s, i + 1) = g[i + 1]
  BY SumIsLast
<1>2. PICK h : Sums(s, i, h) /\ SumTo(s, i) = h[i]
  BY SumIsLast
<1>3. h[i] = g[i]
  <2>. DEFINE j == i + 1
  <2>1. j \in Nat /\ i <= j /\ Sums(s, j, g) /\ Sums(s, i, h) /\ SameUpTo(s, s, i)
    BY <1>1, <1>2 DEF SameUpTo
  <2>. HIDE DEF j
  <2>. QED BY <2>1, SumsAgree
<1>4. g[i + 1] = g[i] + s[i + 1]
  BY <1>1 DEF Sums
<1>. QED BY <1>1, <1>2, <1>3, <1>4

\* Sums of numbers are numbers, and grow.
LEMMA SumGrows ==
    ASSUME NEW s, NEW n \in Nat, \A k \in 1 .. n : s[k] \in Nat
    PROVE  \A i \in 0 .. n : SumTo(s, i) \in Nat /\ \A j \in 0 .. i : SumTo(s, j) \in Nat /\ SumTo(s, j) <= SumTo(s, i)
<1>. DEFINE T == {i \in Nat : i <= n => /\ SumTo(s, i) \in Nat
                                       /\ \A j \in 0 .. i : SumTo(s, j) \in Nat /\ SumTo(s, j) <= SumTo(s, i)}
<1>1. 0 \in T
  BY SumZero
<1>2. ASSUME NEW i \in T PROVE i + 1 \in T
  <2>1. ASSUME i + 1 <= n
        PROVE  /\ SumTo(s, i + 1) \in Nat
               /\ \A j \in 0 .. i + 1 : SumTo(s, j) \in Nat /\ SumTo(s, j) <= SumTo(s, i + 1)
    <3>1. SumTo(s, i + 1) = SumTo(s, i) + s[i + 1] /\ s[i + 1] \in Nat
      BY <2>1, SumNext
    <3>2. SumTo(s, i) \in Nat /\ \A j \in 0 .. i : SumTo(s, j) \in Nat /\ SumTo(s, j) <= SumTo(s, i)
      BY <2>1
    <3>3. ASSUME NEW j \in 0 .. i + 1 PROVE SumTo(s, j) \in Nat /\ SumTo(s, j) <= SumTo(s, i + 1)
      BY <3>1, <3>2
    <3>. QED BY <3>1, <3>2, <3>3
  <2>. QED BY <2>1
<1>. HIDE DEF T
<1>3. T = Nat
  BY <1>1, <1>2, Induction DEF T
<1>. QED BY <1>3 DEF T

-----------------------------------------------------------------------------
(* The walk through the frame pointers *)

\* acts are activations, oldest first, as memory mm links them.
Stacked(mm, acts) ==
    /\ IsList(acts) /\ Len(acts) > 0
    /\ mm[acts[1].fp + 1].pos = Restart
    /\ \A k \in 1 .. Len(acts) - 1 : /\ mm[acts[k + 1].fp + 1].pos # Restart
                                   /\ acts[k] = Suspended(mm, acts[k + 1].fp)

\* What the recursion of Activations defines.
Walks(mm, a, i, g) == g = [k \in 0 .. i |-> IF k = 0 THEN <<a>> ELSE Extended(mm, g[k - 1])]

LEMMA WalksExist == ASSUME NEW mm, NEW a, NEW i \in Nat PROVE \E g : Walks(mm, a, i, g)
<1>. DEFINE T == {n \in Nat : \E g : Walks(mm, a, n, g)}
<1>1. 0 \in T
  <2>1. Walks(mm, a, 0, [k \in 0 .. 0 |-> <<a>>])
    BY DEF Walks
  <2>. QED BY <2>1
<1>2. ASSUME NEW n \in T PROVE n + 1 \in T
  <2>1. PICK g : Walks(mm, a, n, g)
    OBVIOUS
  <2>. DEFINE h == [k \in 0 .. n + 1 |-> IF k <= n THEN g[k] ELSE Extended(mm, g[n])]
  <2>2. Walks(mm, a, n + 1, h)
    <3>1. ASSUME NEW k \in 0 .. n + 1
          PROVE h[k] = IF k = 0 THEN <<a>> ELSE Extended(mm, h[k - 1])
      <4>1. k \in Int /\ n \in Nat
        OBVIOUS
      <4>2. CASE k = 0
        BY <4>1, <4>2, <2>1 DEF Walks
      <4>3. CASE k # 0 /\ k <= n
        BY <4>1, <4>3, <2>1 DEF Walks
      <4>4. CASE k = n + 1
        BY <4>1, <4>4, <2>1 DEF Walks
      <4>. QED BY <4>1, <4>2, <4>3, <4>4
    <3>2. h = [k \in 0 .. n + 1 |-> h[k]]
      OBVIOUS
    <3>. HIDE DEF h
    <3>. QED BY <3>1, <3>2 DEF Walks
  <2>. QED BY <2>2
<1>. HIDE DEF T
<1>3. T = Nat
  BY <1>1, <1>2, Induction DEF T
<1>. QED BY <1>3 DEF T

\* After n steps the walk has the last n + 1 of them.
LEMMA WalkTakes ==
    ASSUME NEW mm, NEW acts, Stacked(mm, acts), NEW S, acts \in Seq(S), NEW L \in Nat, L = Len(acts),
           NEW i \in Nat, NEW g, Walks(mm, acts[L], i, g)
    PROVE  \A n \in 0 .. i : /\ n < L => g[n] = SubSeq(acts, L - n, L)
                             /\ n >= L => g[n] = acts
<1>. DEFINE Taken(n) == /\ n < L => g[n] = SubSeq(acts, L - n, L)
                        /\ n >= L => g[n] = acts
            T == {n \in Nat : n <= i => Taken(n)}
<1>1. L > 0 /\ DOMAIN acts = 1 .. L
  BY LenProperties DEF Stacked
<1>2. \A k \in 1 .. L : SubSeq(acts, k, L) = <<acts[k]>> \o SubSeq(acts, k + 1, L)
  <2>1. ASSUME NEW k \in 1 .. L PROVE SubSeq(acts, k, L) = <<acts[k]>> \o SubSeq(acts, k + 1, L)
    <3>1. k \in 1 .. Len(acts) /\ L \in k .. Len(acts)
      BY <2>1
    <3>. QED BY <3>1, SubSeqRecursiveFirst
  <2>. QED BY <2>1
<1>3. SubSeq(acts, 1, L) = acts
  BY SubSeqFull
<1>4. 0 \in T
  <2>1. SubSeq(acts, L, L) = <<acts[L]>> \o SubSeq(acts, L + 1, L)
    BY <1>1, <1>2
  <2>2. SubSeq(acts, L + 1, L) = <<>>
    <3>1. L + 1 \in Int /\ L \in Int /\ L < L + 1
      BY <1>1
    <3>. QED BY <3>1, SubSeqEmpty
  <2>3. <<acts[L]>> \o <<>> = <<acts[L]>>
    <3>1. <<acts[L]>> \in Seq({acts[L]})
      OBVIOUS
    <3>. QED BY <3>1, ConcatEmptySeq
  <2>4. g[0] = <<acts[L]>>
    BY DEF Walks
  <2>5. L - 0 = L /\ 0 < L /\ ~(0 >= L)
    BY <1>1
  <2>6. Taken(0)
    BY <2>1, <2>2, <2>3, <2>4, <2>5
  <2>. HIDE DEF Taken
  <2>. QED BY <2>6
<1>5. ASSUME NEW n \in Nat, n + 1 <= i, Taken(n) PROVE Taken(n + 1)
  <2>1. n + 1 \in 0 .. i /\ n + 1 # 0 /\ (n + 1) - 1 = n
    BY <1>5
  <2>2. g[n + 1] = Extended(mm, g[n])
    BY <2>1 DEF Walks
  <2>3. CASE n + 1 < L
    <3>. DEFINE k == L - n - 1
    <3>1. k \in 1 .. L - 1 /\ k + 1 = L - n /\ L - (n + 1) = k /\ L - n \in 1 .. L /\ n < L
      BY <2>3
    <3>2. g[n] = SubSeq(acts, L - n, L)
      BY <1>5, <3>1
    <3>. HIDE DEF k
    <3>3. SubSeq(acts, L - n, L)[1] = acts[L - n]
      <4>1. Head(<<acts[L - n]>> \o SubSeq(acts, L - n + 1, L)) = acts[L - n]
        <5>1. L - n \in 1 .. Len(acts) /\ L \in L - n .. Len(acts)
          BY <3>1
        <5>. QED BY <1>2, <3>1, <5>1, HeadTailOfSubSeq
      <4>. QED BY <1>2, <3>1, <4>1
    <3>4. mm[acts[L - n].fp + 1].pos # Restart /\ acts[k] = Suspended(mm, acts[L - n].fp)
      BY <3>1 DEF Stacked
    <3>5. Extended(mm, g[n]) = <<acts[k]>> \o g[n]
      BY <3>2, <3>3, <3>4 DEF Extended
    <3>6. g[n + 1] = SubSeq(acts, k, L)
      <4>1. SubSeq(acts, k, L) = <<acts[k]>> \o SubSeq(acts, k + 1, L)
        BY <1>2, <3>1
      <4>2. g[n] = SubSeq(acts, k + 1, L)
        BY <3>1, <3>2
      <4>. QED BY <2>2, <3>5, <4>1, <4>2
    <3>7. L - (n + 1) = k /\ ~(n + 1 >= L)
      BY <2>3, <3>1
    <3>. QED BY <3>6, <3>7
  <2>4. CASE ~(n + 1 < L)
    <3>1. g[n] = acts
      <4>1. CASE n + 1 = L
        <5>1. L - n = 1 /\ n < L
          BY <4>1
        <5>. QED BY <1>3, <1>5, <5>1
      <4>2. CASE n >= L
        BY <1>5, <4>2
      <4>. QED BY <2>4, <4>1, <4>2
    <3>2. Extended(mm, acts) = acts
      BY DEF Extended, Stacked
    <3>. QED BY <2>2, <2>4, <3>1, <3>2
  <2>. QED BY <2>3, <2>4
<1>. HIDE DEF Taken
<1>6. \A n \in T : n + 1 \in T
  BY <1>5
<1>. HIDE DEF T
<1>7. T = Nat
  BY <1>4, <1>6, Induction DEF T
<1>8. \A n \in 0 .. i : n \in T
  BY <1>7
<1>9. \A n \in 0 .. i : Taken(n)
  BY <1>8 DEF T
<1>. QED BY <1>9 DEF Taken

LEMMA ActivationsAre ==
    ASSUME NEW mm, NEW acts, Stacked(mm, acts), Len(acts) <= StackTop + 1,
           NEW stack, NEW frame, NEW regs, NEW here,
           acts[Len(acts)] = [fp |-> frame, at |-> here, sp |-> stack, saved |-> regs]
    PROVE  Activations(mm, stack, frame, regs, here) = acts
<1>. DEFINE a == [fp |-> frame, at |-> here, sp |-> stack, saved |-> regs]
            g == CHOOSE x : x = [k \in 0 .. StackTop |-> IF k = 0 THEN <<a>>
                                                        ELSE Extended(mm, x[k - 1])]
            S == {acts[k] : k \in DOMAIN acts}
            L == Len(acts)
<1>1. StackTop \in Nat
  BY FramesAssumption
<1>2. Walks(mm, a, StackTop, g)
  <2>. HIDE DEF a
  <2>1. \E x : x = [k \in 0 .. StackTop |-> IF k = 0 THEN <<a>> ELSE Extended(mm, x[k - 1])]
    <3>1. \E x : Walks(mm, a, StackTop, x)
      BY <1>1, WalksExist
    <3>. QED BY <3>1 DEF Walks
  <2>. QED BY <2>1 DEF Walks
<1>3. Activations(mm, stack, frame, regs, here) = g[StackTop]
  BY DEF Activations
<1>4. acts \in Seq(S) /\ L \in Nat /\ acts[L] = a /\ L <= StackTop + 1
  BY ListShape DEF Stacked, IsList
<1>. HIDE DEF g, a, S
<1>5. SubSeq(acts, 1, L) = acts
  BY <1>4, SubSeqFull
<1>. HIDE DEF L
<1>6. /\ StackTop < L => g[StackTop] = SubSeq(acts, L - StackTop, L)
      /\ StackTop >= L => g[StackTop] = acts
  <2>1. L = Len(acts) /\ StackTop \in 0 .. StackTop
    BY <1>1 DEF L
  <2>. QED BY <1>1, <1>2, <1>4, <2>1, WalkTakes
<1>7. StackTop < L => L - StackTop = 1
  BY <1>1, <1>4
<1>. QED BY <1>1, <1>3, <1>4, <1>5, <1>6, <1>7

-----------------------------------------------------------------------------
(* Where the activations lie *)

\* The calls under way at a position.
Pending(cs) ==
    /\ IsList(cs)
    /\ \A n \in 1 .. Len(cs) :
          /\ cs[n] = [callee |-> cs[n].callee, passed |-> cs[n].passed]
          /\ cs[n].callee \in Functions /\ cs[n].passed \in 0 .. ParamCount[cs[n].callee]

\* An activation whose $sp is where its frame and its argument lists put it.
Laid(a) ==
    /\ a = [fp |-> a.fp, at |-> a.at, sp |-> a.sp, saved |-> a.saved]
    /\ a.at = [func |-> a.at.func, calls |-> a.at.calls]
    /\ a.at.func \in Functions /\ Pending(a.at.calls)
    /\ a.fp \in Nat /\ a.sp \in Nat
    /\ a.sp + Room(a.at.calls) + FrameSize(a.at.func) + 1 = a.fp

\* Activations one below the other, each called by the one above it.
Nesting(acts) ==
    /\ acts[1].at.func = Main
    /\ \A k \in 1 .. Len(acts) : Laid(acts[k]) /\ acts[k].fp + k <= StackTop
    /\ \A k \in 1 .. Len(acts) - 1 :
          /\ Len(acts[k].at.calls) > 0
          /\ acts[k + 1].at.func = acts[k].at.calls[Len(acts[k].at.calls)].callee

LEMMA SizesAre ==
    ASSUME NEW f \in Functions
    PROVE  /\ FirstOffset \in Nat /\ Len(LocalSizes[f]) \in Nat
           /\ FrameSize(f) \in Nat /\ FirstOffset <= FrameSize(f)
           /\ \A i \in 1 .. Len(LocalSizes[f]) :
                 /\ LocalSizes[f][i] \in Nat /\ SumTo(LocalSizes[f], i) \in Nat
                 /\ SumTo(LocalSizes[f], i - 1) \in Nat
                 /\ SumTo(LocalSizes[f], i) = SumTo(LocalSizes[f], i - 1) + LocalSizes[f][i]
                 /\ FirstOffset + SumTo(LocalSizes[f], i) <= FrameSize(f)
<1>. DEFINE s == LocalSizes[f]
            n == Len(s)
<1>1. s \in Seq(Nat) /\ FirstOffset \in Nat
  BY FramesAssumption, LenProperties DEF FirstOffset
<1>2. n \in Nat /\ \A k \in 1 .. n : s[k] \in Nat
  BY <1>1, LenProperties, ElementOfSeq
<1>. HIDE DEF s
<1>3. \A i \in 0 .. n : SumTo(s, i) \in Nat /\ \A j \in 0 .. i : SumTo(s, j) <= SumTo(s, i)
  BY <1>2, SumGrows
<1>4. FrameSize(f) = FirstOffset + SumTo(s, n)
  BY DEF FrameSize, s
<1>. HIDE DEF n
<1>5. ASSUME NEW i \in 1 .. n
      PROVE  /\ SumTo(s, i) \in Nat /\ SumTo(s, i - 1) \in Nat
             /\ SumTo(s, i) = SumTo(s, i - 1) + s[i] /\ SumTo(s, i) <= SumTo(s, n)
  <2>1. i - 1 \in Nat /\ (i - 1) + 1 = i /\ i \in 0 .. n /\ i - 1 \in 0 .. n /\ n \in 0 .. n /\ i \in 0 .. n
    BY <1>2
  <2>2. SumTo(s, (i - 1) + 1) = SumTo(s, i - 1) + s[(i - 1) + 1]
    BY <2>1, SumNext
  <2>. QED BY <1>3, <2>1, <2>2
<1>6. SumTo(s, n) \in Nat
  BY <1>2, <1>3
<1>7. FrameSize(f) \in Nat /\ FirstOffset <= FrameSize(f)
  BY <1>1, <1>4, <1>6
<1>8. \A i \in 1 .. n : FirstOffset + SumTo(s, i) <= FrameSize(f)
  BY <1>1, <1>4, <1>5, <1>6
<1>. QED BY <1>1, <1>2, <1>5, <1>7, <1>8 DEF n, s

LEMMA RoomsAre ==
    ASSUME NEW cs, Pending(cs)
    PROVE  /\ Len(cs) \in Nat /\ Room(cs) \in Nat /\ Room(cs) = SumTo(Rooms(cs), Len(cs))
           /\ \A n \in 1 .. Len(cs) :
                 /\ ParamCount[cs[n].callee] \in Nat
                 /\ SumTo(Rooms(cs), n) \in Nat /\ SumTo(Rooms(cs), n - 1) \in Nat
                 /\ SumTo(Rooms(cs), n) = SumTo(Rooms(cs), n - 1) + ParamCount[cs[n].callee]
                 /\ SumTo(Rooms(cs), n) <= Room(cs)
<1>. DEFINE s == Rooms(cs)
            L == Len(cs)
<1>1. L \in Nat /\ DOMAIN cs = 1 .. L
  BY ListShape DEF Pending
<1>2. \A k \in 1 .. L : s[k] = ParamCount[cs[k].callee] /\ s[k] \in Nat
  BY <1>1, FramesAssumption DEF Pending, Rooms
<1>3. Room(cs) = SumTo(s, L)
  BY DEF Room
<1>. HIDE DEF s, L
<1>4. \A i \in 0 .. L : SumTo(s, i) \in Nat /\ \A j \in 0 .. i : SumTo(s, j) <= SumTo(s, i)
  BY <1>1, <1>2, SumGrows
<1>5. ASSUME NEW i \in 1 .. L
      PROVE  /\ SumTo(s, i) \in Nat /\ SumTo(s, i - 1) \in Nat
             /\ SumTo(s, i) = SumTo(s, i - 1) + s[i] /\ SumTo(s, i) <= SumTo(s, L)
  <2>1. i - 1 \in Nat /\ (i - 1) + 1 = i /\ i \in 0 .. L /\ i - 1 \in 0 .. L /\ L \in 0 .. L
    BY <1>1
  <2>2. SumTo(s, (i - 1) + 1) = SumTo(s, i - 1) + s[(i - 1) + 1]
    BY <2>1, SumNext
  <2>. QED BY <1>4, <2>1, <2>2
<1>6. SumTo(s, L) \in Nat
  BY <1>1, <1>4
<1>7. \A n \in 1 .. L : /\ ParamCount[cs[n].callee] \in Nat
                        /\ SumTo(s, n) \in Nat /\ SumTo(s, n - 1) \in Nat
                        /\ SumTo(s, n) = SumTo(s, n - 1) + ParamCount[cs[n].callee]
                        /\ SumTo(s, n) <= Room(cs)
  BY <1>2, <1>3, <1>5
<1>. QED BY <1>1, <1>3, <1>6, <1>7 DEF L, s

\* In order, and inside the stack.
LEMMA OneBelowTheOther ==
    ASSUME NEW mm, NEW acts, Stacked(mm, acts), Nesting(acts)
    PROVE  /\ Len(acts) \in Nat /\ Len(acts) <= StackTop
           /\ \A k, l \in 1 .. Len(acts) : k < l => acts[l].fp + 1 <= acts[k].sp
<1>. DEFINE L == Len(acts)
            T == {j \in Nat : \A k, l \in 1 .. L : l = k + 1 + j => acts[l].fp + 1 <= acts[k].sp}
<1>1. L \in Nat /\ L > 0
  BY ListShape DEF Stacked
<1>2. ASSUME NEW k \in 1 .. L
      PROVE  /\ acts[k].fp \in Nat /\ acts[k].sp \in Nat /\ acts[k].sp + 1 <= acts[k].fp
             /\ acts[k].fp + k <= StackTop
  <2>1. Laid(acts[k]) /\ acts[k].fp + k <= StackTop
    BY DEF Nesting
  <2>2. Room(acts[k].at.calls) \in Nat /\ FrameSize(acts[k].at.func) \in Nat
    BY <2>1, SizesAre, RoomsAre DEF Laid
  <2>. QED BY <2>1, <2>2 DEF Laid
<1>3. ASSUME NEW k \in 1 .. L - 1 PROVE acts[k].sp = acts[k + 1].fp + 1
  <2>1. acts[k] = Suspended(mm, acts[k + 1].fp)
    BY DEF Stacked
  <2>2. Suspended(mm, acts[k + 1].fp).sp = acts[k + 1].fp + 1
    BY DEF Suspended
  <2>. QED BY <2>1, <2>2
<1>. HIDE DEF L
<1>4. 0 \in T
  <2>1. ASSUME NEW k \in 1 .. L, k + 1 \in 1 .. L PROVE acts[k + 1].fp + 1 <= acts[k].sp
    <3>1. k \in 1 .. L - 1
      BY <1>1, <2>1
    <3>. QED BY <1>2, <1>3, <3>1, <2>1
  <2>. QED BY <2>1
<1>5. ASSUME NEW j \in T PROVE j + 1 \in T
  <2>1. ASSUME NEW k \in 1 .. L, NEW l \in 1 .. L, l = k + 1 + (j + 1)
        PROVE acts[l].fp + 1 <= acts[k].sp
    <3>1. j \in Nat /\ l - 1 \in 1 .. L - 1 /\ l - 1 \in 1 .. L /\ l - 1 = k + 1 + j /\ (l - 1) + 1 = l
      BY <1>1, <2>1
    <3>2. acts[l - 1].fp + 1 <= acts[k].sp
      BY <3>1
    <3>3. acts[l - 1].sp = acts[l].fp + 1
      BY <1>3, <3>1
    <3>. QED BY <1>2, <3>1, <3>2, <3>3
  <2>. QED BY <2>1
<1>. HIDE DEF T
<1>6. T = Nat
  BY <1>4, <1>5, Induction DEF T
<1>7. ASSUME NEW k \in 1 .. L, NEW l \in 1 .. L, k < l PROVE acts[l].fp + 1 <= acts[k].sp
  <2>1. l - k - 1 \in T /\ l = k + 1 + (l - k - 1)
    BY <1>1, <1>6, <1>7
  <2>. QED BY <2>1 DEF T
<1>8. L <= StackTop
  <2>1. L \in 1 .. L
    BY <1>1
  <2>2. acts[L].fp \in Nat /\ acts[L].fp + L <= StackTop
    BY <1>2, <2>1
  <2>. QED BY <1>1, <2>2, FramesAssumption
<1>. QED BY <1>1, <1>7, <1>8 DEF L

-----------------------------------------------------------------------------
(* What a store leaves alone *)

LEMMA SameSaved ==
    ASSUME NEW m1, NEW m2, NEW f \in Int, \A w \in f - FirstOffset .. f - 1 : m2[w] = m1[w]
    PROVE  RestoreAll(m2, f) = RestoreAll(m1, f)
<1>. DEFINE at(r) == CHOOSE k \in DOMAIN SavedRegs : SavedRegs[k] = r
<1>1. DOMAIN SavedRegs = 1 .. FirstOffset /\ FirstOffset \in Nat
  BY FramesAssumption, LenProperties DEF FirstOffset
<1>2. ASSUME NEW r \in SavedSet PROVE m2[SavedAddress(f, at(r))] = m1[SavedAddress(f, at(r))]
  <2>1. at(r) \in 1 .. FirstOffset
    BY <1>1 DEF SavedSet
  <2>. HIDE DEF at
  <2>2. SavedAddress(f, at(r)) \in f - FirstOffset .. f - 1
    BY <1>1, <2>1 DEF SavedAddress
  <2>. QED BY <2>2
<1>. QED BY <1>2 DEF RestoreAll

LEMMA SameParams ==
    ASSUME NEW m1, NEW m2, NEW a, Laid(a),
           \A w \in a.fp + 2 .. a.fp + 1 + ParamCount[a.at.func] : m2[w] = m1[w]
    PROVE  FrameOf(m2, a).params = FrameOf(m1, a).params
<1>1. a.fp \in Nat /\ ParamCount[a.at.func] \in Nat
  BY FramesAssumption DEF Laid
<1>2. ASSUME NEW i \in 1 .. ParamCount[a.at.func]
      PROVE m2[ParamAddress(a.fp, i)] = m1[ParamAddress(a.fp, i)]
  <2>1. ParamAddress(a.fp, i) \in a.fp + 2 .. a.fp + 1 + ParamCount[a.at.func]
    BY <1>1 DEF ParamAddress
  <2>. QED BY <2>1
<1>. QED BY <1>2 DEF FrameOf

LEMMA SameLocals ==
    ASSUME NEW m1, NEW m2, NEW a, Laid(a),
           \A w \in a.fp - FrameSize(a.at.func) .. a.fp - FirstOffset - 1 : m2[w] = m1[w]
    PROVE  LocalWords(m2, a) = LocalWords(m1, a)
<1>1. a.fp \in Nat /\ FrameSize(a.at.func) \in Nat /\ FirstOffset \in Nat
  BY SizesAre DEF Laid
<1>2. ASSUME NEW k \in 1 .. FrameSize(a.at.func) - FirstOffset
      PROVE m2[a.fp - FrameSize(a.at.func) + k - 1] = m1[a.fp - FrameSize(a.at.func) + k - 1]
  <2>1. a.fp - FrameSize(a.at.func) + k - 1 \in a.fp - FrameSize(a.at.func) .. a.fp - FirstOffset - 1
    BY <1>1
  <2>. QED BY <2>1
<1>. QED BY <1>2 DEF LocalWords

\* Where the argument lists of an activation begin.
LEMMA ArgsBegin ==
    ASSUME NEW a, Laid(a), NEW n \in 1 .. Len(a.at.calls)
    PROVE  LET cs == a.at.calls
               L == Len(cs)
               e == a.sp + Room(cs) - SumTo(Rooms(cs), n)
           IN /\ e \in Nat /\ e + ParamCount[cs[n].callee] <= a.sp + Room(cs)
              /\ n = L => e = a.sp
              /\ n < L => e >= a.sp + ParamCount[cs[L].callee]
<1>. DEFINE cs == a.at.calls
            L == Len(cs)
            s == Rooms(cs)
<1>1. Pending(cs) /\ a.sp \in Nat
  BY DEF Laid
<1>2. /\ L \in Nat /\ Room(cs) \in Nat /\ Room(cs) = SumTo(s, L) /\ SumTo(s, n - 1) \in Nat
      /\ ParamCount[cs[n].callee] \in Nat /\ SumTo(s, n) \in Nat /\ SumTo(s, n) <= Room(cs)
      /\ SumTo(s, n) = SumTo(s, n - 1) + ParamCount[cs[n].callee]
  BY <1>1, RoomsAre
<1>3. ASSUME n < L
      PROVE  SumTo(s, n) + ParamCount[cs[L].callee] <= Room(cs) /\ ParamCount[cs[L].callee] \in Nat
  <2>1. L \in 1 .. L /\ L - 1 \in 0 .. L /\ n \in 0 .. L - 1 /\ L - 1 \in 0 .. L - 1
    <3>1. L \in Nat /\ n \in 1 .. L /\ n < L
      BY <1>2, <1>3
    <3>. HIDE DEF L
    <3>. QED BY <3>1
  <2>2. SumTo(s, L) = SumTo(s, L - 1) + ParamCount[cs[L].callee] /\ ParamCount[cs[L].callee] \in Nat
        /\ SumTo(s, L - 1) \in Nat
    BY <1>1, <2>1, RoomsAre
  <2>3. SumTo(s, n) <= SumTo(s, L - 1)
    <3>1. DOMAIN cs = 1 .. L
      BY <1>1, ListShape DEF Pending
    <3>2. \A i \in 1 .. L : s[i] \in Nat
      BY <1>1, <3>1, FramesAssumption DEF Rooms, Pending
    <3>. HIDE DEF s
    <3>. QED BY <1>2, <2>1, <3>2, SumGrows
  <2>. HIDE DEF cs, L, s
  <2>. QED BY <1>2, <2>2, <2>3
<1>. DEFINE r == Room(cs)
            x == SumTo(s, n)
            y == SumTo(s, n - 1)
            p == ParamCount[cs[n].callee]
            q == ParamCount[cs[L].callee]
<1>4. /\ a.sp \in Nat /\ r \in Nat /\ x \in Nat /\ y \in Nat /\ p \in Nat
      /\ x = y + p /\ x <= r /\ (n < L => x + q <= r /\ q \in Nat) /\ (n = L => x = r)
  BY <1>1, <1>2, <1>3
<1>. HIDE DEF r, x, y, p, q, L
<1>5. a.sp + r - x \in Nat /\ a.sp + r - x + p <= a.sp + r /\ (n = L => a.sp + r - x = a.sp)
  BY <1>4
<1>6. n < L => a.sp + r - x >= a.sp + q
  BY <1>4
<1>. QED BY <1>5, <1>6 DEF r, x, p, q, L

\* The n words of memory above e.
Line(mm, n, e) == [k \in 1 .. n |-> mm[e + k]]

LEMMA ArgsAre ==
    ASSUME NEW mm, NEW a, Laid(a)
    PROVE  LET args == ArgLists(mm, a) IN
           /\ args = [n \in 1 .. Len(a.at.calls) |-> args[n]]
           /\ \A n \in 1 .. Len(a.at.calls) :
                 args[n] = Line(mm, ParamCount[a.at.calls[n].callee],
                                a.sp + Room(a.at.calls) - SumTo(Rooms(a.at.calls), n))
<1>1. DOMAIN a.at.calls = 1 .. Len(a.at.calls)
  BY ListShape DEF Laid, Pending
<1>. QED BY <1>1 DEF ArgLists, Line

LEMMA SameLine ==
    ASSUME NEW m1, NEW m2, NEW n, NEW e, \A k \in 1 .. n : m2[e + k] = m1[e + k]
    PROVE  Line(m2, n, e) = Line(m1, n, e)
BY DEF Line

LEMMA SameArgs ==
    ASSUME NEW m1, NEW m2, NEW a, Laid(a),
           \A w \in a.sp + 1 .. a.sp + Room(a.at.calls) : m2[w] = m1[w]
    PROVE  ArgLists(m2, a) = ArgLists(m1, a)
<1>. DEFINE cs == a.at.calls
            r == Room(cs)
<1>1. a.sp \in Nat /\ r \in Nat
  BY RoomsAre DEF Laid
<1>2. ASSUME NEW n \in 1 .. Len(cs) PROVE ArgLists(m2, a)[n] = ArgLists(m1, a)[n]
  <2>. DEFINE e == a.sp + r - SumTo(Rooms(cs), n)
              p == ParamCount[cs[n].callee]
  <2>1. e \in Nat /\ e + p <= a.sp + r /\ p \in Nat /\ e >= a.sp
    <3>1. e \in Nat /\ e + p <= a.sp + r
      BY ArgsBegin
    <3>2. p \in Nat /\ SumTo(Rooms(cs), n) \in Nat /\ SumTo(Rooms(cs), n) <= r
      BY RoomsAre DEF Laid
    <3>. DEFINE x == SumTo(Rooms(cs), n)
    <3>3. x \in Nat /\ x <= r
      BY <3>2
    <3>. HIDE DEF x, r
    <3>4. a.sp + r - x >= a.sp
      BY <1>1, <3>3
    <3>. QED BY <3>1, <3>2, <3>4 DEF x, r
  <2>2. ArgLists(m2, a)[n] = Line(m2, p, e) /\ ArgLists(m1, a)[n] = Line(m1, p, e)
    BY ArgsAre
  <2>3. \A w \in a.sp + 1 .. a.sp + r : m2[w] = m1[w]
    OBVIOUS
  <2>. HIDE DEF e, p, r
  <2>4. \A k \in 1 .. p : m2[e + k] = m1[e + k]
    BY <1>1, <2>1, <2>3
  <2>. QED BY <2>2, <2>4, SameLine
<1>3. /\ ArgLists(m2, a) = [n \in 1 .. Len(cs) |-> ArgLists(m2, a)[n]]
      /\ ArgLists(m1, a) = [n \in 1 .. Len(cs) |-> ArgLists(m1, a)[n]]
  BY ArgsAre
<1>. QED BY <1>2, <1>3

LEMMA SameFrame ==
    ASSUME NEW m1, NEW m2, NEW a, Laid(a),
           \A w \in a.sp + 1 .. a.fp - FirstOffset - 1 : m2[w] = m1[w],
           \A w \in a.fp + 2 .. a.fp + 1 + ParamCount[a.at.func] : m2[w] = m1[w]
    PROVE  FrameOf(m2, a) = FrameOf(m1, a)
<1>1. /\ a.fp \in Nat /\ FrameSize(a.at.func) \in Nat /\ FirstOffset \in Nat /\ a.sp \in Nat
      /\ FirstOffset <= FrameSize(a.at.func) /\ Room(a.at.calls) \in Nat
      /\ a.sp + Room(a.at.calls) + FrameSize(a.at.func) + 1 = a.fp
  BY SizesAre, RoomsAre DEF Laid
<1>2. \A w \in a.fp - FrameSize(a.at.func) .. a.fp - FirstOffset - 1 : m2[w] = m1[w]
  BY <1>1
<1>3. \A w \in a.sp + 1 .. a.sp + Room(a.at.calls) : m2[w] = m1[w]
  BY <1>1
<1>4. FrameOf(m2, a).params = FrameOf(m1, a).params
  BY SameParams
<1>5. LocalWords(m2, a) = LocalWords(m1, a) /\ ArgLists(m2, a) = ArgLists(m1, a)
  BY <1>2, <1>3, SameLocals, SameArgs
<1>. QED BY <1>4, <1>5 DEF FrameOf

\* Parameters are in the argument list of the activation above.
LEMMA ParamsLie ==
    ASSUME NEW mm, NEW acts, Stacked(mm, acts), Nesting(acts), NEW k \in 1 .. Len(acts)
    PROVE  /\ ParamCount[acts[k].at.func] \in Nat
           /\ acts[k].fp + 1 + ParamCount[acts[k].at.func] <= StackTop
<1>1. Len(acts) \in Nat /\ Laid(acts[k]) /\ acts[k].fp \in Nat /\ acts[k].fp + k <= StackTop
  BY OneBelowTheOther DEF Nesting, Laid
<1>2. CASE k = 1
  BY <1>1, <1>2, FramesAssumption DEF Nesting
<1>3. CASE k # 1
  <2>. DEFINE j == k - 1
              cs == acts[j].at.calls
  <2>1. j \in 1 .. Len(acts) - 1 /\ j \in 1 .. Len(acts) /\ j + 1 = k /\ j < k
    BY <1>1, <1>3
  <2>. HIDE DEF j
  <2>2. Laid(acts[j]) /\ acts[j].fp + j <= StackTop
    BY <2>1 DEF Nesting
  <2>3. Len(cs) > 0 /\ acts[j + 1].at.func = cs[Len(cs)].callee
    BY <2>1 DEF Nesting
  <2>4. Pending(cs) /\ Len(cs) \in Nat
    BY <2>2, RoomsAre DEF Laid
  <2>5. Len(cs) \in 1 .. Len(cs)
    BY <2>3, <2>4
  <2>6. /\ ParamCount[cs[Len(cs)].callee] \in Nat /\ SumTo(Rooms(cs), Len(cs) - 1) \in Nat
        /\ SumTo(Rooms(cs), Len(cs)) = SumTo(Rooms(cs), Len(cs) - 1) + ParamCount[cs[Len(cs)].callee]
        /\ Room(cs) = SumTo(Rooms(cs), Len(cs)) /\ Room(cs) \in Nat
    BY <2>4, <2>5, RoomsAre
  <2>7. acts[k].fp + 1 <= acts[j].sp
    BY <2>1, OneBelowTheOther
  <2>8. /\ acts[j].fp \in Nat /\ acts[j].sp \in Nat /\ FrameSize(acts[j].at.func) \in Nat
        /\ acts[j].sp + Room(cs) + FrameSize(acts[j].at.func) + 1 = acts[j].fp
    BY <2>2, SizesAre DEF Laid
  <2>9. acts[k].at.func = cs[Len(cs)].callee
    BY <2>1, <2>3
  <2>. DEFINE p == ParamCount[cs[Len(cs)].callee]
              y == SumTo(Rooms(cs), Len(cs) - 1)
              x == SumTo(Rooms(cs), Len(cs))
              z == Room(cs)
              size_ == FrameSize(acts[j].at.func)
  <2>10. /\ p \in Nat /\ y \in Nat /\ x = y + p /\ z = x /\ size_ \in Nat
         /\ acts[j].sp + z + size_ + 1 = acts[j].fp
    BY <2>6, <2>8
  <2>11. ParamCount[acts[k].at.func] = p
    BY <2>9
  <2>. HIDE DEF cs, p, x, y, z, size_
  <2>12. acts[j].fp \in Nat /\ acts[j].sp \in Nat /\ acts[j].fp + j <= StackTop /\ j \in Nat /\ StackTop \in Nat
    BY <1>1, <2>1, <2>2, <2>8, FramesAssumption
  <2>. DEFINE f == acts[k].fp
              g == acts[j].fp
              h == acts[j].sp
  <2>13. /\ f \in Nat /\ g \in Nat /\ h \in Nat /\ f + 1 <= h /\ h + z + size_ + 1 = g
         /\ g + j <= StackTop
    BY <1>1, <2>7, <2>10, <2>12
  <2>. HIDE DEF f, g, h
  <2>14. f + 1 + p <= StackTop
    BY <2>10, <2>12, <2>13
  <2>. QED BY <2>10, <2>11, <2>14 DEF f
<1>. QED BY <1>2, <1>3

\* Stores below the saved registers of the running activation: the others, and
\* its parameters, are as they were.
LEMMA HigherUntouched ==
    ASSUME NEW m1, NEW acts, Stacked(m1, acts), Nesting(acts), NEW m2,
           \A w \in Words : w >= acts[Len(acts)].fp - FirstOffset => m2[w] = m1[w]
    PROVE  /\ Stacked(m2, acts)
           /\ \A k \in 1 .. Len(acts) - 1 : FrameOf(m2, acts[k]) = FrameOf(m1, acts[k])
           /\ FrameOf(m2, acts[Len(acts)]).params = FrameOf(m1, acts[Len(acts)]).params
<1>. DEFINE L == Len(acts)
<1>1. /\ L \in Nat /\ L > 0 /\ L \in 1 .. L /\ StackTop \in Nat /\ FirstOffset \in Nat
      /\ \A k, l \in 1 .. L : k < l => acts[l].fp + 1 <= acts[k].sp
  <2>1. L > 0
    BY DEF Stacked
  <2>2. L \in Nat /\ \A k, l \in 1 .. L : k < l => acts[l].fp + 1 <= acts[k].sp
    BY OneBelowTheOther
  <2>3. FirstOffset \in Nat /\ StackTop \in Nat
    BY SizesAre, FramesAssumption
  <2>. QED BY <2>1, <2>2, <2>3
<1>2. ASSUME NEW k \in 1 .. L
      PROVE  /\ Laid(acts[k]) /\ acts[k].fp \in Nat /\ acts[k].sp \in Nat
             /\ acts[k].sp + FirstOffset + 1 <= acts[k].fp /\ acts[k].fp + k <= StackTop
             /\ acts[L].fp <= acts[k].fp
             /\ k # L => acts[L].fp + 1 <= acts[k].sp
  <2>1. Laid(acts[k]) /\ acts[k].fp + k <= StackTop
    BY DEF Nesting
  <2>2. Room(acts[k].at.calls) \in Nat /\ FrameSize(acts[k].at.func) \in Nat
        /\ FirstOffset <= FrameSize(acts[k].at.func)
    BY <2>1, SizesAre, RoomsAre DEF Laid
  <2>3. /\ acts[k].fp \in Nat /\ acts[k].sp \in Nat
        /\ acts[k].sp + Room(acts[k].at.calls) + FrameSize(acts[k].at.func) + 1 = acts[k].fp
    BY <2>1 DEF Laid
  <2>4. acts[k].sp + FirstOffset + 1 <= acts[k].fp
    BY <1>1, <2>2, <2>3
  <2>5. k # L => k < L
    BY <1>1
  <2>6. k # L => acts[L].fp + 1 <= acts[k].sp
    BY <1>1, <2>5
  <2>7. acts[L].fp \in Nat
    BY <1>1 DEF Nesting, Laid
  <2>. QED BY <1>1, <2>1, <2>3, <2>4, <2>6, <2>7
<1>3. acts[L].fp \in Nat
  BY <1>1, <1>2
<1>4. \A w \in Words : w >= acts[L].fp - FirstOffset => m2[w] = m1[w]
  OBVIOUS
<1>5. IsList(acts)
  BY DEF Stacked
<1>. HIDE DEF L
<1>6. ASSUME NEW k \in 1 .. L
      PROVE  \A w \in acts[k].fp .. acts[k].fp + 1 + ParamCount[acts[k].at.func] : m2[w] = m1[w]
  <2>1. ParamCount[acts[k].at.func] \in Nat /\ acts[k].fp + 1 + ParamCount[acts[k].at.func] <= StackTop
    BY ParamsLie DEF L
  <2>2. acts[k].fp \in Nat /\ acts[L].fp <= acts[k].fp
    BY <1>2
  <2>3. ASSUME NEW w \in acts[k].fp .. acts[k].fp + 1 + ParamCount[acts[k].at.func]
        PROVE  w \in Words /\ w >= acts[L].fp - FirstOffset
    <3>. DEFINE p == ParamCount[acts[k].at.func]
    <3>1. p \in Nat /\ acts[k].fp + 1 + p <= StackTop /\ w \in acts[k].fp .. acts[k].fp + 1 + p
      BY <2>1
    <3>. DEFINE f == acts[k].fp
                g == acts[L].fp
    <3>2. f \in Nat /\ g \in Nat /\ g <= f /\ p \in Nat /\ f + 1 + p <= StackTop /\ w \in f .. f + 1 + p
      BY <1>3, <2>2, <3>1
    <3>. HIDE DEF p, f, g
    <3>3. w \in 0 .. StackTop /\ w >= g - FirstOffset
      BY <1>1, <3>2
    <3>. QED BY <3>3 DEF Words, g
  <2>. QED BY <1>4, <2>3
<1>7. ASSUME NEW k \in 1 .. L PROVE m2[acts[k].fp] = m1[acts[k].fp] /\ m2[acts[k].fp + 1] = m1[acts[k].fp + 1]
  <2>1. ParamCount[acts[k].at.func] \in Nat
    BY ParamsLie DEF L
  <2>2. acts[k].fp \in Nat
    BY <1>2
  <2>. DEFINE p == ParamCount[acts[k].at.func]
  <2>3. p \in Nat /\ \A w \in acts[k].fp .. acts[k].fp + 1 + p : m2[w] = m1[w]
    BY <1>6, <2>1
  <2>. HIDE DEF p
  <2>. QED BY <2>2, <2>3
<1>8. ASSUME NEW k \in 1 .. L PROVE Suspended(m2, acts[k].fp) = Suspended(m1, acts[k].fp)
  <2>1. \A w \in acts[k].fp - FirstOffset .. acts[k].fp - 1 : m2[w] = m1[w]
    <3>1. /\ acts[k].fp \in Nat /\ acts[k].sp \in Nat /\ acts[k].sp + FirstOffset + 1 <= acts[k].fp
          /\ acts[k].fp + k <= StackTop /\ acts[L].fp <= acts[k].fp
      BY <1>2
    <3>2. ASSUME NEW w \in acts[k].fp - FirstOffset .. acts[k].fp - 1
          PROVE  w \in Words /\ w >= acts[L].fp - FirstOffset
      <4>. DEFINE f == acts[k].fp
                  g == acts[k].sp
                  h == acts[L].fp
      <4>1. /\ f \in Nat /\ g \in Nat /\ h \in Nat /\ g + FirstOffset + 1 <= f /\ f + k <= StackTop
            /\ h <= f /\ k \in Nat /\ w \in f - FirstOffset .. f - 1
        BY <1>1, <1>3, <3>1
      <4>. HIDE DEF f, g, h
      <4>2. w \in 0 .. StackTop /\ w >= h - FirstOffset
        BY <1>1, <4>1
      <4>. QED BY <4>2 DEF Words, h
    <3>. QED BY <1>4, <3>2
  <2>2. RestoreAll(m2, acts[k].fp) = RestoreAll(m1, acts[k].fp)
    BY <1>2, <2>1, SameSaved
  <2>. QED BY <1>7, <2>2 DEF Suspended
<1>9. Stacked(m2, acts)
  <2>1. m2[acts[1].fp + 1].pos = Restart
    BY <1>1, <1>7 DEF Stacked
  <2>2. ASSUME NEW k \in 1 .. L - 1
        PROVE  m2[acts[k + 1].fp + 1].pos # Restart /\ acts[k] = Suspended(m2, acts[k + 1].fp)
    <3>1. k + 1 \in 1 .. L
      BY <1>1
    <3>2. m1[acts[k + 1].fp + 1].pos # Restart /\ acts[k] = Suspended(m1, acts[k + 1].fp)
      BY DEF Stacked, L
    <3>. QED BY <1>7, <1>8, <3>1, <3>2
  <2>. QED BY <1>1, <1>5, <2>1, <2>2 DEF Stacked, L
<1>10. ASSUME NEW k \in 1 .. L - 1 PROVE FrameOf(m2, acts[k]) = FrameOf(m1, acts[k])
  <2>1. k \in 1 .. L /\ k # L
    BY <1>1
  <2>2. \A w \in acts[k].sp + 1 .. acts[k].fp - FirstOffset - 1 : m2[w] = m1[w]
    <3>1. /\ acts[k].fp \in Nat /\ acts[k].sp \in Nat /\ acts[L].fp + 1 <= acts[k].sp
          /\ acts[k].fp + k <= StackTop
      BY <1>2, <2>1
    <3>2. ASSUME NEW w \in acts[k].sp + 1 .. acts[k].fp - FirstOffset - 1
          PROVE  w \in Words /\ w >= acts[L].fp - FirstOffset
      <4>. DEFINE f == acts[k].fp
                  g == acts[k].sp
                  h == acts[L].fp
      <4>1. /\ f \in Nat /\ g \in Nat /\ h \in Nat /\ h + 1 <= g /\ f + k <= StackTop
            /\ k \in Nat /\ w \in g + 1 .. f - FirstOffset - 1
        BY <1>1, <1>3, <2>1, <3>1
      <4>. HIDE DEF f, g, h
      <4>2. w \in 0 .. StackTop /\ w >= h - FirstOffset
        BY <1>1, <4>1
      <4>. QED BY <4>2 DEF Words, h
    <3>. QED BY <1>4, <3>2
  <2>3. \A w \in acts[k].fp + 2 .. acts[k].fp + 1 + ParamCount[acts[k].at.func] : m2[w] = m1[w]
    BY <1>2, <1>6, <2>1
  <2>. QED BY <1>2, <2>1, <2>2, <2>3, SameFrame
<1>11. FrameOf(m2, acts[L]).params = FrameOf(m1, acts[L]).params
  <2>1. \A w \in acts[L].fp + 2 .. acts[L].fp + 1 + ParamCount[acts[L].at.func] : m2[w] = m1[w]
    <3>. DEFINE p == ParamCount[acts[L].at.func]
    <3>1. \A w \in acts[L].fp .. acts[L].fp + 1 + p : m2[w] = m1[w]
      BY <1>1, <1>6
    <3>. HIDE DEF p
    <3>2. \A w \in acts[L].fp + 2 .. acts[L].fp + 1 + p : m2[w] = m1[w]
      BY <1>3, <3>1
    <3>. QED BY <3>2 DEF p
  <2>2. Laid(acts[L])
    BY <1>1, <1>2
  <2>. QED BY <2>1, <2>2, SameParams
<1>. QED BY <1>9, <1>10, <1>11 DEF L

-----------------------------------------------------------------------------
(* No word has two uses *)

LEMMA CellsLie ==
    ASSUME NEW a, Laid(a)
    PROVE  /\ \A w \in SavedCells(a) : w \in Int /\ a.fp - FirstOffset <= w /\ w < a.fp
           /\ \A w \in LocalCells(a) :
                 w \in Int /\ a.sp + Room(a.at.calls) < w /\ w < a.fp - FirstOffset
<1>. DEFINE f == a.at.func
            s == LocalSizes[f]
            z == FrameSize(f)
            r == Room(a.at.calls)
<1>1. /\ a.fp \in Nat /\ a.sp \in Nat /\ z \in Nat /\ r \in Nat /\ FirstOffset \in Nat
      /\ FirstOffset <= z /\ a.sp + r + z + 1 = a.fp
  BY SizesAre, RoomsAre DEF Laid
<1>2. ASSUME NEW w \in SavedCells(a) PROVE w \in Int /\ a.fp - FirstOffset <= w /\ w < a.fp
  <2>1. PICK i \in DOMAIN SavedRegs : w = a.fp - (i - 1) - 1
    BY DEF SavedCells, SavedAddress
  <2>2. i \in 1 .. FirstOffset
    BY <2>1, FramesAssumption, LenProperties DEF FirstOffset
  <2>. QED BY <1>1, <2>1, <2>2
<1>3. ASSUME NEW w \in LocalCells(a)
      PROVE  w \in Int /\ a.sp + r < w /\ w < a.fp - FirstOffset
  <2>1. PICK i \in DOMAIN s : \E j \in 0 .. s[i] - 1 : w = LocalAddress(a.fp, f, i, j)
    BY DEF LocalCells
  <2>2. PICK j \in 0 .. s[i] - 1 : w = a.fp - FirstOffset - SumTo(s, i) + j
    BY <2>1 DEF LocalAddress
  <2>. DEFINE x == SumTo(s, i)
              y == SumTo(s, i - 1)
  <2>3. i \in 1 .. Len(s)
    BY <2>1, FramesAssumption, LenProperties DEF Laid
  <2>4. /\ s[i] \in Nat /\ x \in Nat /\ y \in Nat /\ x = y + s[i] /\ FirstOffset + x <= z
    BY <2>3, SizesAre DEF Laid
  <2>. DEFINE p == s[i]
  <2>5. p \in Nat /\ x = y + p /\ j \in 0 .. p - 1 /\ w = a.fp - FirstOffset - x + j
    BY <2>2, <2>4
  <2>. HIDE DEF x, y, p, z, r
  <2>. QED BY <1>1, <2>4, <2>5
<1>. QED BY <1>2, <1>3

LEMMA NothingShared ==
    ASSUME NEW mm, NEW acts, Stacked(mm, acts), Nesting(acts), NEW k \in 1 .. Len(acts)
    PROVE  /\ SavedCells(acts[k]) \cap LocalCells(acts[k]) = {}
           /\ \A w \in SavedCells(acts[k]) \cup LocalCells(acts[k]) :
                 acts[k].sp + Room(acts[k].at.calls) < w /\ w < acts[k].fp
           /\ k > 1 => acts[k].fp + 1 <= acts[k - 1].sp
<1>1. Laid(acts[k])
  BY DEF Nesting
<1>. DEFINE r == Room(acts[k].at.calls)
            z == FrameSize(acts[k].at.func)
            a == acts[k].sp
            f == acts[k].fp
<1>2. /\ f \in Nat /\ a \in Nat /\ z \in Nat /\ r \in Nat /\ FirstOffset \in Nat
      /\ FirstOffset <= z /\ a + r + z + 1 = f
  BY <1>1, SizesAre, RoomsAre DEF Laid
<1>3. /\ \A w \in SavedCells(acts[k]) : w \in Int /\ f - FirstOffset <= w /\ w < f
      /\ \A w \in LocalCells(acts[k]) : w \in Int /\ a + r < w /\ w < f - FirstOffset
  BY <1>1, CellsLie
<1>4. k > 1 => acts[k].fp + 1 <= acts[k - 1].sp
  <2>1. Len(acts) \in Nat /\ \A i, l \in 1 .. Len(acts) : i < l => acts[l].fp + 1 <= acts[i].sp
    BY OneBelowTheOther
  <2>2. k > 1 => k - 1 \in 1 .. Len(acts) /\ k - 1 < k
    BY <2>1
  <2>. QED BY <2>1, <2>2
<1>. HIDE DEF r, z, a, f
<1>5. SavedCells(acts[k]) \cap LocalCells(acts[k]) = {}
  BY <1>2, <1>3
<1>6. \A w \in SavedCells(acts[k]) \cup LocalCells(acts[k]) : a + r < w /\ w < f
  BY <1>2, <1>3
<1>. QED BY <1>4, <1>5, <1>6 DEF r, a, f

-----------------------------------------------------------------------------
(* The invariant *)

StackOf(mm, stack, frame, regs, here, acts) ==
    /\ Stacked(mm, acts) /\ Nesting(acts)
    /\ acts[Len(acts)] = [fp |-> frame, at |-> here, sp |-> stack, saved |-> regs]

FrameInv ==
    /\ mem = [w \in Words |-> mem[w]] /\ saved = [r \in SavedSet |-> saved[r]]
    /\ pc # Restart => /\ \E acts : StackOf(mem, sp, fp, saved, pc, acts)
                       /\ frames = View(mem, sp, fp, saved, pc)

LEMMA StackIsSeen ==
    ASSUME NEW mm, NEW stack, NEW frame, NEW regs, NEW here, NEW acts,
           StackOf(mm, stack, frame, regs, here, acts)
    PROVE  /\ Activations(mm, stack, frame, regs, here) = acts
           /\ View(mm, stack, frame, regs, here) = [k \in 1 .. Len(acts) |-> FrameOf(mm, acts[k])]
<1>1. Len(acts) \in Nat /\ Len(acts) <= StackTop /\ StackTop \in Nat /\ DOMAIN acts = 1 .. Len(acts)
  BY OneBelowTheOther, ListShape, FramesAssumption DEF StackOf, Stacked
<1>2. Activations(mm, stack, frame, regs, here) = acts
  <2>1. Len(acts) <= StackTop + 1
    BY <1>1
  <2>. QED BY <2>1, ActivationsAre DEF StackOf
<1>. QED BY <1>1, <1>2 DEF View

LEMMA InvApart == FrameInv => FramesApart
<1>. SUFFICES ASSUME FrameInv, pc # Restart
              PROVE  LET acts == Activations(mem, sp, fp, saved, pc) IN
                     \A k \in DOMAIN acts :
                        /\ SavedCells(acts[k]) \cap LocalCells(acts[k]) = {}
                        /\ \A w \in SavedCells(acts[k]) \cup LocalCells(acts[k]) :
                              acts[k].sp + Room(acts[k].at.calls) < w /\ w < acts[k].fp
                        /\ k > 1 => acts[k].fp + 1 <= acts[k - 1].sp
  BY DEF FramesApart
<1>1. PICK acts : StackOf(mem, sp, fp, saved, pc, acts)
  BY DEF FrameInv
<1>2. Activations(mem, sp, fp, saved, pc) = acts /\ DOMAIN acts = 1 .. Len(acts)
  BY <1>1, StackIsSeen, ListShape DEF StackOf, Stacked
<1>. QED BY <1>1, <1>2, NothingShared DEF StackOf

LEMMA FirstStack == InitSpec => FrameInv
<1>. SUFFICES ASSUME InitSpec PROVE FrameInv
  OBVIOUS
<1>. DEFINE a == [fp |-> fp, at |-> pc, sp |-> sp, saved |-> saved]
            acts == <<a>>
<1>1. /\ mem = [w \in Words |-> IF w = StackTop - 1 THEN Number(StackTop) ELSE Number(0)]
      /\ sp = StackTop - 2 - FrameSize(Main) /\ fp = StackTop - 1
      /\ saved = [r \in SavedSet |-> Number(0)] /\ pc = [func |-> Main, calls |-> <<>>]
      /\ frames = View(mem, sp, fp, saved, pc)
  BY DEF InitSpec, Init, At
<1>2. /\ StackTop \in Nat /\ FrameSize(Main) \in Nat /\ sp \in Nat /\ fp \in Nat /\ fp + 1 = StackTop
      /\ Main \in Functions
  BY <1>1, SizesAre, FramesAssumption
<1>3. mem[fp + 1].pos = Restart
  BY <1>1, <1>2 DEF Words, Number
<1>4. IsList(acts) /\ Len(acts) = 1 /\ acts[1] = a
  <2>1. acts \in Seq({a})
    OBVIOUS
  <2>. QED BY <2>1, ListsAre
<1>5. Laid(a)
  <2>1. Pending(<<>>) /\ Room(<<>>) = 0
    BY EmptyList, SumZero DEF Pending, Room
  <2>. QED BY <1>1, <1>2, <2>1 DEF Laid
<1>6. a.fp = fp /\ a.at.func = Main
  BY <1>1
<1>. HIDE DEF acts
<1>7. Stacked(mem, acts)
  BY <1>3, <1>4, <1>6 DEF Stacked
<1>8. Nesting(acts)
  BY <1>2, <1>4, <1>5, <1>6 DEF Nesting
<1>9. StackOf(mem, sp, fp, saved, pc, acts)
  BY <1>4, <1>7, <1>8 DEF StackOf
<1>10. mem = [w \in Words |-> mem[w]] /\ saved = [r \in SavedSet |-> saved[r]]
  BY <1>1
<1>. QED BY <1>1, <1>9, <1>10 DEF FrameInv

-----------------------------------------------------------------------------
(* Steps of the running activation *)

\* A list that only differs in its last element.
LEMMA LastReplaced ==
    ASSUME NEW L \in Nat, L > 0, NEW f, NEW g, IsList(f), IsList(g), Len(f) = L, Len(g) = L,
           \A k \in 1 .. L - 1 : f[k] = g[k]
    PROVE  /\ g = Append(SubSeq(f, 1, L - 1), g[L])
           /\ SubSeq(g, 1, L - 1) = SubSeq(f, 1, L - 1)
<1>. DEFINE n == L - 1
            h == SubSeq(f, 1, n)
            i == SubSeq(g, 1, n)
            j == Append(h, g[L])
<1>1. IsList(f) /\ IsList(g) /\ Len(f) = L /\ Len(g) = L
  OBVIOUS
<1>2. n \in Nat /\ n <= L /\ n + 1 = L
  OBVIOUS
<1>3. \A k \in 1 .. n : f[k] = g[k]
  OBVIOUS
<1>. HIDE DEF n
<1>4. IsList(h) /\ Len(h) = n /\ \A k \in 1 .. n : h[k] = f[k]
  BY <1>1, <1>2, ListFront
<1>5. IsList(i) /\ Len(i) = n /\ \A k \in 1 .. n : i[k] = g[k]
  BY <1>1, <1>2, ListFront
<1>. HIDE DEF h, i
<1>6. i = h
  BY <1>3, <1>4, <1>5, SameLists
<1>7. IsList(j) /\ Len(j) = L /\ j[L] = g[L] /\ \A k \in 1 .. n : j[k] = h[k]
  BY <1>2, <1>4, ListAppend
<1>. HIDE DEF j
<1>8. \A k \in 1 .. L : j[k] = g[k]
  <2>1. ASSUME NEW k \in 1 .. L PROVE k = L \/ k \in 1 .. n
    BY <1>2
  <2>. QED BY <2>1, <1>3, <1>4, <1>7
<1>9. j = g
  BY <1>1, <1>7, <1>8, SameLists
<1>. QED BY <1>1, <1>6, <1>9 DEF h, i, j, n

\* The running activation goes on as b, storing below its saved registers.
LEMMA GoesOn ==
    ASSUME NEW m1, NEW acts, Stacked(m1, acts), Nesting(acts), NEW m2,
           \A w \in Words : w >= acts[Len(acts)].fp - FirstOffset => m2[w] = m1[w],
           NEW b, Laid(b), b.fp = acts[Len(acts)].fp, b.at.func = acts[Len(acts)].at.func
    PROVE  LET bs == [acts EXCEPT ![Len(acts)] = b] IN
           /\ Stacked(m2, bs) /\ Nesting(bs) /\ Len(bs) = Len(acts) /\ bs[Len(acts)] = b
           /\ \A k \in 1 .. Len(acts) - 1 : bs[k] = acts[k] /\ FrameOf(m2, bs[k]) = FrameOf(m1, acts[k])
           /\ FrameOf(m2, b).params = FrameOf(m1, acts[Len(acts)]).params
<1>. DEFINE L == Len(acts)
            bs == [acts EXCEPT ![L] = b]
<1>1. L \in Nat /\ L > 0 /\ L \in 1 .. L /\ DOMAIN acts = 1 .. L /\ IsList(acts)
      /\ acts = [k \in DOMAIN acts |-> acts[k]]
  BY ListShape DEF Stacked
<1>2. /\ Stacked(m2, acts)
      /\ \A k \in 1 .. L - 1 : FrameOf(m2, acts[k]) = FrameOf(m1, acts[k])
      /\ FrameOf(m2, acts[L]).params = FrameOf(m1, acts[L]).params
  BY HigherUntouched
<1>3. bs = [k \in 1 .. L |-> IF k = L THEN b ELSE acts[k]]
  BY <1>1
<1>4. IsList(bs) /\ Len(bs) = L
  <2>1. bs = [k \in DOMAIN acts |-> bs[k]]
    BY <1>1, <1>3
  <2>. HIDE DEF bs
  <2>. QED BY <1>1, <2>1, SameDomain
<1>5. bs[L] = b /\ \A k \in 1 .. L - 1 : bs[k] = acts[k]
  BY <1>1, <1>3
<1>6. ASSUME NEW k \in 1 .. L PROVE bs[k].fp = acts[k].fp /\ bs[k].at.func = acts[k].at.func
  <2>1. k = L \/ k \in 1 .. L - 1
    BY <1>1
  <2>. QED BY <1>5, <2>1
<1>. HIDE DEF bs, L
<1>7. Stacked(m2, bs)
  <2>1. m2[bs[1].fp + 1].pos = Restart
    BY <1>1, <1>2, <1>6 DEF Stacked
  <2>2. ASSUME NEW k \in 1 .. L - 1
        PROVE  m2[bs[k + 1].fp + 1].pos # Restart /\ bs[k] = Suspended(m2, bs[k + 1].fp)
    <3>1. k + 1 \in 1 .. L
      BY <1>1
    <3>2. m2[acts[k + 1].fp + 1].pos # Restart /\ acts[k] = Suspended(m2, acts[k + 1].fp)
      BY <1>2 DEF Stacked, L
    <3>. QED BY <1>5, <1>6, <3>1, <3>2
  <2>. QED BY <1>1, <1>4, <2>1, <2>2 DEF Stacked
<1>8. Nesting(bs)
  <2>1. bs[1].at.func = Main
    BY <1>1, <1>6 DEF Nesting
  <2>2. ASSUME NEW k \in 1 .. L PROVE Laid(bs[k]) /\ bs[k].fp + k <= StackTop
    <3>1. k = L \/ k \in 1 .. L - 1
      BY <1>1
    <3>2. Laid(acts[k]) /\ acts[k].fp + k <= StackTop
      BY DEF Nesting, L
    <3>. QED BY <1>5, <1>6, <3>1, <3>2
  <2>3. ASSUME NEW k \in 1 .. L - 1
        PROVE  /\ Len(bs[k].at.calls) > 0
               /\ bs[k + 1].at.func = bs[k].at.calls[Len(bs[k].at.calls)].callee
    <3>1. k + 1 \in 1 .. L
      BY <1>1
    <3>2. /\ Len(acts[k].at.calls) > 0
          /\ acts[k + 1].at.func = acts[k].at.calls[Len(acts[k].at.calls)].callee
      BY DEF Nesting, L
    <3>. QED BY <1>5, <1>6, <3>1, <3>2
  <2>. QED BY <1>4, <2>1, <2>2, <2>3 DEF Nesting
<1>9. FrameOf(m2, b).params = FrameOf(m1, acts[L]).params
  <2>1. b.fp = acts[L].fp /\ b.at.func = acts[L].at.func
    BY DEF L
  <2>2. FrameOf(m2, b).params = FrameOf(m2, acts[L]).params
    BY <2>1 DEF FrameOf
  <2>. QED BY <1>2, <2>2
<1>. QED BY <1>2, <1>4, <1>5, <1>7, <1>8, <1>9 DEF bs, L

\* The stack after it, and the frames of it.
SeenBy(acts, m1, stack, frame, regs, here, m2, stack2, regs2, here2) ==
    LET bs == [acts EXCEPT ![Len(acts)] =
                 [fp |-> frame, at |-> here2, sp |-> stack2, saved |-> regs2]]
        L == Len(acts)
        old == View(m1, stack, frame, regs, here)
        new == View(m2, stack2, frame, regs2, here2)
        a == [fp |-> frame, at |-> here, sp |-> stack, saved |-> regs]
        b == [fp |-> frame, at |-> here2, sp |-> stack2, saved |-> regs2]
    IN /\ StackOf(m2, stack2, frame, regs2, here2, bs)
       /\ Len(old) = L /\ Len(new) = L /\ L \in Nat \ {0}
       /\ old[L] = FrameOf(m1, a) /\ new[L] = FrameOf(m2, b)
       /\ new = Append(SubSeq(old, 1, L - 1), new[L])
       /\ SubSeq(new, 1, L - 1) = SubSeq(old, 1, L - 1)
       /\ FrameOf(m2, b).params = FrameOf(m1, a).params

LEMMA GoesOnSeen ==
    ASSUME NEW stack, NEW frame, NEW regs, NEW here, NEW acts, NEW m1,
           StackOf(m1, stack, frame, regs, here, acts), NEW m2,
           \A w \in Words : w >= frame - FirstOffset => m2[w] = m1[w],
           NEW stack2, NEW regs2, NEW here2,
           Laid([fp |-> frame, at |-> here2, sp |-> stack2, saved |-> regs2]), here2.func = here.func
    PROVE  SeenBy(acts, m1, stack, frame, regs, here, m2, stack2, regs2, here2)
<1>. DEFINE L == Len(acts)
            old == View(m1, stack, frame, regs, here)
            new == View(m2, stack2, frame, regs2, here2)
            a == [fp |-> frame, at |-> here, sp |-> stack, saved |-> regs]
            b == [fp |-> frame, at |-> here2, sp |-> stack2, saved |-> regs2]
            bs == [acts EXCEPT ![L] = b]
<1>1. Stacked(m1, acts) /\ Nesting(acts) /\ acts[L] = a /\ L \in Nat /\ L > 0
  BY OneBelowTheOther DEF StackOf, Stacked
<1>2. b.fp = acts[L].fp /\ b.at.func = acts[L].at.func /\ Laid(b) /\ acts[L].fp = frame
  BY <1>1
<1>. HIDE DEF b
<1>3. /\ Stacked(m2, bs) /\ Nesting(bs) /\ Len(bs) = L /\ bs[L] = b
      /\ \A k \in 1 .. L - 1 : bs[k] = acts[k] /\ FrameOf(m2, bs[k]) = FrameOf(m1, acts[k])
      /\ FrameOf(m2, b).params = FrameOf(m1, acts[L]).params
  BY <1>1, <1>2, GoesOn
<1>4. StackOf(m2, stack2, frame, regs2, here2, bs)
  BY <1>3 DEF StackOf, b
<1>5. old = [k \in 1 .. L |-> FrameOf(m1, acts[k])] /\ new = [k \in 1 .. L |-> FrameOf(m2, bs[k])]
  <2>1. old = [k \in 1 .. L |-> FrameOf(m1, acts[k])]
    BY StackIsSeen
  <2>2. new = [k \in 1 .. Len(bs) |-> FrameOf(m2, bs[k])]
    <3>. HIDE DEF bs
    <3>. QED BY <1>4, StackIsSeen
  <2>. QED BY <1>3, <2>1, <2>2
<1>. HIDE DEF old, new, bs, L, a
<1>6. /\ old = [k \in 1 .. L |-> old[k]] /\ new = [k \in 1 .. L |-> new[k]]
      /\ \A k \in 1 .. L - 1 : old[k] = new[k]
      /\ old[L] = FrameOf(m1, a) /\ new[L] = FrameOf(m2, b)
  BY <1>1, <1>3, <1>5
<1>7. /\ Len(old) = L /\ Len(new) = L /\ new = Append(SubSeq(old, 1, L - 1), new[L])
      /\ SubSeq(new, 1, L - 1) = SubSeq(old, 1, L - 1)
  <2>1. L \in Nat /\ L > 0
    BY <1>1
  <2>2. \A k \in 1 .. L - 1 : old[k] = new[k]
    BY <1>6
  <2>3. IsList(old) /\ IsList(new) /\ Len(old) = L /\ Len(new) = L
    BY <1>6, <2>1, ListOf
  <2>. QED BY <2>1, <2>2, <2>3, LastReplaced
<1>8. L \in Nat \ {0}
  BY <1>1
<1>. QED BY <1>1, <1>3, <1>4, <1>6, <1>7, <1>8 DEF L, old, new, a, b, bs, SeenBy

\* The running activation, as its registers and its position give it.
Running == [fp |-> fp, at |-> pc, sp |-> sp, saved |-> saved]

LEMMA RunningIs ==
    ASSUME FrameInv, pc # Restart
    PROVE  /\ Laid(Running) /\ Running.fp = fp /\ Running.sp = sp /\ Running.at = pc /\ Running.saved = saved
           /\ fp \in Nat /\ sp \in Nat /\ StackTop \in Nat /\ fp < StackTop
           /\ pc.func \in Functions /\ pc = [func |-> pc.func, calls |-> pc.calls] /\ Pending(pc.calls)
           /\ FirstOffset \in Nat /\ FrameSize(pc.func) \in Nat /\ FirstOffset <= FrameSize(pc.func)
           /\ Room(pc.calls) \in Nat /\ sp + Room(pc.calls) + FrameSize(pc.func) + 1 = fp
           /\ mem = [w \in Words |-> mem[w]] /\ saved = [r \in SavedSet |-> saved[r]]
<1>1. PICK acts : StackOf(mem, sp, fp, saved, pc, acts)
  BY DEF FrameInv
<1>2. Running.fp = fp /\ Running.sp = sp /\ Running.at = pc /\ Running.saved = saved
  BY DEF Running
<1>3. acts[Len(acts)] = Running /\ Len(acts) \in Nat /\ Len(acts) > 0 /\ Stacked(mem, acts) /\ Nesting(acts)
  BY <1>1, OneBelowTheOther DEF StackOf, Stacked, Running
<1>. HIDE DEF Running
<1>4. Laid(Running) /\ fp + Len(acts) <= StackTop
  BY <1>2, <1>3 DEF Nesting
<1>5. /\ fp \in Nat /\ sp \in Nat /\ pc.func \in Functions /\ pc = [func |-> pc.func, calls |-> pc.calls]
      /\ Pending(pc.calls) /\ sp + Room(pc.calls) + FrameSize(pc.func) + 1 = fp
  BY <1>2, <1>4 DEF Laid
<1>6. /\ FirstOffset \in Nat /\ FrameSize(pc.func) \in Nat /\ FirstOffset <= FrameSize(pc.func)
      /\ Room(pc.calls) \in Nat
  BY <1>5, SizesAre, RoomsAre
<1>7. StackTop \in Nat /\ fp < StackTop
  BY <1>3, <1>4, <1>5, FramesAssumption
<1>. QED BY <1>2, <1>4, <1>5, <1>6, <1>7 DEF FrameInv

\* A step of the running activation that stores below its saved registers.
LEMMA StepSeen ==
    ASSUME FrameInv, pc # Restart, pc' # Restart, frames' = View(mem', sp', fp', saved', pc'),
           mem' = [w \in Words |-> mem'[w]], saved' = [r \in SavedSet |-> saved'[r]],
           fp' = fp, pc'.func = pc.func, Laid(Running'),
           \A w \in Words : w >= fp - FirstOffset => mem'[w] = mem[w]
    PROVE  /\ FrameInv'
           /\ Len(frames) \in Nat \ {0} /\ Len(frames') = Len(frames)
           /\ frames[Len(frames)] = FrameOf(mem, Running)
           /\ frames'[Len(frames)] = FrameOf(mem', Running')
           /\ SubSeq(frames', 1, Len(frames) - 1) = SubSeq(frames, 1, Len(frames) - 1)
           /\ frames' = Append(SubSeq(frames, 1, Len(frames) - 1), FrameOf(mem', Running'))
           /\ FrameOf(mem', Running').params = FrameOf(mem, Running).params
<1>1. PICK acts : StackOf(mem, sp, fp, saved, pc, acts)
  BY DEF FrameInv
<1>. DEFINE bs == [acts EXCEPT ![Len(acts)] = [fp |-> fp, at |-> pc', sp |-> sp', saved |-> saved']]
            L == Len(acts)
<1>2. Running = [fp |-> fp, at |-> pc, sp |-> sp, saved |-> saved]
      /\ Running' = [fp |-> fp, at |-> pc', sp |-> sp', saved |-> saved']
  BY DEF Running
<1>3. frames = View(mem, sp, fp, saved, pc) /\ frames' = View(mem', sp', fp, saved', pc')
  BY DEF FrameInv
<1>4. /\ StackOf(mem', sp', fp, saved', pc', bs)
      /\ Len(frames) = L /\ Len(frames') = L /\ L \in Nat \ {0}
      /\ frames[L] = FrameOf(mem, Running) /\ frames'[L] = FrameOf(mem', Running')
      /\ frames' = Append(SubSeq(frames, 1, L - 1), frames'[L])
      /\ SubSeq(frames', 1, L - 1) = SubSeq(frames, 1, L - 1)
      /\ FrameOf(mem', Running').params = FrameOf(mem, Running).params
  <2>. DEFINE new == [fp |-> fp, at |-> pc', sp |-> sp', saved |-> saved']
              one == [fp |-> fp, at |-> pc, sp |-> sp, saved |-> saved]
              old == View(mem, sp, fp, saved, pc)
              seen == View(mem', sp', fp, saved', pc')
  <2>1. Laid(new) /\ pc'.func = pc.func /\ \A w \in Words : w >= fp - FirstOffset => mem'[w] = mem[w]
    BY <1>2
  <2>2. /\ StackOf(mem', sp', fp, saved', pc', [acts EXCEPT ![Len(acts)] = new])
        /\ Len(old) = Len(acts) /\ Len(seen) = Len(acts) /\ Len(acts) \in Nat \ {0}
        /\ old[Len(acts)] = FrameOf(mem, one) /\ seen[Len(acts)] = FrameOf(mem', new)
        /\ seen = Append(SubSeq(old, 1, Len(acts) - 1), seen[Len(acts)])
        /\ SubSeq(seen, 1, Len(acts) - 1) = SubSeq(old, 1, Len(acts) - 1)
        /\ FrameOf(mem', new).params = FrameOf(mem, one).params
    <3>1. SeenBy(acts, mem, sp, fp, saved, pc, mem', sp', saved', pc')
      BY <1>1, <2>1, GoesOnSeen
    <3>. QED BY <3>1 DEF SeenBy
  <2>. HIDE DEF new, one, old, seen
  <2>3. frames = old /\ frames' = seen /\ Running = one /\ Running' = new
    BY <1>2, <1>3 DEF new, one, old, seen
  <2>4. bs = [acts EXCEPT ![Len(acts)] = new]
    BY DEF new
  <2>. HIDE DEF bs
  <2>. QED BY <2>2, <2>3, <2>4
<1>. HIDE DEF bs, L
<1>5. FrameInv'
  BY <1>4 DEF FrameInv
<1>. QED BY <1>4, <1>5

LEMMA SetLocalStep ==
    ASSUME FrameInv, pc # Restart, NEW i \in DOMAIN LocalSizes[pc.func], NEW v \in Values,
           NEW j \in 0 .. LocalSizes[pc.func][i] - 1, SetLocal(i, j, v),
           frames' = View(mem', sp', fp', saved', pc')
    PROVE  FrameInv' /\ Calls!NextFrames
<1>. DEFINE f == pc.func
            w0 == LocalAddress(fp, f, i, j)
            z == FrameSize(f)
            r == Room(pc.calls)
            x == w0 - fp + z + 1
            a == FrameOf(mem, Running)
            b == FrameOf(mem', Running)
<1>1. mem' = [mem EXCEPT ![w0] = v] /\ sp' = sp /\ fp' = fp /\ saved' = saved /\ pc' = pc
  BY DEF SetLocal, Write
<1>2. /\ Laid(Running) /\ fp \in Nat /\ sp \in Nat /\ StackTop \in Nat /\ fp < StackTop
      /\ FirstOffset \in Nat /\ z \in Nat /\ FirstOffset <= z /\ r \in Nat /\ sp + r + z + 1 = fp
      /\ mem = [w \in Words |-> mem[w]] /\ saved = [q \in SavedSet |-> saved[q]]
      /\ Running.fp = fp /\ Running.sp = sp /\ Running.at = pc /\ Running.saved = saved
  BY RunningIs
<1>3. Running' = Running
  BY <1>1 DEF Running
<1>4. w0 \in Int /\ sp + r < w0 /\ w0 < fp - FirstOffset
  <2>1. w0 \in LocalCells(Running)
    BY <1>2 DEF LocalCells
  <2>. HIDE DEF w0
  <2>. QED BY <1>2, <2>1, CellsLie
<1>. HIDE DEF w0, z, r, x, f
<1>5. w0 \in Words /\ x \in 1 .. z - FirstOffset
  <2>1. /\ fp \in Nat /\ sp \in Nat /\ StackTop \in Nat /\ fp < StackTop
        /\ FirstOffset \in Nat /\ z \in Nat /\ r \in Nat /\ sp + r + z + 1 = fp
    BY <1>2
  <2>. QED BY <1>4, <2>1 DEF Words, x
<1>6. mem' = [w \in Words |-> IF w = w0 THEN v ELSE mem[w]]
  BY <1>1, <1>2, <1>5
<1>7. \A w \in Words : w >= fp - FirstOffset => mem'[w] = mem[w]
  BY <1>2, <1>4, <1>6
<1>8. /\ FrameInv' /\ frames[Len(frames)] = a /\ b.params = a.params
      /\ frames' = Append(SubSeq(frames, 1, Len(frames) - 1), b)
  BY <1>1, <1>2, <1>3, <1>6, <1>7, StepSeen
<1>9. ArgLists(mem', Running) = ArgLists(mem, Running)
  <2>1. \A w \in Running.sp + 1 .. Running.sp + Room(Running.at.calls) : mem'[w] = mem[w]
    <3>1. ASSUME NEW w \in sp + 1 .. sp + r PROVE mem'[w] = mem[w]
      BY <1>2, <1>4, <1>6 DEF Words
    <3>2. Running.sp = sp /\ Room(Running.at.calls) = r
      BY <1>2 DEF r
    <3>. QED BY <3>1, <3>2
  <2>2. Laid(Running)
    BY <1>2
  <2>. QED BY <2>1, <2>2, SameArgs
<1>10. LocalWords(mem', Running) = [LocalWords(mem, Running) EXCEPT ![x] = v]
  <2>1. /\ LocalWords(mem, Running) = [k \in 1 .. z - FirstOffset |-> mem[fp - z + k - 1]]
        /\ LocalWords(mem', Running) = [k \in 1 .. z - FirstOffset |-> mem'[fp - z + k - 1]]
    BY <1>2 DEF LocalWords, f, z
  <2>2. ASSUME NEW k \in 1 .. z - FirstOffset
        PROVE  mem'[fp - z + k - 1] = IF k = x THEN v ELSE mem[fp - z + k - 1]
    <3>1. x = w0 - fp + z + 1 /\ k \in 1 .. z - FirstOffset
      BY DEF x
    <3>2. fp - z + k - 1 \in 0 .. StackTop
      BY <1>2
    <3>3. fp - z + k - 1 = w0 <=> k = x
      BY <1>2, <1>4, <3>1
    <3>. QED BY <1>6, <3>2, <3>3 DEF Words
  <2>. DEFINE u == LocalWords(mem, Running)
              t == LocalWords(mem', Running)
  <2>3. /\ u = [k \in 1 .. z - FirstOffset |-> u[k]] /\ t = [k \in 1 .. z - FirstOffset |-> t[k]]
        /\ \A k \in 1 .. z - FirstOffset : t[k] = IF k = x THEN v ELSE u[k]
    BY <2>1, <2>2
  <2>. HIDE DEF u, t
  <2>4. t = [u EXCEPT ![x] = v]
    BY <1>5, <2>3
  <2>. QED BY <2>4 DEF u, t
<1>11. x \in DOMAIN a.locals /\ b = [a EXCEPT !.locals[x] = v]
  <2>1. DOMAIN LocalWords(mem, Running) = 1 .. z - FirstOffset
    BY <1>2 DEF LocalWords, f, z
  <2>2. a = [at |-> pc, saved |-> saved, params |-> a.params, locals |-> LocalWords(mem, Running),
             args |-> ArgLists(mem, Running)]
    BY <1>2 DEF FrameOf
  <2>3. b = [at |-> pc, saved |-> saved, params |-> b.params, locals |-> LocalWords(mem', Running),
             args |-> ArgLists(mem', Running)]
    BY <1>2 DEF FrameOf
  <2>. DEFINE u == LocalWords(mem, Running)
  <2>4. x \in DOMAIN u /\ LocalWords(mem', Running) = [u EXCEPT ![x] = v]
    BY <1>5, <1>10, <2>1
  <2>5. /\ a = [at |-> pc, saved |-> saved, params |-> a.params, locals |-> u, args |-> ArgLists(mem, Running)]
        /\ b = [at |-> pc, saved |-> saved, params |-> a.params, locals |-> [u EXCEPT ![x] = v],
                args |-> ArgLists(mem, Running)]
    BY <1>8, <1>9, <2>2, <2>3, <2>4
  <2>. HIDE DEF a, b, u
  <2>6. a.locals = u
    BY <2>5
  <2>7. b = [a EXCEPT !.locals[x] = v]
    BY <2>5
  <2>. QED BY <2>4, <2>6, <2>7
<1>. HIDE DEF a, b
<1>12. Calls!SetLocal
  BY <1>8, <1>11 DEF Calls!SetLocal, Calls!top, Calls!Replace, Calls!Below
<1>. QED BY <1>8, <1>12 DEF Calls!NextFrames

LEMMA SetSavedStep ==
    ASSUME FrameInv, pc # Restart, NEW r \in SavedSet, NEW v \in Values, SetSaved(r, v),
           frames' = View(mem', sp', fp', saved', pc')
    PROVE  FrameInv' /\ Calls!NextFrames
<1>. DEFINE a == FrameOf(mem, Running)
            b == FrameOf(mem, Running')
<1>1. mem' = mem /\ sp' = sp /\ fp' = fp /\ saved' = [saved EXCEPT ![r] = v] /\ pc' = pc
  BY DEF SetSaved
<1>2. /\ Laid(Running) /\ fp \in Nat /\ FirstOffset \in Nat
      /\ mem = [w \in Words |-> mem[w]] /\ saved = [q \in SavedSet |-> saved[q]]
      /\ Running.fp = fp /\ Running.sp = sp /\ Running.at = pc /\ Running.saved = saved
  BY RunningIs
<1>3. Running' = [fp |-> fp, at |-> pc, sp |-> sp, saved |-> saved']
  BY <1>1 DEF Running
<1>4. Running'.fp = fp /\ Running'.sp = sp /\ Running'.at = pc /\ Running'.saved = saved'
  BY <1>3
<1>. HIDE DEF Running
<1>5. Laid(Running')
  BY <1>2, <1>3, <1>4 DEF Laid
<1>6. mem' = [w \in Words |-> mem'[w]] /\ saved' = [q \in SavedSet |-> saved'[q]] /\ r \in DOMAIN saved
  BY <1>1, <1>2
<1>7. /\ FrameInv' /\ frames[Len(frames)] = a
      /\ frames' = Append(SubSeq(frames, 1, Len(frames) - 1), b)
  BY <1>1, <1>5, <1>6, StepSeen
<1>8. r \in DOMAIN a.saved /\ b = [a EXCEPT !.saved[r] = v]
  <2>1. b.params = a.params /\ b.locals = a.locals /\ b.args = a.args
    BY <1>2, <1>4 DEF FrameOf, LocalWords, ArgLists
  <2>2. a = [at |-> pc, saved |-> saved, params |-> a.params, locals |-> a.locals, args |-> a.args]
    BY <1>2 DEF FrameOf
  <2>3. b = [at |-> pc, saved |-> saved', params |-> b.params, locals |-> b.locals, args |-> b.args]
    BY <1>4 DEF FrameOf
  <2>. HIDE DEF a, b
  <2>4. a.saved = saved
    BY <2>2
  <2>5. b = [at |-> pc, saved |-> [saved EXCEPT ![r] = v], params |-> a.params, locals |-> a.locals, args |-> a.args]
    BY <1>1, <2>1, <2>3
  <2>6. b = [a EXCEPT !.saved[r] = v]
    BY <2>2, <2>4, <2>5
  <2>. QED BY <1>6, <2>4, <2>6
<1>. HIDE DEF a, b
<1>9. Calls!SetSaved
  BY <1>7, <1>8 DEF Calls!SetSaved, Calls!top, Calls!Replace, Calls!Below
<1>. QED BY <1>7, <1>9 DEF Calls!NextFrames

\* One more call under way.
LEMMA PendingMore ==
    ASSUME NEW cs, Pending(cs), NEW g \in Functions
    PROVE  LET ds == Append(cs, [callee |-> g, passed |-> 0]) IN
           /\ Pending(ds) /\ Len(ds) = Len(cs) + 1 /\ \A n \in 1 .. Len(cs) : ds[n] = cs[n]
           /\ \A n \in 1 .. Len(cs) : SumTo(Rooms(ds), n) = SumTo(Rooms(cs), n)
           /\ Room(ds) = Room(cs) + ParamCount[g]
<1>. DEFINE c == [callee |-> g, passed |-> 0]
            ds == Append(cs, c)
            L == Len(cs)
<1>1. L \in Nat /\ DOMAIN cs = 1 .. L
  BY ListShape DEF Pending
<1>2. IsList(ds) /\ Len(ds) = L + 1 /\ ds[L + 1] = c /\ \A n \in 1 .. L : ds[n] = cs[n]
  BY ListAppend DEF Pending
<1>3. DOMAIN ds = 1 .. L + 1
  BY <1>2, ListShape
<1>. HIDE DEF ds
<1>4. Pending(ds)
  <2>1. ASSUME NEW n \in 1 .. L + 1
        PROVE  /\ ds[n] = [callee |-> ds[n].callee, passed |-> ds[n].passed]
               /\ ds[n].callee \in Functions /\ ds[n].passed \in 0 .. ParamCount[ds[n].callee]
    <3>1. CASE n = L + 1
      <4>1. ParamCount[g] \in Nat
        BY FramesAssumption
      <4>. QED BY <1>2, <3>1, <4>1
    <3>2. CASE n # L + 1
      <4>1. n \in 1 .. L
        BY <1>1, <3>2
      <4>2. /\ cs[n] = [callee |-> cs[n].callee, passed |-> cs[n].passed]
            /\ cs[n].callee \in Functions /\ cs[n].passed \in 0 .. ParamCount[cs[n].callee]
        BY <4>1 DEF Pending
      <4>. QED BY <1>2, <4>1, <4>2
    <3>. QED BY <3>1, <3>2
  <2>. QED BY <1>2, <2>1 DEF Pending
<1>5. \A n \in 1 .. L : Rooms(ds)[n] = Rooms(cs)[n]
  BY <1>1, <1>2, <1>3 DEF Rooms
<1>6. Rooms(ds)[L + 1] = ParamCount[g]
  BY <1>1, <1>2, <1>3 DEF Rooms
<1>7. ASSUME NEW n \in 0 .. L PROVE SumTo(Rooms(ds), n) = SumTo(Rooms(cs), n)
  <2>1. n \in Nat /\ \A k \in 1 .. n : Rooms(ds)[k] = Rooms(cs)[k]
    BY <1>1, <1>5
  <2>. QED BY <2>1, SumSame
<1>8. Room(ds) = Room(cs) + ParamCount[g]
  <2>1. SumTo(Rooms(ds), L + 1) = SumTo(Rooms(ds), L) + Rooms(ds)[L + 1]
    BY <1>1, SumNext
  <2>2. Room(ds) = SumTo(Rooms(ds), L + 1) /\ Room(cs) = SumTo(Rooms(cs), L)
    BY <1>2 DEF Room
  <2>3. L \in 0 .. L
    BY <1>1
  <2>. QED BY <1>6, <1>7, <2>1, <2>2, <2>3
<1>. QED BY <1>1, <1>2, <1>4, <1>7, <1>8 DEF ds, L

LEMMA PrepareStep ==
    ASSUME FrameInv, pc # Restart, NEW g \in Functions, Prepare(g), pc' # Restart,
           frames' = View(mem', sp', fp', saved', pc')
    PROVE  FrameInv' /\ Calls!NextFrames
<1>. DEFINE a == FrameOf(mem, Running)
            b == FrameOf(mem, Running')
            cs == pc.calls
            ds == Append(cs, [callee |-> g, passed |-> 0])
            L == Len(cs)
            p == ParamCount[g]
            z == FrameSize(pc.func)
<1>1. mem' = mem /\ sp' = sp - p /\ fp' = fp /\ saved' = saved /\ pc' = [func |-> pc.func, calls |-> ds]
      /\ sp - p \in Words
  BY DEF Prepare, At, calls
<1>2. /\ Laid(Running) /\ fp \in Nat /\ FirstOffset \in Nat /\ StackTop \in Nat /\ sp \in Nat
      /\ mem = [w \in Words |-> mem[w]] /\ saved = [q \in SavedSet |-> saved[q]]
      /\ Running.fp = fp /\ Running.sp = sp /\ Running.at = pc /\ Running.saved = saved
      /\ Pending(cs) /\ pc.func \in Functions
  BY RunningIs
<1>3. Running' = [fp |-> fp, at |-> pc', sp |-> sp', saved |-> saved]
  BY <1>1 DEF Running
<1>4. Running'.fp = fp /\ Running'.sp = sp' /\ Running'.at = pc' /\ Running'.saved = saved
  BY <1>3
<1>5. /\ Pending(ds) /\ Len(ds) = L + 1 /\ \A n \in 1 .. L : ds[n] = cs[n]
      /\ \A n \in 1 .. L : SumTo(Rooms(ds), n) = SumTo(Rooms(cs), n)
      /\ Room(ds) = Room(cs) + p
  BY <1>2, PendingMore
<1>6. pc'.func = pc.func /\ pc'.calls = ds
  BY <1>1
<1>. HIDE DEF Running, ds
<1>7. /\ p \in Nat /\ z \in Nat /\ Room(cs) \in Nat /\ L \in Nat /\ sp + Room(cs) + z + 1 = fp
      /\ DOMAIN cs = 1 .. L /\ DOMAIN ds = 1 .. L + 1
  <2>1. p \in Nat /\ z \in Nat /\ Room(cs) \in Nat /\ L \in Nat
    BY <1>2, FramesAssumption, SizesAre, RoomsAre
  <2>2. sp + Room(cs) + z + 1 = fp
    BY RunningIs
  <2>3. DOMAIN cs = 1 .. L /\ DOMAIN ds = 1 .. L + 1
    BY <1>2, <1>5, ListShape DEF Pending
  <2>. QED BY <2>1, <2>2, <2>3
<1>8. Laid(Running')
  <2>1. sp' \in Nat
    BY <1>1 DEF Words
  <2>2. sp' + Room(ds) + z + 1 = fp
    <3>. DEFINE y == Room(cs)
    <3>1. Room(ds) = y + p /\ y \in Nat /\ sp + y + z + 1 = fp
      BY <1>5, <1>7
    <3>. HIDE DEF y, p, z
    <3>. QED BY <1>1, <1>2, <1>7, <3>1
  <2>3. Running' = [fp |-> Running'.fp, at |-> Running'.at, sp |-> Running'.sp, saved |-> Running'.saved]
    BY <1>3, <1>4
  <2>4. pc' = [func |-> pc'.func, calls |-> pc'.calls]
    BY <1>1, <1>6
  <2>. QED BY <1>2, <1>4, <1>5, <1>6, <2>1, <2>2, <2>3, <2>4 DEF Laid
<1>9. mem' = [w \in Words |-> mem'[w]] /\ saved' = [q \in SavedSet |-> saved'[q]]
  BY <1>1, <1>2
<1>10. /\ FrameInv' /\ frames[Len(frames)] = a /\ frames'[Len(frames)] = b
       /\ Len(frames') = Len(frames) /\ Len(frames) \in Nat \ {0}
       /\ SubSeq(frames', 1, Len(frames) - 1) = SubSeq(frames, 1, Len(frames) - 1)
  BY <1>1, <1>6, <1>8, <1>9, StepSeen
<1>11. a.args = ArgLists(mem, Running) /\ b.args = ArgLists(mem, Running')
  BY DEF FrameOf
<1>12. /\ a.args = [n \in 1 .. L |-> a.args[n]] /\ b.args = [n \in 1 .. L + 1 |-> b.args[n]]
       /\ \A n \in 1 .. L : b.args[n] = a.args[n]
  <2>1. /\ a.args = [n \in 1 .. L |-> a.args[n]]
        /\ \A n \in 1 .. L : a.args[n] = Line(mem, ParamCount[cs[n].callee], sp + Room(cs) - SumTo(Rooms(cs), n))
    BY <1>2, <1>11, ArgsAre
  <2>2. /\ b.args = [n \in 1 .. L + 1 |-> b.args[n]]
        /\ \A n \in 1 .. L + 1 : b.args[n] = Line(mem, ParamCount[ds[n].callee], sp' + Room(ds) - SumTo(Rooms(ds), n))
    BY <1>4, <1>5, <1>6, <1>8, <1>11, ArgsAre
  <2>. DEFINE y == Room(cs)
  <2>3. sp' + Room(ds) = sp + y
    <3>1. Room(ds) = y + p /\ y \in Nat
      BY <1>5, <1>7
    <3>. HIDE DEF y, p
    <3>. QED BY <1>1, <1>2, <1>7, <3>1
  <2>. HIDE DEF a, b, p, z, L
  <2>4. ASSUME NEW n \in 1 .. L PROVE b.args[n] = a.args[n]
    <3>1. n \in 1 .. L + 1
      BY <1>7
    <3>2. ds[n] = cs[n] /\ SumTo(Rooms(ds), n) = SumTo(Rooms(cs), n)
      BY <1>5
    <3>3. a.args[n] = Line(mem, ParamCount[cs[n].callee], sp + y - SumTo(Rooms(cs), n))
      BY <2>1
    <3>4. b.args[n] = Line(mem, ParamCount[ds[n].callee], sp' + Room(ds) - SumTo(Rooms(ds), n))
      BY <2>2, <3>1
    <3>. DEFINE e == sp + y - SumTo(Rooms(cs), n)
                q == ParamCount[cs[n].callee]
    <3>5. sp' + Room(ds) - SumTo(Rooms(ds), n) = e /\ ParamCount[ds[n].callee] = q
      <4>. DEFINE t == Room(ds)
                  x == SumTo(Rooms(cs), n)
      <4>1. SumTo(Rooms(ds), n) = x /\ ParamCount[ds[n].callee] = q
        BY <3>2
      <4>2. t \in Int /\ x \in Int /\ y \in Int /\ sp' \in Int /\ sp' + t = sp + y
        <5>1. x \in Int /\ y \in Int
          BY <1>2, RoomsAre DEF L
        <5>2. t \in Int
          <6>1. Pending(ds)
            BY <1>5
          <6>. QED BY <6>1, RoomsAre
        <5>3. sp' \in Int
          BY <1>1 DEF Words
        <5>. QED BY <2>3, <5>1, <5>2, <5>3
      <4>. HIDE DEF t, x, y, q
      <4>3. sp' + t - x = sp + y - x
        BY <1>2, <4>2
      <4>. QED BY <4>1, <4>3 DEF e, t, x
    <3>. HIDE DEF e, q
    <3>6. b.args[n] = Line(mem, q, e)
      BY <3>4, <3>5
    <3>7. a.args[n] = Line(mem, q, e)
      BY <3>3 DEF e, q
    <3>. QED BY <3>6, <3>7
  <2>. QED BY <2>1, <2>2, <2>4
<1>. HIDE DEF L
<1>13. /\ IsList(a.args) /\ IsList(b.args) /\ Len(a.args) = L /\ Len(b.args) = L + 1
  <2>1. L + 1 \in Nat
    BY <1>7
  <2>. QED BY <1>7, <1>12, <2>1, ListOf
<1>14. Len(b.args) = Len(a.args) + 1 /\ SubSeq(b.args, 1, Len(a.args)) = a.args
  <2>1. L \in Nat /\ L <= Len(b.args)
    BY <1>7, <1>13
  <2>2. /\ IsList(SubSeq(b.args, 1, L)) /\ Len(SubSeq(b.args, 1, L)) = L
        /\ \A k \in 1 .. L : SubSeq(b.args, 1, L)[k] = b.args[k]
    BY <1>13, <2>1, ListFront
  <2>. DEFINE x == SubSeq(b.args, 1, L)
              u == a.args
  <2>3. IsList(x) /\ IsList(u) /\ Len(x) = L /\ Len(u) = L /\ \A k \in 1 .. L : x[k] = u[k]
    BY <1>12, <1>13, <2>2
  <2>. HIDE DEF x, u
  <2>4. x = u
    BY <2>3, SameLists
  <2>. QED BY <1>13, <2>4 DEF x, u
<1>15. b = [a EXCEPT !.at = b.at, !.args = b.args]
  <2>1. b.params = a.params /\ b.locals = a.locals
    BY <1>2, <1>4, <1>6 DEF FrameOf, LocalWords
  <2>2. a = [at |-> pc, saved |-> saved, params |-> a.params, locals |-> a.locals, args |-> a.args]
    BY <1>2 DEF FrameOf
  <2>3. b = [at |-> b.at, saved |-> saved, params |-> b.params, locals |-> b.locals, args |-> b.args]
    BY <1>4 DEF FrameOf
  <2>. DEFINE at == b.at
              args == b.args
  <2>4. b = [at |-> at, saved |-> saved, params |-> a.params, locals |-> a.locals, args |-> args]
    BY <2>1, <2>3
  <2>. HIDE DEF a, b, at, args
  <2>5. [a EXCEPT !.at = at] = [at |-> at, saved |-> saved, params |-> a.params, locals |-> a.locals,
                                args |-> a.args]
    BY <2>2
  <2>. DEFINE c == [a EXCEPT !.at = at]
  <2>6. b = [c EXCEPT !.args = args]
    <3>1. c = [at |-> at, saved |-> saved, params |-> a.params, locals |-> a.locals, args |-> a.args]
      BY <2>5
    <3>. HIDE DEF c
    <3>. QED BY <2>4, <3>1
  <2>. QED BY <2>6 DEF at, args
<1>. HIDE DEF a, b
<1>16. Calls!Prepare
  BY <1>10, <1>14, <1>15 DEF Calls!Prepare, Calls!top, Calls!Below
<1>. QED BY <1>10, <1>16 DEF Calls!NextFrames

\* One more argument of the innermost call.
OneMore(cs, L, q) == [cs EXCEPT ![L].passed = q + 1]

LEMMA PendingPassed ==
    ASSUME NEW cs, Pending(cs), NEW L, L = Len(cs), L > 0, NEW q, q = cs[L].passed, q < ParamCount[cs[L].callee]
    PROVE  LET ds == OneMore(cs, L, q) IN
           /\ Pending(ds) /\ Len(ds) = L /\ Room(ds) = Room(cs)
           /\ \A n \in 1 .. L : ds[n].callee = cs[n].callee /\ SumTo(Rooms(ds), n) = SumTo(Rooms(cs), n)
<1>. DEFINE ds == OneMore(cs, L, q)
<1>1. L \in Nat /\ DOMAIN cs = 1 .. L /\ L \in 1 .. L /\ IsList(cs)
  BY ListShape DEF Pending
<1>2. \A n \in 1 .. L : /\ cs[n] = [callee |-> cs[n].callee, passed |-> cs[n].passed]
                        /\ cs[n].callee \in Functions /\ cs[n].passed \in 0 .. ParamCount[cs[n].callee]
  BY DEF Pending
<1>3. \A n \in 1 .. L : ds[n] = IF n = L THEN [cs[L] EXCEPT !.passed = q + 1] ELSE cs[n]
  BY <1>1 DEF OneMore
<1>4. IsList(ds) /\ Len(ds) = L /\ DOMAIN ds = 1 .. L
  <2>1. ds = [n \in DOMAIN cs |-> ds[n]]
    BY <1>1 DEF OneMore
  <2>2. DOMAIN ds = DOMAIN cs
    BY DEF OneMore
  <2>. HIDE DEF ds
  <2>. QED BY <1>1, <2>1, <2>2, SameDomain
<1>. HIDE DEF ds
<1>5. ASSUME NEW n \in 1 .. L
      PROVE  /\ ds[n] = [callee |-> ds[n].callee, passed |-> ds[n].passed] /\ ds[n].callee = cs[n].callee
             /\ ds[n].callee \in Functions /\ ds[n].passed \in 0 .. ParamCount[ds[n].callee]
  <2>1. CASE n = L
    <3>1. ds[n] = [callee |-> cs[n].callee, passed |-> q + 1]
      BY <1>1, <1>2, <1>3, <2>1
    <3>2. cs[n].callee \in Functions /\ q \in 0 .. ParamCount[cs[n].callee] /\ q < ParamCount[cs[n].callee]
      BY <1>1, <1>2, <2>1
    <3>3. ParamCount[cs[n].callee] \in Nat
      BY <3>2, FramesAssumption
    <3>4. q + 1 \in 0 .. ParamCount[cs[n].callee]
      <4>. DEFINE p == ParamCount[cs[n].callee]
      <4>1. p \in Nat /\ q \in 0 .. p /\ q < p
        BY <3>2, <3>3
      <4>. HIDE DEF p
      <4>2. q + 1 \in 0 .. p
        BY <4>1
      <4>. QED BY <4>2 DEF p
    <3>. QED BY <3>1, <3>2, <3>4
  <2>2. CASE n # L
    BY <1>2, <1>3, <2>2
  <2>. QED BY <2>1, <2>2
<1>6. Pending(ds)
  BY <1>4, <1>5 DEF Pending
<1>7. \A n \in 1 .. L : Rooms(ds)[n] = Rooms(cs)[n]
  BY <1>1, <1>4, <1>5 DEF Rooms
<1>8. ASSUME NEW n \in 1 .. L PROVE SumTo(Rooms(ds), n) = SumTo(Rooms(cs), n)
  <2>1. n \in Nat /\ \A k \in 1 .. n : Rooms(ds)[k] = Rooms(cs)[k]
    BY <1>1, <1>7
  <2>. QED BY <2>1, SumSame
<1>9. Room(ds) = Room(cs)
  BY <1>1, <1>4, <1>8 DEF Room
<1>. QED BY <1>4, <1>5, <1>6, <1>8, <1>9 DEF ds

LEMMA PassArgumentStep ==
    ASSUME FrameInv, pc # Restart, NEW v \in Values, PassArgument(v), pc' # Restart,
           frames' = View(mem', sp', fp', saved', pc')
    PROVE  FrameInv' /\ Calls!NextFrames
<1>. DEFINE a == FrameOf(mem, Running)
            b == FrameOf(mem', Running')
            cs == pc.calls
            L == Len(cs)
            q == cs[L].passed
            p == ParamCount[cs[L].callee]
            ds == OneMore(cs, L, q)
            w0 == ArgAddress(q)
            r == Room(cs)
            z == FrameSize(pc.func)
<1>1. /\ L > 0 /\ q < p /\ mem' = [mem EXCEPT ![w0] = v] /\ pc' = [func |-> pc.func, calls |-> ds]
      /\ sp' = sp /\ fp' = fp /\ saved' = saved
  BY DEF PassArgument, Write, At, depth, calls, OneMore
<1>2. /\ Laid(Running) /\ fp \in Nat /\ FirstOffset \in Nat /\ StackTop \in Nat /\ sp \in Nat /\ fp < StackTop
      /\ mem = [w \in Words |-> mem[w]] /\ saved = [i \in SavedSet |-> saved[i]]
      /\ Running.fp = fp /\ Running.sp = sp /\ Running.at = pc /\ Running.saved = saved
      /\ Pending(cs) /\ pc.func \in Functions
      /\ r \in Nat /\ z \in Nat /\ FirstOffset <= z /\ sp + r + z + 1 = fp
  BY RunningIs
<1>3. Running' = [fp |-> fp, at |-> pc', sp |-> sp, saved |-> saved]
  BY <1>1 DEF Running
<1>4. Running'.fp = fp /\ Running'.sp = sp /\ Running'.at = pc' /\ Running'.saved = saved
  BY <1>3
<1>5. /\ Pending(ds) /\ Len(ds) = L /\ Room(ds) = r
      /\ \A n \in 1 .. L : ds[n].callee = cs[n].callee /\ SumTo(Rooms(ds), n) = SumTo(Rooms(cs), n)
  <2>1. L = Len(cs) /\ q = cs[L].passed /\ q < ParamCount[cs[L].callee] /\ L > 0 /\ Pending(cs)
    BY <1>1, <1>2
  <2>. HIDE DEF L, q, cs
  <2>. QED BY <2>1, PendingPassed
<1>6. pc'.func = pc.func /\ pc'.calls = ds
  BY <1>1
<1>7. L \in Nat /\ p \in Nat /\ q \in Nat /\ L \in 1 .. L
  <2>1. L \in Nat /\ L \in 1 .. L
    BY <1>1, <1>2, RoomsAre
  <2>2. cs[L].callee \in Functions /\ q \in 0 .. p
    BY <1>2, <2>1 DEF Pending
  <2>3. p \in Nat
    BY <2>2, FramesAssumption
  <2>. HIDE DEF p, q, L
  <2>. QED BY <2>1, <2>2, <2>3
<1>. HIDE DEF Running, ds
<1>8. p <= r
  <2>. DEFINE e == sp + r - SumTo(Rooms(cs), L)
  <2>1. e + p <= sp + r /\ e = sp
    <3>1. L \in 1 .. Len(Running.at.calls) /\ Running.at.calls = cs /\ Running.sp = sp /\ Laid(Running)
      BY <1>2, <1>7
    <3>. HIDE DEF L
    <3>. QED BY <3>1, ArgsBegin DEF L
  <2>. HIDE DEF e, p, r
  <2>. QED BY <1>2, <1>7, <2>1
<1>9. w0 = sp + q + 1
  BY DEF ArgAddress
<1>. HIDE DEF w0, z, r, q, p
<1>10. w0 \in Words /\ w0 \in sp + 1 .. sp + p /\ w0 <= sp + r
  <2>1. w0 \in 0 .. StackTop /\ w0 \in sp + 1 .. sp + p /\ w0 <= sp + r
    BY <1>1, <1>2, <1>7, <1>8, <1>9
  <2>. QED BY <2>1 DEF Words
<1>11. mem' = [w \in Words |-> IF w = w0 THEN v ELSE mem[w]]
  BY <1>1, <1>2, <1>10
<1>12. \A w \in Words : w >= fp - FirstOffset => mem'[w] = mem[w]
  <2>1. ASSUME NEW w \in Words, w >= fp - FirstOffset PROVE w # w0
    BY <1>2, <1>9, <1>10, <2>1 DEF Words
  <2>. QED BY <1>11, <2>1
<1>13. Laid(Running')
  <2>1. Running' = [fp |-> Running'.fp, at |-> Running'.at, sp |-> Running'.sp, saved |-> Running'.saved]
    BY <1>3, <1>4
  <2>2. pc' = [func |-> pc'.func, calls |-> pc'.calls]
    BY <1>1, <1>6
  <2>3. sp + Room(ds) + z + 1 = fp
    BY <1>2, <1>5
  <2>. QED BY <1>2, <1>4, <1>5, <1>6, <2>1, <2>2, <2>3 DEF Laid, z
<1>14. mem' = [w \in Words |-> mem'[w]] /\ saved' = [i \in SavedSet |-> saved'[i]]
  BY <1>1, <1>2, <1>11
<1>15. /\ FrameInv' /\ frames[Len(frames)] = a /\ b.params = a.params
       /\ frames' = Append(SubSeq(frames, 1, Len(frames) - 1), b)
  BY <1>1, <1>6, <1>12, <1>13, <1>14, StepSeen
<1>16. a.args = ArgLists(mem, Running) /\ b.args = ArgLists(mem', Running')
  BY DEF FrameOf
<1>. DEFINE e(n) == sp + r - SumTo(Rooms(cs), n)
            c(n) == ParamCount[cs[n].callee]
<1>17. /\ a.args = [n \in 1 .. L |-> a.args[n]] /\ b.args = [n \in 1 .. L |-> b.args[n]]
       /\ \A n \in 1 .. L : a.args[n] = Line(mem, c(n), e(n))
       /\ \A n \in 1 .. L : b.args[n] = Line(mem', c(n), e(n))
  <2>1. /\ a.args = [n \in 1 .. L |-> a.args[n]] /\ \A n \in 1 .. L : a.args[n] = Line(mem, c(n), e(n))
    <3>1. Laid(Running) /\ Running.at.calls = cs /\ Running.sp = sp /\ Len(cs) = L
      BY <1>2
    <3>2. /\ a.args = [n \in 1 .. L |-> a.args[n]]
          /\ \A n \in 1 .. L : a.args[n] = Line(mem, ParamCount[cs[n].callee], sp + Room(cs) - SumTo(Rooms(cs), n))
      BY <1>16, <3>1, ArgsAre
    <3>. QED BY <3>2 DEF r
  <2>2. /\ b.args = [n \in 1 .. L |-> b.args[n]]
        /\ \A n \in 1 .. L : b.args[n] = Line(mem', ParamCount[ds[n].callee], sp + Room(ds) - SumTo(Rooms(ds), n))
    BY <1>4, <1>5, <1>6, <1>13, <1>16, ArgsAre
  <2>. HIDE DEF a, b
  <2>. QED BY <1>5, <2>1, <2>2
<1>18. e(L) = sp /\ c(L) = p 
       /\ \A n \in 1 .. L - 1 : e(n) \in Nat /\ e(n) >= sp + p /\ e(n) + c(n) <= sp + r /\ c(n) \in Nat /\ n \in 1 .. L
  <2>1. Laid(Running) /\ Running.at.calls = cs /\ Running.sp = sp /\ Len(cs) = L
    BY <1>2
  <2>2. c(L) = p
    BY DEF p
  <2>3. e(L) = sp
    BY <1>7, <2>1, ArgsBegin DEF r
  <2>4. ASSUME NEW n \in 1 .. L - 1 
        PROVE e(n) \in Nat /\ e(n) >= sp + p /\ e(n) + c(n) <= sp + r /\ c(n) \in Nat /\ n \in 1 .. L
    <3>1. n \in 1 .. L /\ n < L
      BY <1>7
    <3>2. c(n) \in Nat
      BY <1>2, <3>1, RoomsAre
    <3>3. e(n) \in Nat /\ e(n) >= sp + p /\ e(n) + c(n) <= sp + r
      BY <2>1, <3>1, ArgsBegin DEF r, p
    <3>. QED BY <3>1, <3>2, <3>3
  <2>. QED BY <2>2, <2>3, <2>4
<1>. HIDE DEF e, c, a, b, L
<1>19. ASSUME NEW n \in 1 .. L - 1 PROVE b.args[n] = a.args[n]
  <2>. DEFINE x == e(n)
              y == c(n)
  <2>1. x \in Nat /\ x >= sp + p /\ y \in Nat /\ x + y <= sp + r
    BY <1>18
  <2>. HIDE DEF x, y
  <2>2. ASSUME NEW k \in 1 .. y PROVE mem'[x + k] = mem[x + k]
    <3>1. x + k # w0 /\ x + k \in 0 .. StackTop
      BY <1>2, <1>7, <1>10, <2>1
    <3>. QED BY <1>11, <3>1 DEF Words
  <2>3. Line(mem', y, x) = Line(mem, y, x)
    BY <2>2, SameLine
  <2>. QED BY <1>17, <1>18, <2>3 DEF x, y
<1>20. q + 1 \in 1 .. p /\ a.args[L] = [k \in 1 .. p |-> a.args[L][k]]
       /\ b.args[L] = [a.args[L] EXCEPT ![q + 1] = v]
  <2>1. a.args[L] = Line(mem, p, sp) /\ b.args[L] = Line(mem', p, sp)
    BY <1>7, <1>17, <1>18
  <2>2. q + 1 \in 1 .. p
    BY <1>1, <1>7
  <2>3. ASSUME NEW k \in 1 .. p PROVE mem'[sp + k] = IF k = q + 1 THEN v ELSE mem[sp + k]
    <3>1. sp + k \in 0 .. StackTop /\ (sp + k = w0 <=> k = q + 1)
      BY <1>2, <1>7, <1>8, <1>9
    <3>. QED BY <1>11, <3>1 DEF Words
  <2>4. /\ a.args[L] = [k \in 1 .. p |-> mem[sp + k]]
        /\ b.args[L] = [k \in 1 .. p |-> mem'[sp + k]]
    BY <2>1 DEF Line
  <2>. DEFINE x == a.args[L]
              y == b.args[L]
  <2>5. x = [k \in 1 .. p |-> x[k]] /\ y = [k \in 1 .. p |-> y[k]]
        /\ \A k \in 1 .. p : y[k] = IF k = q + 1 THEN v ELSE x[k]
    BY <2>3, <2>4
  <2>. HIDE DEF x, y
  <2>6. y = [x EXCEPT ![q + 1] = v]
    BY <2>2, <2>5
  <2>. QED BY <2>2, <2>5, <2>6 DEF x, y
<1>21. b.args = [a.args EXCEPT ![L] = [a.args[L] EXCEPT ![q + 1] = v]]
  <2>1. ASSUME NEW n \in 1 .. L
        PROVE  b.args[n] = IF n = L THEN [a.args[L] EXCEPT ![q + 1] = v] ELSE a.args[n]
    <3>1. n = L \/ n \in 1 .. L - 1
      BY <1>7
    <3>. QED BY <1>19, <1>20, <3>1
  <2>. QED BY <1>17, <2>1
<1>22. Len(a.args) = L /\ a.args # <<>> /\ q + 1 \in DOMAIN a.args[L] /\ L \in DOMAIN a.args
  <2>1. IsList(a.args) /\ Len(a.args) = L
    BY <1>7, <1>17, ListOf
  <2>2. a.args # <<>>
    BY <1>7, <2>1, EmptyList
  <2>. QED BY <1>7, <1>17, <1>20, <2>1, <2>2
<1>23. b.at = PassedOne(a.at)
  BY <1>1, <1>2, <1>4 DEF a, b, FrameOf, PassedOne, At, q, L, ds, OneMore
<1>24. b = [a EXCEPT !.at = PassedOne(a.at), !.args[Len(a.args)][q + 1] = v]
  <2>. DEFINE here == PassedOne(a.at)
              args == [a.args EXCEPT ![L] = [a.args[L] EXCEPT ![q + 1] = v]]
              c1 == [a EXCEPT !.at = here]
  <2>1. b.locals = a.locals
    <3>1. LocalWords(mem', Running') = LocalWords(mem', Running)
      BY <1>2, <1>4, <1>6 DEF LocalWords
    <3>2. \A w \in Running.fp - FrameSize(Running.at.func) .. Running.fp - FirstOffset - 1 : mem'[w] = mem[w]
      <4>1. ASSUME NEW w \in fp - z .. fp - FirstOffset - 1 PROVE mem'[w] = mem[w]
        <5>1. w # w0 /\ w \in 0 .. StackTop
          BY <1>2, <1>9, <1>10
        <5>. QED BY <1>11, <5>1 DEF Words
      <4>. QED BY <1>2, <4>1 DEF z
    <3>3. Laid(Running)
      BY <1>2
    <3>. QED BY <3>1, <3>2, <3>3, SameLocals DEF a, b, FrameOf
  <2>2. a = [at |-> a.at, saved |-> saved, params |-> a.params, locals |-> a.locals, args |-> a.args]
    BY <1>2 DEF a, FrameOf
  <2>3. b = [at |-> b.at, saved |-> saved, params |-> b.params, locals |-> b.locals, args |-> b.args]
    BY <1>4 DEF b, FrameOf
  <2>4. b = [at |-> here, saved |-> saved, params |-> a.params, locals |-> a.locals, args |-> args]
    BY <1>15, <1>21, <1>23, <2>1, <2>3
  <2>. HIDE DEF here, args
  <2>5. c1 = [at |-> here, saved |-> saved, params |-> a.params, locals |-> a.locals, args |-> a.args]
    BY <2>2
  <2>6. c1.args = a.args
    BY <2>5
  <2>7. b = [c1 EXCEPT !.args = args]
    <3>. HIDE DEF c1
    <3>. QED BY <2>4, <2>5
  <2>8. b = [c1 EXCEPT !.args[L][q + 1] = v]
    <3>. HIDE DEF c1
    <3>. QED BY <2>6, <2>7 DEF args
  <2>. QED BY <1>22, <2>8 DEF here
<1>25. NextSlot(a.at) = q + 1
  BY <1>2 DEF a, FrameOf, NextSlot, q, L, ds
<1>26. Calls!Pass
  BY <1>15, <1>22, <1>24, <1>25 DEF Calls!Pass, Calls!top, Calls!Replace, Calls!Below
<1>. QED BY <1>15, <1>26 DEF Calls!NextFrames

\* What the prologue stores: the link, the frame pointer and the saved registers
\* under the stack pointer.
LEMMA PrologueStores ==
    ASSUME FrameInv, pc # Restart, NEW g \in Functions, NEW link, Prologue(g, link)
    PROVE  /\ mem' = [w \in Words |-> mem'[w]] /\ saved' = saved /\ fp' = sp - 1
           /\ sp' = sp - 2 - FrameSize(g) /\ pc' = [func |-> g, calls |-> <<>>]
           /\ sp' \in Nat /\ fp' \in Nat /\ sp' + FrameSize(g) + 1 = fp' /\ sp \in Words
           /\ \A w \in Words : w > sp => mem'[w] = mem[w]
           /\ mem'[sp].pos = link /\ mem'[sp - 1].num = fp
           /\ RestoreAll(mem', sp - 1) = saved
<1>. DEFINE z == FrameSize(g)
            m1 == [mem EXCEPT ![sp] = Position(link)]
            m2 == [m1 EXCEPT ![sp - 1] = Number(fp)]
            f == sp - 1
<1>1. /\ sp - 2 - z \in Words /\ fp' = f /\ sp' = sp - 2 - z /\ pc' = [func |-> g, calls |-> <<>>]
      /\ saved' = saved /\ mem' = SaveAll(m2, f)
  BY DEF Prologue, Write, At
<1>2. /\ fp \in Nat /\ sp \in Nat /\ StackTop \in Nat /\ fp < StackTop /\ sp < fp
      /\ mem = [w \in Words |-> mem[w]] /\ saved = [r \in SavedSet |-> saved[r]]
  <2>. DEFINE y == Room(pc.calls)
              s == FrameSize(pc.func)
  <2>1. y \in Nat /\ s \in Nat /\ sp + y + s + 1 = fp /\ sp \in Nat /\ fp \in Nat
    BY RunningIs
  <2>. HIDE DEF y, s
  <2>2. sp < fp
    BY <2>1
  <2>. QED BY <2>2, RunningIs
<1>3. z \in Nat /\ FirstOffset \in Nat /\ FirstOffset <= z /\ DOMAIN SavedRegs = 1 .. FirstOffset
  <2>1. DOMAIN SavedRegs = 1 .. FirstOffset
    BY FramesAssumption, LenProperties DEF FirstOffset
  <2>. QED BY <2>1, SizesAre
<1>. HIDE DEF z
<1>4. sp \in Words /\ sp - 1 \in Words /\ f \in Nat /\ sp' \in Nat /\ sp' + z + 1 = f /\ z < f
  <2>1. sp - 2 - z \in 0 .. StackTop
    BY <1>1 DEF Words
  <2>. QED BY <1>1, <1>2, <1>3, <2>1 DEF Words
<1>5. m2 = [w \in Words |-> IF w = f THEN Number(fp) ELSE IF w = sp THEN Position(link) ELSE mem[w]]
  <2>1. m1 = [w \in Words |-> IF w = sp THEN Position(link) ELSE mem[w]]
    BY <1>2, <1>4
  <2>. HIDE DEF m1
  <2>. QED BY <1>4, <2>1
<1>. HIDE DEF m2, m1
<1>6. mem' = [w \in Words |-> IF f - w \in 1 .. FirstOffset THEN saved[SavedRegs[f - w]] ELSE m2[w]]
  BY <1>1, <1>3 DEF SaveAll
<1>7. \A w \in Words : w > sp => mem'[w] = mem[w]
  <2>1. ASSUME NEW w \in Words, w > sp PROVE f - w \notin 1 .. FirstOffset /\ w # f /\ w # sp
    BY <1>2, <1>3, <2>1 DEF Words
  <2>. QED BY <1>5, <1>6, <2>1
<1>8. mem'[sp] = Position(link) /\ mem'[f] = Number(fp)
  <2>1. f - sp \notin 1 .. FirstOffset /\ f - f \notin 1 .. FirstOffset /\ f # sp
    BY <1>2, <1>3
  <2>. QED BY <1>4, <1>5, <1>6, <2>1
<1>9. RestoreAll(mem', f) = saved
  <2>. DEFINE at(r) == CHOOSE k \in DOMAIN SavedRegs : SavedRegs[k] = r
  <2>1. ASSUME NEW r \in SavedSet PROVE mem'[SavedAddress(f, at(r))] = saved[r]
    <3>1. at(r) \in DOMAIN SavedRegs /\ SavedRegs[at(r)] = r
      BY DEF SavedSet
    <3>. HIDE DEF at
    <3>2. SavedAddress(f, at(r)) = f - at(r)
      BY <1>3, <1>4, <3>1 DEF SavedAddress
    <3>3. at(r) \in 1 .. FirstOffset /\ at(r) \in Int
      BY <1>3, <3>1
    <3>4. f - at(r) \in Words /\ f - (f - at(r)) = at(r)
      <4>1. f \in Nat /\ f <= StackTop /\ f - at(r) >= 0 /\ f - (f - at(r)) = at(r)
        <5>. DEFINE y == at(r)
        <5>1. /\ f \in Nat /\ sp' \in Nat /\ sp' + z + 1 = f /\ sp < fp /\ fp < StackTop /\ StackTop \in Nat
              /\ sp \in Nat /\ fp \in Nat /\ z \in Nat /\ FirstOffset <= z /\ FirstOffset \in Nat
              /\ y \in 1 .. FirstOffset /\ f = sp - 1
          BY <1>2, <1>3, <1>4, <3>3
        <5>. HIDE DEF y, f
        <5>2. f \in Nat /\ f <= StackTop
          BY <5>1
        <5>4. f > z
          BY <1>4
        <5>5. z >= y /\ y \in Nat /\ z \in Nat
          BY <5>1
        <5>3. f - y >= 0 /\ f - (f - y) = y
          BY <5>2, <5>4, <5>5
        <5>. QED BY <5>2, <5>3 DEF y
      <4>. QED BY <1>2, <3>3, <4>1 DEF Words
    <3>. QED BY <1>6, <3>1, <3>2, <3>3, <3>4
  <2>2. RestoreAll(mem', f) = [r \in SavedSet |-> mem'[SavedAddress(f, at(r))]]
    BY DEF RestoreAll
  <2>. HIDE DEF at
  <2>. QED BY <1>2, <2>1, <2>2
<1>10. mem' = [w \in Words |-> mem'[w]]
  BY <1>6
<1>11. mem'[sp].pos = link /\ mem'[sp - 1].num = fp
  BY <1>8 DEF Position, Number
<1>. QED BY <1>1, <1>4, <1>7, <1>9, <1>10, <1>11 DEF z

\* The activation after a call, below the others.
LEMMA JalStacks ==
    ASSUME FrameInv, pc # Restart, Jal, NEW acts, StackOf(mem, sp, fp, saved, pc, acts)
    PROVE  LET bs == Append(acts, Running')
               L == Len(acts)
           IN /\ StackOf(mem', sp', fp', saved', pc', bs) /\ Len(bs) = L + 1
              /\ \A k \in 1 .. L : bs[k] = acts[k] /\ FrameOf(mem', acts[k]) = FrameOf(mem, acts[k])
<1>. DEFINE bs == Append(acts, Running')
            L == Len(acts)
            cs == pc.calls
            g == cs[Len(cs)].callee
            z == FrameSize(g)
<1>1. Len(cs) > 0 /\ Prologue(g, pc)
  BY DEF Jal, depth, calls
<1>2. Pending(cs) /\ Len(cs) \in 1 .. Len(cs) /\ g \in Functions
  <2>1. Pending(cs) /\ Len(cs) \in Nat
    BY RunningIs, RoomsAre
  <2>2. Len(cs) \in 1 .. Len(cs)
    BY <1>1, <2>1
  <2>. QED BY <2>1, <2>2 DEF Pending
<1>3. /\ mem' = [w \in Words |-> mem'[w]] /\ saved' = saved /\ fp' = sp - 1
      /\ sp' = sp - 2 - z /\ pc' = [func |-> g, calls |-> <<>>]
      /\ sp' \in Nat /\ fp' \in Nat /\ sp' + z + 1 = fp' /\ sp \in Words
      /\ \A w \in Words : w > sp => mem'[w] = mem[w]
      /\ mem'[sp].pos = pc /\ mem'[sp - 1].num = fp
      /\ RestoreAll(mem', sp - 1) = saved
  <2>. HIDE DEF g, cs
  <2>. QED BY <1>1, <1>2, PrologueStores
<1>4. Running' = [fp |-> fp', at |-> pc', sp |-> sp', saved |-> saved']
  BY DEF Running
<1>5. Stacked(mem, acts) /\ Nesting(acts) /\ L \in Nat /\ L > 0 /\ acts[L] = Running /\ IsList(acts)
  BY OneBelowTheOther DEF StackOf, Stacked, Running
<1>6. /\ Laid(Running) /\ Running.fp = fp /\ Running.at = pc /\ Running.sp = sp /\ Running.saved = saved
      /\ fp \in Nat /\ sp \in Nat /\ StackTop \in Nat /\ FirstOffset \in Nat /\ sp < fp - FirstOffset /\ fp < StackTop
  <2>. DEFINE y == Room(cs)
              s == FrameSize(pc.func)
  <2>1. /\ Laid(Running) /\ Running.fp = fp /\ Running.at = pc /\ Running.sp = sp /\ Running.saved = saved
        /\ y \in Nat /\ s \in Nat /\ sp + y + s + 1 = fp /\ sp \in Nat /\ fp \in Nat /\ StackTop \in Nat
        /\ FirstOffset \in Nat /\ FirstOffset <= s /\ fp < StackTop
    BY RunningIs
  <2>. HIDE DEF y, s
  <2>2. sp < fp - FirstOffset
    BY <2>1
  <2>. QED BY <2>1, <2>2
<1>. HIDE DEF Running
<1>7. /\ IsList(bs) /\ Len(bs) = L + 1 /\ bs[L + 1] = Running' /\ \A k \in 1 .. L : bs[k] = acts[k]
  BY <1>5, ListAppend
<1>8. \A w \in Words : w >= acts[L].fp - FirstOffset => mem'[w] = mem[w]
  <2>1. ASSUME NEW w \in Words, w >= fp - FirstOffset PROVE w > sp
    BY <1>6, <2>1 DEF Words
  <2>. QED BY <1>3, <1>5, <1>6, <2>1
<1>9. /\ Stacked(mem', acts)
      /\ \A k \in 1 .. L - 1 : FrameOf(mem', acts[k]) = FrameOf(mem, acts[k])
      /\ FrameOf(mem', Running).params = FrameOf(mem, Running).params
  BY <1>5, <1>8, HigherUntouched
<1>. HIDE DEF bs
<1>10. Stacked(mem', bs)
  <2>1. mem'[bs[1].fp + 1].pos = Restart
    BY <1>5, <1>7, <1>9 DEF Stacked
  <2>2. ASSUME NEW k \in 1 .. L
        PROVE  mem'[bs[k + 1].fp + 1].pos # Restart /\ bs[k] = Suspended(mem', bs[k + 1].fp)
    <3>1. CASE k = L
      <4>1. bs[k + 1].fp = sp - 1 /\ (sp - 1) + 1 = sp
        BY <1>3, <1>4, <1>6, <1>7, <3>1
      <4>2. Suspended(mem', sp - 1) = [fp |-> fp, at |-> pc, sp |-> sp, saved |-> saved]
        BY <1>3, <4>1 DEF Suspended
      <4>. QED BY <1>3, <1>5, <1>7, <3>1, <4>1, <4>2 DEF Running
    <3>2. CASE k # L
      <4>1. k \in 1 .. L - 1 /\ k + 1 \in 1 .. L
        BY <1>5, <3>2
      <4>2. mem'[acts[k + 1].fp + 1].pos # Restart /\ acts[k] = Suspended(mem', acts[k + 1].fp)
        BY <1>9, <4>1 DEF Stacked
      <4>. QED BY <1>7, <4>1, <4>2
    <3>. QED BY <3>1, <3>2
  <2>3. Len(bs) - 1 = L /\ Len(bs) > 0
    BY <1>5, <1>7
  <2>. QED BY <1>7, <2>1, <2>2, <2>3 DEF Stacked
<1>11. Laid(Running')
  <2>1. Pending(<<>>) /\ Room(<<>>) = 0
    BY EmptyList, SumZero DEF Pending, Room
  <2>2. /\ Running'.fp = fp' /\ Running'.at = pc' /\ Running'.sp = sp' /\ Running'.saved = saved'
        /\ pc'.func = g /\ pc'.calls = <<>>
    BY <1>3, <1>4
  <2>3. sp' + Room(pc'.calls) + z + 1 = fp'
    BY <1>3, <2>1, <2>2
  <2>. HIDE DEF g
  <2>. QED BY <1>2, <1>3, <1>4, <2>1, <2>2, <2>3 DEF Laid
<1>12. Nesting(bs)
  <2>1. bs[1].at.func = Main
    BY <1>5, <1>7 DEF Nesting
  <2>2. ASSUME NEW k \in 1 .. L + 1 PROVE Laid(bs[k]) /\ bs[k].fp + k <= StackTop
    <3>1. CASE k = L + 1
      <4>1. bs[k] = Running' /\ Running'.fp = sp - 1
        BY <1>3, <1>4, <1>7, <3>1
      <4>2. fp + L <= StackTop
        BY <1>5, <1>6 DEF Nesting
      <4>3. (sp - 1) + (L + 1) <= StackTop
        BY <1>5, <1>6, <4>2
      <4>. QED BY <1>11, <3>1, <4>1, <4>3
    <3>2. CASE k # L + 1
      <4>1. k \in 1 .. L
        BY <1>5, <3>2
      <4>2. Laid(acts[k]) /\ acts[k].fp + k <= StackTop
        BY <1>5, <4>1 DEF Nesting
      <4>. QED BY <1>7, <4>1, <4>2
    <3>. QED BY <3>1, <3>2
  <2>3. ASSUME NEW k \in 1 .. L
        PROVE  /\ Len(bs[k].at.calls) > 0
               /\ bs[k + 1].at.func = bs[k].at.calls[Len(bs[k].at.calls)].callee
    <3>1. CASE k = L
      <4>1. bs[k + 1].at.func = g /\ bs[k].at.calls = cs
        BY <1>3, <1>4, <1>5, <1>6, <1>7, <3>1
      <4>. QED BY <1>1, <4>1
    <3>2. CASE k # L
      <4>1. k \in 1 .. L - 1 /\ k + 1 \in 1 .. L
        BY <1>5, <3>2
      <4>2. /\ Len(acts[k].at.calls) > 0
            /\ acts[k + 1].at.func = acts[k].at.calls[Len(acts[k].at.calls)].callee
        BY <1>5, <4>1 DEF Nesting
      <4>3. bs[k] = acts[k] /\ bs[k + 1] = acts[k + 1]
        BY <1>7, <4>1
      <4>. QED BY <4>2, <4>3
    <3>. QED BY <3>1, <3>2
  <2>4. Len(bs) - 1 = L
    BY <1>5, <1>7
  <2>. QED BY <1>7, <2>1, <2>2, <2>3, <2>4 DEF Nesting
<1>13. StackOf(mem', sp', fp', saved', pc', bs)
  BY <1>4, <1>7, <1>10, <1>12 DEF StackOf
<1>14. FrameOf(mem', Running) = FrameOf(mem, Running)
  <2>1. \A w \in Running.sp + 1 .. Running.fp - FirstOffset - 1 : mem'[w] = mem[w]
    <3>1. ASSUME NEW w \in sp + 1 .. fp - FirstOffset - 1 PROVE mem'[w] = mem[w]
      <4>1. w \in Words /\ w > sp
        BY <1>6 DEF Words
      <4>. QED BY <1>3, <4>1
    <3>. QED BY <1>6, <3>1
  <2>2. \A w \in Running.fp + 2 .. Running.fp + 1 + ParamCount[Running.at.func] : mem'[w] = mem[w]
    <3>. DEFINE p == ParamCount[Running.at.func]
    <3>1. p \in Nat /\ fp + 1 + p <= StackTop
      BY <1>5, <1>6, ParamsLie
    <3>. HIDE DEF p
    <3>2. ASSUME NEW w \in fp + 2 .. fp + 1 + p PROVE mem'[w] = mem[w]
      <4>1. w \in Words /\ w > sp
        BY <1>6, <3>1 DEF Words
      <4>. QED BY <1>3, <4>1
    <3>. QED BY <1>6, <3>2 DEF p
  <2>3. Laid(Running)
    BY <1>6
  <2>. QED BY <2>1, <2>2, <2>3, SameFrame
<1>15. \A k \in 1 .. L : bs[k] = acts[k] /\ FrameOf(mem', acts[k]) = FrameOf(mem, acts[k])
  <2>1. ASSUME NEW k \in 1 .. L PROVE k = L \/ k \in 1 .. L - 1
    BY <1>5
  <2>. QED BY <1>5, <1>7, <1>9, <1>14, <2>1
<1>. QED BY <1>7, <1>13, <1>15 DEF bs

LEMMA JalStep ==
    ASSUME FrameInv, pc # Restart, Jal, pc' # Restart, frames' = View(mem', sp', fp', saved', pc')
    PROVE  FrameInv' /\ Calls!NextFrames
<1>1. PICK acts : StackOf(mem, sp, fp, saved, pc, acts)
  BY DEF FrameInv
<1>. DEFINE bs == Append(acts, Running')
            L == Len(acts)
            cs == pc.calls
            D == Len(cs)
            g == cs[D].callee
            p == ParamCount[g]
            a == FrameOf(mem, Running)
            b == FrameOf(mem', Running')
<1>2. D > 0 /\ Prologue(g, pc)
  BY DEF Jal, depth, calls
<1>3. Pending(cs) /\ D \in Nat /\ D \in 1 .. D /\ g \in Functions /\ Laid(Running) /\ p \in Nat
      /\ Running.at = pc /\ Running.sp = sp
  <2>1. Pending(cs) /\ D \in Nat /\ Laid(Running) /\ Running.at = pc /\ Running.sp = sp
    BY RunningIs, RoomsAre
  <2>2. D \in 1 .. D
    BY <1>2, <2>1
  <2>3. g \in Functions
    BY <2>1, <2>2 DEF Pending
  <2>. QED BY <2>1, <2>2, <2>3, FramesAssumption
<1>4. /\ mem' = [w \in Words |-> mem'[w]] /\ saved' = saved /\ fp' = sp - 1
      /\ pc' = [func |-> g, calls |-> <<>>] /\ sp \in Words
      /\ \A w \in Words : w > sp => mem'[w] = mem[w]
  <2>. HIDE DEF g, cs
  <2>. QED BY <1>2, <1>3, PrologueStores
<1>5. saved = [r \in SavedSet |-> saved[r]] /\ fp \in Nat /\ sp \in Nat /\ fp < StackTop /\ StackTop \in Nat
  BY RunningIs
<1>6. /\ StackOf(mem', sp', fp', saved', pc', bs) /\ Len(bs) = L + 1
      /\ \A k \in 1 .. L : bs[k] = acts[k] /\ FrameOf(mem', acts[k]) = FrameOf(mem, acts[k])
  BY <1>1, JalStacks
<1>. HIDE DEF bs
<1>7. FrameInv'
  BY <1>4, <1>5, <1>6 DEF FrameInv
<1>8. /\ Running' = [fp |-> fp', at |-> pc', sp |-> sp', saved |-> saved']
      /\ acts[L] = Running /\ bs[L + 1] = Running'
  BY <1>1, <1>6 DEF StackOf, Running
<1>9. L \in Nat /\ L > 0 /\ L + 1 \in Nat
  BY <1>1, OneBelowTheOther DEF StackOf, Stacked
<1>10. /\ frames = [k \in 1 .. L |-> FrameOf(mem, acts[k])]
       /\ frames' = [k \in 1 .. L + 1 |-> FrameOf(mem', bs[k])]
  <2>1. frames = [k \in 1 .. L |-> FrameOf(mem, acts[k])]
    BY <1>1, StackIsSeen DEF FrameInv
  <2>2. frames' = [k \in 1 .. L + 1 |-> FrameOf(mem', bs[k])]
    BY <1>6, StackIsSeen
  <2>. QED BY <2>1, <2>2
<1>. HIDE DEF Running, L
<1>11. /\ IsList(frames) /\ Len(frames) = L /\ IsList(frames') /\ Len(frames') = L + 1
       /\ frames[L] = a /\ frames'[L + 1] = b
  <2>1. frames = [k \in 1 .. L |-> frames[k]] /\ frames' = [k \in 1 .. L + 1 |-> frames'[k]]
    BY <1>10
  <2>2. frames[L] = a /\ frames'[L + 1] = b
    BY <1>8, <1>9, <1>10
  <2>. QED BY <1>9, <2>1, <2>2, ListOf
<1>12. SubSeq(frames', 1, Len(frames)) = frames
  <2>. DEFINE x == SubSeq(frames', 1, L)
  <2>1. IsList(x) /\ Len(x) = L /\ \A k \in 1 .. L : x[k] = frames'[k]
    BY <1>9, <1>11, ListFront
  <2>2. \A k \in 1 .. L : frames'[k] = frames[k]
    <3>1. ASSUME NEW k \in 1 .. L PROVE frames'[k] = frames[k]
      <4>1. k \in 1 .. L + 1
        BY <1>9
      <4>. QED BY <1>6, <1>10, <4>1
    <3>. QED BY <3>1
  <2>. HIDE DEF x
  <2>3. \A k \in 1 .. L : x[k] = frames[k]
    BY <2>1, <2>2
  <2>4. x = frames
    BY <1>11, <2>1, <2>3, SameLists
  <2>. QED BY <1>11, <2>4 DEF x
<1>13. a.args = ArgLists(mem, Running) /\ b.args = ArgLists(mem', Running')
  BY DEF FrameOf
<1>14. IsList(a.args) /\ Len(a.args) = D /\ a.args[D] = Line(mem, p, sp)
  <2>1. /\ a.args = [n \in 1 .. D |-> a.args[n]]
        /\ a.args[D] = Line(mem, p, sp + Room(cs) - SumTo(Rooms(cs), D))
    BY <1>3, <1>13, ArgsAre
  <2>2. sp + Room(cs) - SumTo(Rooms(cs), D) = sp
    BY <1>3, ArgsBegin
  <2>3. IsList(a.args) /\ Len(a.args) = D
    BY <1>3, <2>1, ListOf
  <2>. QED BY <2>1, <2>2, <2>3
<1>15. b.params = a.args[D]
  <2>1. b.params = [i \in 1 .. p |-> mem'[ParamAddress(fp', i)]]
    BY <1>4, <1>8 DEF FrameOf
  <2>2. a.args[D] = [k \in 1 .. p |-> mem[sp + k]]
    BY <1>14 DEF Line
  <2>3. ASSUME NEW i \in 1 .. p PROVE mem'[ParamAddress(fp', i)] = mem[sp + i]
    <3>1. ParamAddress(fp', i) = sp + i
      BY <1>3, <1>4, <1>5 DEF ParamAddress
    <3>2. sp + i \in Words /\ sp + i > sp
      <4>1. Stacked(mem', bs) /\ Nesting(bs) /\ L + 1 \in 1 .. Len(bs)
        BY <1>6, <1>9 DEF StackOf
      <4>2. bs[L + 1].fp = fp' /\ bs[L + 1].at.func = g
        BY <1>4, <1>8
      <4>3. fp' + 1 + p <= StackTop
        BY <4>1, <4>2, ParamsLie
      <4>. HIDE DEF p
      <4>4. sp + i \in 0 .. StackTop /\ sp + i > sp
        BY <1>3, <1>4, <1>5, <4>3
      <4>. QED BY <4>4 DEF Words
    <3>. QED BY <1>4, <3>1, <3>2
  <2>. HIDE DEF b, a, p
  <2>. QED BY <2>1, <2>2, <2>3
<1>16. b.at = Started(a.at) /\ b.saved = a.saved
  BY <1>3, <1>4, <1>8, RunningIs DEF FrameOf, Started, At
<1>17. b.args = <<>>
  <2>1. pc'.calls = <<>> /\ Running'.at = pc' /\ DOMAIN <<>> = {} /\ Len(<<>>) = 0 /\ 0 \in Nat
    BY <1>4, <1>8
  <2>2. b.args = [n \in 1 .. 0 |-> b.args[n]]
    BY <1>13, <2>1 DEF ArgLists
  <2>. HIDE DEF b
  <2>3. IsList(b.args) /\ Len(b.args) = 0
    BY <2>1, <2>2, ListOf
  <2>. QED BY <2>3, EmptyList, SameLists
<1>18. a.args # <<>>
  BY <1>2, <1>14, EmptyList
<1>. HIDE DEF a, b
<1>19. Calls!Call
  BY <1>11, <1>12, <1>14, <1>15, <1>16, <1>17, <1>18 DEF Calls!Call, Calls!top
<1>. QED BY <1>7, <1>19 DEF Calls!NextFrames

\* The innermost call is over.
LEMMA PendingLess ==
    ASSUME NEW cs, Pending(cs), Len(cs) > 0
    PROVE  LET n == Len(cs) - 1
               ds == SubSeq(cs, 1, n)
           IN /\ n \in Nat /\ n + 1 = Len(cs)
              /\ Pending(ds) /\ Len(ds) = n /\ Room(cs) = Room(ds) + ParamCount[cs[n + 1].callee]
              /\ \A k \in 1 .. n : ds[k] = cs[k] /\ SumTo(Rooms(ds), k) = SumTo(Rooms(cs), k)
<1>. DEFINE n == Len(cs) - 1
            ds == SubSeq(cs, 1, n)
<1>1. IsList(cs) /\ DOMAIN cs = 1 .. n + 1 /\ n \in Nat /\ n + 1 = Len(cs) /\ n <= Len(cs)
  BY ListShape DEF Pending
<1>. HIDE DEF n
<1>2. IsList(ds) /\ Len(ds) = n /\ \A k \in 1 .. n : ds[k] = cs[k]
  BY <1>1, ListFront
<1>. HIDE DEF ds
<1>3. DOMAIN ds = 1 .. n
  BY <1>2, ListShape
<1>4. Pending(ds)
  <2>1. ASSUME NEW k \in 1 .. n
        PROVE  /\ ds[k] = [callee |-> ds[k].callee, passed |-> ds[k].passed]
               /\ ds[k].callee \in Functions /\ ds[k].passed \in 0 .. ParamCount[ds[k].callee]
    <3>1. k \in 1 .. Len(cs)
      BY <1>1
    <3>2. /\ cs[k] = [callee |-> cs[k].callee, passed |-> cs[k].passed]
          /\ cs[k].callee \in Functions /\ cs[k].passed \in 0 .. ParamCount[cs[k].callee]
      BY <3>1 DEF Pending
    <3>. QED BY <1>2, <3>2
  <2>. QED BY <1>2, <2>1 DEF Pending
<1>5. \A k \in 1 .. n : Rooms(ds)[k] = Rooms(cs)[k]
  <2>1. ASSUME NEW k \in 1 .. n PROVE Rooms(ds)[k] = Rooms(cs)[k]
    <3>1. k \in 1 .. n + 1
      BY <1>1
    <3>. QED BY <1>1, <1>2, <1>3, <3>1 DEF Rooms
  <2>. QED BY <2>1
<1>6. ASSUME NEW k \in 0 .. n PROVE SumTo(Rooms(ds), k) = SumTo(Rooms(cs), k)
  <2>1. k \in Nat /\ \A i \in 1 .. k : Rooms(ds)[i] = Rooms(cs)[i]
    BY <1>1, <1>5
  <2>. QED BY <2>1, SumSame
<1>7. Room(cs) = Room(ds) + ParamCount[cs[n + 1].callee]
  <2>1. SumTo(Rooms(cs), n + 1) = SumTo(Rooms(cs), n) + Rooms(cs)[n + 1]
    BY <1>1, SumNext
  <2>2. Room(cs) = SumTo(Rooms(cs), n + 1) /\ Room(ds) = SumTo(Rooms(ds), n)
    BY <1>1, <1>2 DEF Room
  <2>3. Rooms(cs)[n + 1] = ParamCount[cs[n + 1].callee]
    <3>1. n + 1 \in DOMAIN cs
      BY <1>1
    <3>. QED BY <3>1 DEF Rooms
  <2>4. n \in 0 .. n
    BY <1>1
  <2>. QED BY <1>6, <2>1, <2>2, <2>3, <2>4
<1>. QED BY <1>1, <1>2, <1>4, <1>6, <1>7 DEF ds, n

\* Without the running activation the others are a stack, that of its caller.
LEMMA CallerStack ==
    ASSUME NEW mm, NEW stack, NEW frame, NEW regs, NEW here, NEW acts,
           StackOf(mm, stack, frame, regs, here, acts), here.func # Main
    PROVE  LET L == Len(acts)
               bs == SubSeq(acts, 1, L - 1)
               caller == Suspended(mm, frame)
           IN /\ L - 1 \in Nat /\ L - 1 > 0 /\ IsList(bs) /\ Len(bs) = L - 1
              /\ \A k \in 1 .. L - 1 : bs[k] = acts[k]
              /\ acts[L - 1] = caller /\ Laid(caller) /\ Len(caller.at.calls) > 0
              /\ here.func = caller.at.calls[Len(caller.at.calls)].callee
              /\ StackOf(mm, caller.sp, caller.fp, caller.saved, caller.at, bs)
<1>. DEFINE L == Len(acts)
            n == L - 1
            bs == SubSeq(acts, 1, n)
            caller == Suspended(mm, frame)
<1>1. Stacked(mm, acts) /\ Nesting(acts) /\ L \in Nat /\ L > 0 /\ IsList(acts)
      /\ acts[L] = [fp |-> frame, at |-> here, sp |-> stack, saved |-> regs]
  BY OneBelowTheOther DEF StackOf, Stacked
<1>2. acts[L].fp = frame /\ acts[L].at = here
  BY <1>1
<1>3. L # 1
  BY <1>2, <1>1 DEF Nesting
<1>. HIDE DEF L
<1>4. n \in Nat /\ n > 0 /\ n + 1 = L /\ n <= L /\ n \in 1 .. n /\ n \in 1 .. L
  BY <1>1, <1>3
<1>. HIDE DEF n
<1>5. IsList(bs) /\ Len(bs) = n /\ \A k \in 1 .. n : bs[k] = acts[k]
  BY <1>1, <1>4, ListFront DEF L
<1>. HIDE DEF bs
<1>6. acts[n] = caller /\ Len(caller.at.calls) > 0
      /\ here.func = caller.at.calls[Len(caller.at.calls)].callee
  <2>1. n \in 1 .. L - 1
    BY <1>4
  <2>2. acts[n] = Suspended(mm, acts[n + 1].fp)
    BY <1>1, <2>1 DEF Stacked, L
  <2>3. acts[n] = caller
    BY <1>2, <1>4, <2>2
  <2>4. /\ Len(acts[n].at.calls) > 0
        /\ acts[n + 1].at.func = acts[n].at.calls[Len(acts[n].at.calls)].callee
    BY <1>1, <2>1 DEF Nesting, L
  <2>5. acts[n + 1].at = here
    BY <1>2, <1>4
  <2>. HIDE DEF caller
  <2>. QED BY <2>3, <2>4, <2>5
<1>7. Laid(caller)
  BY <1>1, <1>4, <1>6 DEF Nesting, L
<1>8. Stacked(mm, bs)
  <2>1. mm[bs[1].fp + 1].pos = Restart
    <3>1. 1 \in 1 .. n
      BY <1>4
    <3>. QED BY <1>1, <1>5, <3>1 DEF Stacked
  <2>2. ASSUME NEW k \in 1 .. n - 1
        PROVE  mm[bs[k + 1].fp + 1].pos # Restart /\ bs[k] = Suspended(mm, bs[k + 1].fp)
    <3>1. k \in 1 .. n /\ k + 1 \in 1 .. n /\ k \in 1 .. L - 1
      BY <1>4
    <3>2. mm[acts[k + 1].fp + 1].pos # Restart /\ acts[k] = Suspended(mm, acts[k + 1].fp)
      BY <1>1, <3>1 DEF Stacked, L
    <3>. QED BY <1>5, <3>1, <3>2
  <2>. QED BY <1>4, <1>5, <2>1, <2>2 DEF Stacked
<1>9. Nesting(bs)
  <2>1. bs[1].at.func = Main
    <3>1. 1 \in 1 .. n
      BY <1>4
    <3>. QED BY <1>1, <1>5, <3>1 DEF Nesting
  <2>2. ASSUME NEW k \in 1 .. n PROVE Laid(bs[k]) /\ bs[k].fp + k <= StackTop
    <3>1. k \in 1 .. L
      BY <1>4
    <3>2. Laid(acts[k]) /\ acts[k].fp + k <= StackTop
      BY <1>1, <3>1 DEF Nesting, L
    <3>. QED BY <1>5, <3>2
  <2>3. ASSUME NEW k \in 1 .. n - 1
        PROVE  /\ Len(bs[k].at.calls) > 0
               /\ bs[k + 1].at.func = bs[k].at.calls[Len(bs[k].at.calls)].callee
    <3>1. k \in 1 .. n /\ k + 1 \in 1 .. n /\ k \in 1 .. L - 1
      BY <1>4
    <3>2. /\ Len(acts[k].at.calls) > 0
          /\ acts[k + 1].at.func = acts[k].at.calls[Len(acts[k].at.calls)].callee
      BY <1>1, <3>1 DEF Nesting, L
    <3>3. bs[k] = acts[k] /\ bs[k + 1] = acts[k + 1]
      BY <1>5, <3>1
    <3>. QED BY <3>2, <3>3
  <2>. QED BY <1>5, <2>1, <2>2, <2>3 DEF Nesting
<1>10. StackOf(mm, caller.sp, caller.fp, caller.saved, caller.at, bs)
  <2>1. caller = [fp |-> caller.fp, at |-> caller.at, sp |-> caller.sp, saved |-> caller.saved]
    BY DEF Suspended
  <2>2. bs[Len(bs)] = caller
    BY <1>4, <1>5, <1>6
  <2>. HIDE DEF caller
  <2>. QED BY <1>8, <1>9, <2>1, <2>2 DEF StackOf
<1>. QED BY <1>4, <1>5, <1>6, <1>7, <1>10 DEF n, L, bs

LEMMA ReturnStep ==
    ASSUME FrameInv, pc # Restart, Return, pc' # Restart, frames' = View(mem', sp', fp', saved', pc')
    PROVE  FrameInv' /\ Calls!NextFrames
<1>1. PICK acts : StackOf(mem, sp, fp, saved, pc, acts)
  BY DEF FrameInv
<1>. DEFINE caller == Suspended(mem, fp)
            cs == caller.at.calls
            D == Len(cs)
            n == D - 1
            ds == SubSeq(cs, 1, n)
            p == ParamCount[cs[D].callee]
            L == Len(acts) - 1
            bs == SubSeq(acts, 1, L)
            ebs == [bs EXCEPT ![L] = Running']
            a == FrameOf(mem, caller)
            b == FrameOf(mem, Running')
            old == View(mem, caller.sp, caller.fp, caller.saved, caller.at)
<1>2. /\ pc.func # Main /\ mem' = mem /\ fp' = caller.fp /\ saved' = caller.saved
      /\ sp' = caller.sp + p /\ pc' = [func |-> caller.at.func, calls |-> ds]
  BY DEF Return, Suspended, At, RestoredSp
<1>3. /\ mem = [w \in Words |-> mem[w]] /\ caller.saved = [r \in SavedSet |-> caller.saved[r]]
  BY RunningIs DEF Suspended, RestoreAll
<1>4. /\ L \in Nat /\ L > 0 /\ IsList(bs) /\ Len(bs) = L
      /\ \A k \in 1 .. L : bs[k] = acts[k]
      /\ acts[L] = caller /\ Laid(caller) /\ D > 0
      /\ StackOf(mem, caller.sp, caller.fp, caller.saved, caller.at, bs)
  BY <1>1, <1>2, CallerStack, SMTT(30)
<1>. HIDE DEF caller
<1>5. Pending(cs) /\ caller.sp \in Nat /\ caller.fp \in Nat /\ caller.at.func \in Functions
      /\ caller.sp + Room(cs) + FrameSize(caller.at.func) + 1 = caller.fp
  BY <1>4 DEF Laid
<1>6. /\ n \in Nat /\ n + 1 = D /\ D \in 1 .. D /\ Pending(ds) /\ Len(ds) = n /\ Room(cs) = Room(ds) + p
      /\ \A k \in 1 .. n : ds[k] = cs[k] /\ SumTo(Rooms(ds), k) = SumTo(Rooms(cs), k)
  BY <1>4, <1>5, PendingLess
<1>7. Room(cs) \in Nat /\ Room(ds) \in Nat /\ p \in Nat
  BY <1>5, <1>6, RoomsAre
<1>8. Running' = [fp |-> caller.fp, at |-> pc', sp |-> sp', saved |-> caller.saved]
  BY <1>2 DEF Running
<1>9. /\ Running'.fp = caller.fp /\ Running'.at = pc' /\ Running'.sp = sp' /\ Running'.saved = caller.saved
      /\ pc'.func = caller.at.func /\ pc'.calls = ds
  BY <1>2, <1>8
<1>. HIDE DEF Running
<1>10. Laid(Running')
  <2>. DEFINE x == Room(cs)
              y == Room(ds)
              z == FrameSize(caller.at.func)
  <2>1. z \in Nat
    BY <1>5, SizesAre
  <2>2. x = y + p /\ caller.sp + x + z + 1 = caller.fp /\ x \in Nat /\ y \in Nat /\ p \in Nat
    BY <1>5, <1>6, <1>7
  <2>. HIDE DEF x, y, z, p, ds
  <2>3. sp' + y + z + 1 = caller.fp /\ sp' \in Nat
    BY <1>2, <1>5, <2>1, <2>2
  <2>4. Running' = [fp |-> Running'.fp, at |-> Running'.at, sp |-> Running'.sp, saved |-> Running'.saved]
    BY <1>8, <1>9
  <2>5. pc' = [func |-> pc'.func, calls |-> pc'.calls]
    BY <1>2, <1>9
  <2>. QED BY <1>5, <1>6, <1>9, <2>3, <2>4, <2>5 DEF Laid, y, z
<1>. HIDE DEF L, bs, ds, n, D, p
<1>11. /\ StackOf(mem, sp', fp', saved', pc', ebs)
       /\ Len(old) = L /\ Len(frames') = L
       /\ old[L] = a /\ frames'[L] = b
       /\ frames' = Append(SubSeq(old, 1, L - 1), frames'[L])
       /\ b.params = a.params
  <2>1. caller = [fp |-> caller.fp, at |-> caller.at, sp |-> caller.sp, saved |-> caller.saved]
    BY <1>4 DEF Laid
  <2>2. frames' = View(mem, sp', caller.fp, saved', pc')
    BY <1>2
  <2>3. \A w \in Words : w >= caller.fp - FirstOffset => mem[w] = mem[w]
    OBVIOUS
  <2>4. /\ Laid([fp |-> caller.fp, at |-> pc', sp |-> sp', saved |-> saved'])
        /\ Running' = [fp |-> caller.fp, at |-> pc', sp |-> sp', saved |-> saved']
        /\ pc'.func = caller.at.func
    BY <1>2, <1>8, <1>9, <1>10
  <2>. DEFINE f == caller.fp
              here == caller.at
              s == caller.sp
              regs == caller.saved
              new == [fp |-> f, at |-> pc', sp |-> sp', saved |-> saved']
              one == [fp |-> f, at |-> here, sp |-> s, saved |-> regs]
  <2>5. /\ StackOf(mem, s, f, regs, here, bs) /\ Laid([fp |-> f, at |-> pc', sp |-> sp', saved |-> saved'])
        /\ pc'.func = here.func /\ \A w \in Words : w >= f - FirstOffset => mem[w] = mem[w]
    BY <1>4, <2>4
  <2>6. one = caller /\ new = Running' /\ Len(bs) = L
    BY <1>4, <2>1, <2>4
  <2>. HIDE DEF f, here, s, regs
  <2>7. /\ StackOf(mem, sp', f, saved', pc', [bs EXCEPT ![Len(bs)] = new])
        /\ Len(View(mem, s, f, regs, here)) = Len(bs)
        /\ Len(View(mem, sp', f, saved', pc')) = Len(bs)
        /\ View(mem, s, f, regs, here)[Len(bs)] = FrameOf(mem, one)
        /\ View(mem, sp', f, saved', pc')[Len(bs)] = FrameOf(mem, new)
        /\ View(mem, sp', f, saved', pc') = Append(SubSeq(View(mem, s, f, regs, here), 1, Len(bs) - 1),
                                                 View(mem, sp', f, saved', pc')[Len(bs)])
        /\ FrameOf(mem, new).params = FrameOf(mem, one).params
    <3>1. SeenBy(bs, mem, s, f, regs, here, mem, sp', saved', pc')
      BY <2>5, GoesOnSeen
    <3>. QED BY <3>1 DEF SeenBy
  <2>8. old = View(mem, s, f, regs, here) /\ frames' = View(mem, sp', f, saved', pc') /\ fp' = f
    BY <1>2, <2>2 DEF f, here, s, regs
  <2>. HIDE DEF old, new, one
  <2>. QED BY <2>6, <2>7, <2>8
<1>12. FrameInv'
  <2>. HIDE DEF ebs
  <2>. QED BY <1>2, <1>3, <1>11 DEF FrameInv
<1>13. /\ IsList(frames) /\ Len(frames) = L + 1 /\ frames[L] = a
       /\ SubSeq(old, 1, L - 1) = SubSeq(frames, 1, L - 1)
  <2>1. old = [k \in 1 .. L |-> FrameOf(mem, bs[k])]
    BY <1>4, StackIsSeen
  <2>2. Len(acts) = L + 1
    BY <1>1, OneBelowTheOther DEF StackOf, L
  <2>3. frames = [k \in 1 .. L + 1 |-> FrameOf(mem, acts[k])]
    BY <1>1, <2>2, StackIsSeen DEF FrameInv
  <2>. HIDE DEF old
  <2>4. old = [k \in 1 .. L |-> old[k]] /\ frames = [k \in 1 .. L + 1 |-> frames[k]] /\ L + 1 \in Nat
    BY <1>4, <2>1, <2>3
  <2>5. IsList(old) /\ IsList(frames) /\ Len(frames) = L + 1
    BY <1>4, <2>4, ListOf
  <2>6. \A k \in 1 .. L : k \in 1 .. L + 1 /\ old[k] = frames[k]
    BY <1>4, <2>1, <2>3
  <2>. DEFINE i == L - 1
              x == SubSeq(old, 1, i)
              y == SubSeq(frames, 1, i)
  <2>7. i \in Nat /\ i <= L /\ i <= L + 1 /\ L \in 1 .. L
    BY <1>4
  <2>. HIDE DEF i
  <2>8. /\ IsList(x) /\ Len(x) = i /\ \A k \in 1 .. i : x[k] = old[k]
        /\ IsList(y) /\ Len(y) = i /\ \A k \in 1 .. i : y[k] = frames[k]
    BY <1>11, <2>5, <2>7, ListFront
  <2>. HIDE DEF x, y
  <2>9. \A k \in 1 .. i : x[k] = y[k]
    BY <1>4, <2>6, <2>7, <2>8
  <2>10. x = y
    BY <2>8, <2>9, SameLists
  <2>11. frames[L] = a
    BY <1>11, <2>6, <2>7
  <2>. QED BY <2>5, <2>10, <2>11 DEF x, y, i
<1>14. a.args = ArgLists(mem, caller) /\ b.args = ArgLists(mem, Running')
  BY DEF FrameOf
<1>. DEFINE c(k) == ParamCount[cs[k].callee]
            e(k) == caller.sp + Room(cs) - SumTo(Rooms(cs), k)
<1>15. /\ IsList(a.args) /\ Len(a.args) = D /\ \A k \in 1 .. D : a.args[k] = Line(mem, c(k), e(k))
  <2>1. /\ a.args = [k \in 1 .. D |-> a.args[k]] /\ \A k \in 1 .. D : a.args[k] = Line(mem, c(k), e(k))
    BY <1>4, <1>14, ArgsAre DEF D
  <2>2. D \in Nat
    BY <1>5, RoomsAre DEF D
  <2>. HIDE DEF a, c, e
  <2>. QED BY <2>1, <2>2, ListOf
<1>16. /\ IsList(b.args) /\ Len(b.args) = n /\ \A k \in 1 .. n : b.args[k] = Line(mem, c(k), e(k))
  <2>1. Running'.at.calls = ds /\ Running'.sp = sp' /\ Len(ds) = n
    BY <1>6, <1>9
  <2>2. /\ b.args = [k \in 1 .. n |-> b.args[k]]
        /\ \A k \in 1 .. n : b.args[k] = Line(mem, ParamCount[ds[k].callee], sp' + Room(ds) - SumTo(Rooms(ds), k))
    BY <1>10, <1>14, <2>1, ArgsAre
  <2>3. ASSUME NEW k \in 1 .. n
        PROVE  ParamCount[ds[k].callee] = c(k) /\ sp' + Room(ds) - SumTo(Rooms(ds), k) = e(k)
    <3>1. ds[k] = cs[k] /\ SumTo(Rooms(ds), k) = SumTo(Rooms(cs), k)
      BY <1>6
    <3>2. k \in 1 .. D
      BY <1>6
    <3>3. SumTo(Rooms(cs), k) \in Nat
      BY <1>5, <3>2, RoomsAre DEF D
    <3>. DEFINE x == Room(cs)
                y == Room(ds)
                t == SumTo(Rooms(cs), k)
    <3>4. x = y + p /\ x \in Nat /\ y \in Nat /\ p \in Nat /\ t \in Nat
      BY <1>6, <1>7, <3>3
    <3>. HIDE DEF x, y, t
    <3>5. sp' + y - t = caller.sp + x - t
      BY <1>2, <1>5, <3>4
    <3>. QED BY <3>1, <3>5 DEF x, y, t
  <2>. HIDE DEF b, c, e
  <2>4. \A k \in 1 .. n : b.args[k] = Line(mem, c(k), e(k))
    BY <2>2, <2>3
  <2>. QED BY <1>6, <2>2, <2>4, ListOf
<1>. HIDE DEF a, b, c, e
<1>17. b.args = SubSeq(a.args, 1, n)
  <2>. DEFINE x == SubSeq(a.args, 1, n)
              y == b.args
  <2>1. IsList(x) /\ Len(x) = n /\ \A k \in 1 .. n : x[k] = a.args[k]
    BY <1>6, <1>15, ListFront
  <2>. HIDE DEF x
  <2>2. \A k \in 1 .. n : k \in 1 .. D
    BY <1>6
  <2>3. \A k \in 1 .. n : x[k] = y[k]
    BY <1>15, <1>16, <2>1, <2>2
  <2>4. IsList(y) /\ Len(y) = n
    BY <1>16
  <2>. HIDE DEF y
  <2>5. x = y
    BY <2>1, <2>3, <2>4, SameLists
  <2>. QED BY <2>5 DEF x, y
<1>18. b.at = Popped(a.at) /\ a.args # <<>> /\ Len(a.args) - 1 = n
  <2>1. b.at = pc' /\ a.at = caller.at
    BY <1>9 DEF a, b, FrameOf
  <2>2. pc' = Popped(caller.at)
    BY <1>2 DEF Popped, At, ds, n, D
  <2>3. a.args # <<>>
    BY <1>6, <1>15, EmptyList
  <2>. QED BY <1>6, <1>15, <2>1, <2>2, <2>3
<1>19. b = [a EXCEPT !.at = Popped(a.at), !.args = SubSeq(a.args, 1, n)]
  <2>. DEFINE here == Popped(a.at)
              args == SubSeq(a.args, 1, n)
              c1 == [a EXCEPT !.at = here]
  <2>1. b.locals = a.locals /\ b.saved = a.saved
    BY <1>9 DEF a, b, FrameOf, LocalWords
  <2>2. a = [at |-> a.at, saved |-> a.saved, params |-> a.params, locals |-> a.locals, args |-> a.args]
    BY DEF a, FrameOf
  <2>3. b = [at |-> b.at, saved |-> b.saved, params |-> b.params, locals |-> b.locals, args |-> b.args]
    BY DEF b, FrameOf
  <2>4. b = [at |-> here, saved |-> a.saved, params |-> a.params, locals |-> a.locals, args |-> args]
    BY <1>11, <1>17, <1>18, <2>1, <2>3 DEF a, b
  <2>. HIDE DEF here, args
  <2>5. c1 = [at |-> here, saved |-> a.saved, params |-> a.params, locals |-> a.locals, args |-> a.args]
    BY <2>2
  <2>6. b = [c1 EXCEPT !.args = args]
    <3>. HIDE DEF c1
    <3>. QED BY <2>4, <2>5
  <2>. QED BY <2>6 DEF here, args
<1>20. Calls!Return
  <2>1. Len(frames) > 1 /\ Len(frames) - 1 = L /\ Len(frames) - 2 = L - 1
    BY <1>4, <1>13
  <2>2. frames' = Append(SubSeq(frames, 1, Len(frames) - 2), b)
    BY <1>11, <1>13, <2>1 DEF b
  <2>3. frames[Len(frames) - 1] = a
    BY <1>13, <2>1
  <2>. QED BY <1>18, <1>19, <2>1, <2>2, <2>3 DEF Calls!Return
<1>. QED BY <1>12, <1>20 DEF Calls!NextFrames

LEMMA ShapesKept ==
    ASSUME FrameInv, Next
    PROVE  mem' = [w \in Words |-> mem'[w]] /\ saved' = [r \in SavedSet |-> saved'[r]]
<1>1. mem = [w \in Words |-> mem[w]] /\ saved = [r \in SavedSet |-> saved[r]]
  BY DEF FrameInv
<1>2. ASSUME NEW w, NEW v, mem' = Write(mem, w, v) PROVE mem' = [q \in Words |-> mem'[q]]
  BY <1>1, <1>2 DEF Write
<1>3. ASSUME NEW mm, NEW f, mem' = SaveAll(mm, f) PROVE mem' = [q \in Words |-> mem'[q]]
  BY <1>3 DEF SaveAll
<1>4. CASE \E i \in DOMAIN LocalSizes[pc.func], v \in Values :
              \E j \in 0 .. LocalSizes[pc.func][i] - 1 : SetLocal(i, j, v)
  <2>1. PICK i \in DOMAIN LocalSizes[pc.func], v \in Values :
              \E j \in 0 .. LocalSizes[pc.func][i] - 1 : SetLocal(i, j, v)
    BY <1>4
  <2>2. saved' = saved /\ \E w : mem' = Write(mem, w, v)
    BY <2>1 DEF SetLocal
  <2>. QED BY <1>1, <1>2, <2>2
<1>5. CASE \E r \in SavedSet, v \in Values : SetSaved(r, v)
  BY <1>1, <1>5 DEF SetSaved
<1>6. CASE \E g \in Functions : Prepare(g)
  BY <1>1, <1>6 DEF Prepare
<1>7. CASE \E v \in Values : PassArgument(v)
  <2>1. PICK v \in Values : PassArgument(v)
    BY <1>7
  <2>2. saved' = saved /\ \E w : mem' = Write(mem, w, v)
    BY <2>1 DEF PassArgument
  <2>. QED BY <1>1, <1>2, <2>2
<1>8. CASE Jal
  <2>1. saved' = saved /\ \E mm, f : mem' = SaveAll(mm, f)
    BY <1>8 DEF Jal, Prologue
  <2>. QED BY <1>1, <1>3, <2>1
<1>9. CASE Return
  <2>1. mem' = mem /\ saved' = RestoreAll(mem, fp)
    BY <1>9 DEF Return
  <2>. QED BY <1>1, <2>1 DEF RestoreAll
<1>10. CASE Exit
  BY <1>1, <1>10 DEF Exit
<1>. QED BY <1>4, <1>5, <1>6, <1>7, <1>8, <1>9, <1>10 DEF Next, Step

LEMMA FrameStep ==
    ASSUME FrameInv, Next
    PROVE  FrameInv' /\ (pc' # Restart => Calls!NextFrames)
<1>1. CASE pc' = Restart
  BY <1>1, ShapesKept DEF FrameInv
<1>2. CASE pc' # Restart
  <2>1. pc # Restart /\ Step /\ frames' = View(mem', sp', fp', saved', pc')
    BY <1>2 DEF Next
  <2>2. CASE \E i \in DOMAIN LocalSizes[pc.func], v \in Values :
                \E j \in 0 .. LocalSizes[pc.func][i] - 1 : SetLocal(i, j, v)
    BY <2>1, <2>2, SetLocalStep
  <2>3. CASE \E r \in SavedSet, v \in Values : SetSaved(r, v)
    BY <2>1, <2>3, SetSavedStep
  <2>4. CASE \E g \in Functions : Prepare(g)
    BY <1>2, <2>1, <2>4, PrepareStep
  <2>5. CASE \E v \in Values : PassArgument(v)
    BY <1>2, <2>1, <2>5, PassArgumentStep
  <2>6. CASE Jal
    BY <1>2, <2>1, <2>6, JalStep
  <2>7. CASE Return
    BY <1>2, <2>1, <2>7, ReturnStep
  <2>8. CASE Exit
    BY <1>2, <2>8 DEF Exit
  <2>. QED BY <2>1, <2>2, <2>3, <2>4, <2>5, <2>6, <2>7, <2>8 DEF Step
<1>. QED BY <1>1, <1>2

LEMMA FrameStutters == ASSUME FrameInv, UNCHANGED vars PROVE FrameInv'
<1>1. mem' = mem /\ sp' = sp /\ fp' = fp /\ saved' = saved /\ pc' = pc /\ frames' = frames
  BY DEF vars
<1>. QED BY <1>1 DEF FrameInv

\* No word of the stack has two uses: the locals, the saved registers, the link
\* and the arguments of every activation, the suspended ones included, are
\* apart, whatever is declared and called (ARSystem::addVariable, prologue and
\* genFunctionCall, each of which computes its own part of the layout).
THEOREM ActivationsApart == TargetSpec => []FramesApart
<1>1. Start => FrameInv
  BY FirstStack DEF Start
<1>2. FrameInv /\ [Run]_allVars => FrameInv'
  <2>1. ASSUME FrameInv, [Run]_allVars PROVE Next \/ UNCHANGED vars
    BY <2>1 DEF Run, allVars
  <2>. QED BY <2>1, FrameStep, FrameStutters
<1>3. FrameInv => FramesApart
  BY InvApart
<1>. QED BY <1>1, <1>2, <1>3, PTL DEF TargetSpec

\* Running on the stack is calling: every step of the emitted text is a call, a
\* return, an assignment or nothing at all to the callers' locals, parameters
\* and callee-saved registers, which a call never changes (prologue, epilogue
\* and genFunctionCall against the abstract CallStack).
THEOREM CallsAreKept == TargetSpec => ImplementsCallStack
<1>1. Start => FrameInv
  BY FirstStack DEF Start
<1>2. FrameInv /\ [Run]_allVars => FrameInv'
  <2>1. ASSUME FrameInv, [Run]_allVars PROVE Next \/ UNCHANGED vars
    BY <2>1 DEF Run, allVars
  <2>. QED BY <2>1, FrameStep, FrameStutters
<1>3. FrameInv /\ [Run]_allVars => [pc' # Restart => Calls!NextFrames]_vars
  <2>1. ASSUME FrameInv, [Run]_allVars PROVE Next \/ UNCHANGED vars
    BY <2>1 DEF Run, allVars
  <2>. QED BY <2>1, FrameStep
<1>. QED BY <1>1, <1>2, <1>3, PTL DEF TargetSpec, ImplementsCallStack
=============================================================================
