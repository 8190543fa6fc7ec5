----------------------------- MODULE SpimMemory -----------------------------
(***************************************************************************)
(* The segments of spim's memory (CPU/mem.c): text, data that sbrk         *)
(* extends, and a stack that accesses below it extend.  A segment is an    *)
(* array of bytes that moves when it grows; text is an array of            *)
(* instructions, each with the bytes of its word.  Kernel segments,        *)
(* which are as the user's, and memory-mapped devices are not in it.       *)
(***************************************************************************)
EXTENDS Integers, Sequences, FiniteSets

CONSTANTS
    TextBot, TextWords,                 \* the text segment
    DataBot, DataSize, DataLimit,       \* first size and limit of data
    StackTop, StackSize, StackLimit,    \* the same of the stack
    Below,                              \* how far below an access extends it (16 MB)
    MaxStores, Breaks                      \* bounds: stores, and what sbrk is asked for

ASSUME MemoryAssumption ==
    /\ {TextBot, TextWords, DataBot, DataLimit, StackTop, StackLimit, Below, MaxStores} \subseteq Nat
    /\ DataSize \in 0 .. DataLimit /\ StackSize \in 1 .. StackLimit /\ Breaks \subseteq Int
    /\ DataSize % 4 = 0 /\ StackSize % 4 = 0
    /\ DataBot > TextBot + 4 * TextWords /\ StackTop - StackLimit > DataBot + DataLimit
    /\ TextBot % 4 = 0 /\ DataBot % 4 = 0 /\ StackTop % 4 = 0

VARIABLES
    text,           \* text_seg: tuples of four bytes, or Empty
    data, stack,    \* data_seg and stack_seg, arrays from 0
    fault,          \* what the last access raised, or "none"
    written,        \* ghost: what each address was stored last
    stores          \* counts them

memVars == <<text, data, stack, fault, written, stores>>

Empty == <<>>
Zeros(n) == [i \in 0 .. n - 1 |-> 0]
SizeOf(seg) == Cardinality(DOMAIN seg)
Addresses == TextBot .. StackTop

\* make_memory, with one instruction of zeros in it.
MemInit ==
    /\ text = [w \in 0 .. TextWords - 1 |-> IF w = 0 THEN <<0, 0, 0, 0>> ELSE Empty]
    /\ data = Zeros(DataSize) /\ stack = Zeros(StackSize)
    /\ fault = "none" /\ stores = 0
    /\ written = [a \in Addresses |-> 0]

DataTop == DataBot + SizeOf(data)
StackBot == StackTop - SizeOf(stack)
InText(a) == TextBot <= a /\ a < TextBot + 4 * TextWords
InData(a) == DataBot <= a /\ a < DataTop
InStack(a) == StackBot <= a /\ a < StackTop
GrowsStack(a) == a > DataTop /\ a < StackBot /\ a > StackBot - Below

RoundUp(n) == 4 * ((n + 3) \div 4)
Larger(a, b) == IF a > b THEN a ELSE b

\* Fault: the old contents go to the bottom of the new block, as realloc leaves them.
CopiedUp(seg, n) == [i \in 0 .. n - 1 |-> IF i < SizeOf(seg) THEN seg[i] ELSE 0]
\* expand_stack copies from the top of the old block to the top of the new one.
Copied(seg, n) ==
    LET added == n - SizeOf(seg) IN [i \in 0 .. n - 1 |-> IF i >= added THEN seg[i - added] ELSE 0]
NewStackSize(a) == SizeOf(stack) + Larger(RoundUp(StackBot - a + 4), SizeOf(stack))

\* An access to size bytes at a: its fault, or the segment it goes to.
Kind(a, size) ==
    CASE a % size # 0 -> "unaligned"
      [] a % size = 0 /\ InData(a) -> "data"
      [] a % size = 0 /\ InStack(a) -> "stack"
      [] a % size = 0 /\ InText(a) -> "text"
      [] a % size = 0 /\ GrowsStack(a) -> IF NewStackSize(a) > StackLimit THEN "limit" ELSE "grow"
      [] OTHER -> "bus"
Faults == {"unaligned", "limit", "bus"}

TextWord(a) == text[(a - TextBot) \div 4]
\* Parts of an empty word of text are not accessed: spim would dereference NULL.
Instruction(a, size) == InText(a) => size = 4 \/ TextWord(a) # Empty

Part(seg, i, size) == [k \in 1 .. size |-> seg[i + k - 1]]
Patched(seg, i, v) ==
    [k \in DOMAIN seg |-> IF k \in i .. i + Len(v) - 1 THEN v[k - i + 1] ELSE seg[k]]

\* What read_mem_byte, read_mem_half and read_mem_word return.
Read(a, size) ==
    CASE Kind(a, size) = "data" -> Part(data, a - DataBot, size)
      [] Kind(a, size) = "stack" -> Part(stack, a - StackBot, size)
      [] Kind(a, size) = "text" /\ TextWord(a) # Empty -> Part(TextWord(a), (a % 4) + 1, size)
      [] OTHER -> Part(Zeros(size), 0, size)

\* What they do: bad_mem_read.
ReadMem(a, size) ==
    LET kind == Kind(a, size) IN
    /\ Instruction(a, size) /\ UNCHANGED <<text, data, written, stores>>
    /\ fault' = IF kind \in Faults THEN kind ELSE "none"
    /\ stack' = IF kind = "grow" THEN Copied(stack, NewStackSize(a)) ELSE stack

\* set_mem_byte, set_mem_half, set_mem_word and bad_mem_write
SetMem(a, v) ==
    LET kind == Kind(a, Len(v)) IN
    /\ stores < MaxStores /\ stores' = stores + 1 /\ Instruction(a, Len(v))
    /\ fault' = IF kind \in Faults THEN kind ELSE "none"
    /\ written' = IF kind \in Faults THEN written ELSE Patched(written, a, v)
    /\ data' = IF kind = "data" THEN Patched(data, a - DataBot, v) ELSE data
    /\ text' = IF kind # "text" THEN text
               ELSE [text EXCEPT ![(a - TextBot) \div 4] =
                         IF Len(v) = 4 THEN v ELSE Patched(@, (a % 4) + 1, v)]
    /\ stack' = CASE kind = "stack" -> Patched(stack, a - StackBot, v)
                  [] kind = "grow" ->
                       LET n == NewStackSize(a)
                       IN Patched(Copied(stack, n), a - (StackTop - n), v)
                  [] OTHER -> stack

\* SBRK_SYSCALL and expand_data, whose run_error leaves it as it is.
Sbrk(n) ==
    LET new == SizeOf(data) + RoundUp(n)
        fails == n < 0 \/ new > DataLimit
    IN /\ fault' = IF fails THEN "limit" ELSE "none"
       /\ data' = IF fails THEN data
                  ELSE [i \in 0 .. new - 1 |-> IF i < SizeOf(data) THEN data[i] ELSE 0]
       /\ UNCHANGED <<text, stack, written, stores>>

Sizes == {1, 2, 4}
MemNext ==
    \/ \E a \in Addresses, size \in Sizes :
          ReadMem(a, size) \/ SetMem(a, [k \in 1 .. size |-> 4 * stores + k])
    \/ \E n \in Breaks : Sbrk(n)

---------------------------------------------------------------------------

\* Every byte, half and word that is read holds what was stored at its addresses
\* last, in whatever sizes, or 0, although data and stack move to larger blocks.
MemoryKept ==
    \A size \in Sizes, a \in Addresses :
        (Kind(a, size) \notin Faults /\ Instruction(a, size)) => Read(a, size) = Part(written, a, size)
=============================================================================
