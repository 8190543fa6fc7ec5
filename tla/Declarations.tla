---------------------------- MODULE Declarations ----------------------------
(***************************************************************************)
(* Declarations of types and variables and the layout of arrays.           *)
(* declareIdList (semanticAnalysis.c) gives each identifier a type         *)
(* descriptor made of its own dimensions and those of the type it is       *)
(* declared with; ARSystem (Register.cpp) takes the room a variable needs  *)
(* and the place of an element from the descriptor.  One scope: which      *)
(* declaration a name refers to is the subject of Scopes.                  *)
(***************************************************************************)
EXTENDS Integers, Sequences

CONSTANTS
    Names,          \* the identifiers the program declares
    DimNodes,       \* the dimensions it writes, each [type, constant, value]
    MaxDimension,   \* MAX_ARRAY_DIMENSION
    Garbage,        \* what an uninitialised size may hold
    Rows            \* bound: the subscripts tried, and the rows an argument has
                    \* where the first dimension of the parameter is missing

ASSUME DimensionAssumption ==
    /\ MaxDimension \in Nat \ {0} /\ Rows \in Nat
    /\ Garbage \subseteq Int /\ \A d \in DimNodes : d.value \in Int

Basic == {"int", "float", "void"}
Missing == [type |-> "NUL", constant |-> FALSE, value |-> 0]

VARIABLES
    table,      \* name -> entry of the symbol table, a subset of the names
    refused,    \* g_anyErrorOccur
    written     \* ghost: name -> [base, dims] as the program wrote them

declVars == <<table, refused, written>>

\* TypeDescriptor: dims is sizeInEachDimension up to dimension, <<>> of a scalar.
Descriptor(kind, elem, dims) == [kind |-> kind, elem |-> elem, dims |-> dims]
Entry(attr, desc) == [attr |-> attr, desc |-> desc]

\* initializeSymbolTable: the basic types.
DeclInit ==
    /\ table = [n \in Basic |->
                  Entry("TYPE", Descriptor("SCALAR", CASE n = "int" -> "INT"
                        [] n = "float" -> "FLOAT" [] n = "void" -> "VOID", <<>>))]
    /\ refused = FALSE
    /\ written = [n \in {} |-> 0]

Declared(n) == n \in DOMAIN table

\* processTypeNode: the base is a type.
TypeName(base) == Declared(base) /\ table[base].attr = "TYPE"

Refuse == refused' = TRUE /\ UNCHANGED <<table, written>>

\* Dimensions that cannot be told from a size: sizeInEachDimension takes what
\* is in constEvalValue, which only folded nodes and literals have set.
SizeOf(d) == IF d = Missing THEN {0}
             ELSE IF d.constant THEN {d.value} ELSE Garbage

\* processDeclDimList prints a message about dimension d holding v.
DimRefused(d, v) == d.type \in {"ERROR", "FLOAT"} \/ (d.constant /\ v < 0)

\* The results of processDeclDimList: <<>> after a message.  Only the first
\* dimension of a parameter may be missing.  Of a node that is not folded
\* isConstEval is another field of the union, so a negative size may or may
\* not be noticed.
DimLists(dims) ==
    LET sizes == {f \in [DOMAIN dims -> Garbage \cup {0} \cup {d.value : d \in DimNodes}] :
                     \A i \in DOMAIN dims : f[i] \in SizeOf(dims[i])} IN
    {IF Len(dims) > MaxDimension \/ (\E i \in DOMAIN dims : DimRefused(dims[i], f[i]))
     THEN <<>> ELSE f : f \in sizes}
    \cup {<<>> : i \in {j \in DOMAIN dims : dims[j].type # "NUL" /\ ~dims[j].constant}}

Enter(n, attr, desc, base, dims) ==
    /\ table' = [k \in DOMAIN table \cup {n} |-> IF k = n THEN Entry(attr, desc) ELSE table[k]]
    /\ written' = [k \in DOMAIN written \cup {n} |->
                      IF k = n THEN [base |-> base, dims |-> dims] ELSE written[k]]
    /\ UNCHANGED refused

\* Fault: the dimensions of the type go in front.
JoinedTypeFirst(own, base) == base \o own
\* The identifier's dimensions, then those of its type.
Joined(own, base) == own \o base

\* A declaration declareIdList refuses whatever else it says: the type is no
\* type, a variable is void, the name is taken.
RefusedDeclaration(n, base, attr) ==
    \/ ~TypeName(base)
    \/ attr = "VARIABLE" /\ table[base].desc.elem = "VOID"
    \/ Declared(n)

\* declareIdList on one identifier: NORMAL_ID shares the descriptor of the type.
DeclareNormal(n, base, attr) ==
    IF RefusedDeclaration(n, base, attr) THEN Refuse
    ELSE Enter(n, attr, table[base].desc, base, <<>>)

\* Fault: the dimensions of the type are not counted.
TooManyOwn(own, base) == Len(own) > MaxDimension
TooMany(own, base) == Len(own) + Len(base) > MaxDimension

\* ARRAY_ID, with the dimensions written.
DeclareArray(n, base, attr, dims) ==
    IF RefusedDeclaration(n, base, attr) \/ table[base].desc.elem = "VOID" THEN Refuse
    ELSE \E own \in DimLists(dims) :
           LET desc == table[base].desc IN
           IF own = <<>> \/ TooMany(own, desc.dims) THEN Refuse
           ELSE Enter(n, attr, Descriptor("ARRAY", desc.elem, Joined(own, desc.dims)), base, dims)

\* WITH_INIT_ID: sound says whether checkInit accepts the value.
DeclareInit(n, base, sound) ==
    IF RefusedDeclaration(n, base, "VARIABLE") \/ table[base].desc.kind = "ARRAY" \/ ~sound
    THEN Refuse
    ELSE Enter(n, "VARIABLE", table[base].desc, base, <<>>)

DimSeqs == UNION {[1 .. k -> DimNodes] : k \in 1 .. 2}

DeclNext ==
    \E n \in Names, base \in Names \cup Basic :
       \/ \E attr \in {"TYPE", "VARIABLE"} :
             \/ DeclareNormal(n, base, attr)
             \/ \E dims \in DimSeqs : DeclareArray(n, base, attr, dims)
       \* a parameter, whose first dimension is missing
       \/ \E rest \in DimSeqs \cup {<<>>} :
             DeclareArray(n, base, "VARIABLE", <<Missing>> \o rest)
       \/ \E sound \in BOOLEAN : DeclareInit(n, base, sound)

---------------------------------------------------------------------------
(* Layout.                                                                 *)

Subscript(subs, j) == IF j <= Len(subs) THEN subs[j] ELSE 0
\* Fault: the size before the dimension scales the subscripts.
ScaledByOuter(a, dims, subs, k) ==
    LET to[j \in 0 .. k] ==
          IF j = 0 THEN a
          ELSE (to[j - 1] * IF j = 1 THEN 1 ELSE dims[j - 1]) + Subscript(subs, j)
    IN to[k]
\* a scaled by each of the first k dimensions, a subscript added every time.
Scaled(a, dims, subs, k) ==
    LET to[j \in 0 .. k] ==
          IF j = 0 THEN a ELSE (to[j - 1] * dims[j]) + Subscript(subs, j)
    IN to[k]

\* TypeDescriptor::size, in bytes.
Product(dims) == Scaled(1, dims, <<>>, Len(dims))
Size(desc) ==
    IF desc.kind = "SCALAR" THEN 4 ELSE ((Product(desc.dims) * 4 + 3) \div 4) * 4

\* ARSystem::getAddress: the offset in bytes of the element with these
\* subscripts, or of the first element of the part they select.
Offset(desc, subs) == 4 * Scaled(0, desc.dims, subs, Len(desc.dims))

Arrays == {n \in DOMAIN table \ Basic : table[n].desc.kind = "ARRAY"}

\* The subscripts inside the bounds.
Inside(dims) ==
    {f \in [DOMAIN dims -> 0 .. Rows - 1] :
        \A i \in DOMAIN dims : f[i] < IF i = 1 /\ dims[i] = 0 THEN Rows ELSE dims[i]}

---------------------------------------------------------------------------

TableOK ==
    /\ Basic \subseteq DOMAIN table /\ DOMAIN table \subseteq Names \cup Basic
    /\ \A n \in DOMAIN table :
         /\ table[n].attr \in {"TYPE", "VARIABLE"}
         /\ table[n].desc.elem \in {"INT", "FLOAT", "VOID"}
         /\ Len(table[n].desc.dims) <= MaxDimension
         /\ (table[n].desc.kind = "ARRAY") <=> (table[n].desc.dims # <<>>)
    /\ DOMAIN written = DOMAIN table \ Basic

\* Two elements of an array never share a word, and all lie in the room the
\* frame or .space has for it, through any chain of type names.
ElementsDisjoint ==
    \A n \in Arrays : LET d == table[n].desc IN
       /\ \A s, t \in Inside(d.dims) : s # t => Offset(d, s) # Offset(d, t)
       /\ d.dims[1] # 0 =>
            \A s \in Inside(d.dims) : 0 <= Offset(d, s) /\ Offset(d, s) + 4 <= Size(d)

\* An array of a named array type is a row of objects of that type: the part
\* a[i] selects begins at i times the type's size and is laid out as the type
\* is, so it can be passed where a parameter of that type is expected.
PartsAreObjects ==
    \A n \in Arrays : LET d == table[n].desc
                          b == table[written[n].base].desc
                          k == Len(written[n].dims) IN
       (k > 0 /\ b.kind = "ARRAY") =>
          /\ Len(d.dims) = k + Len(b.dims)
          /\ \A own \in Inside(SubSeq(d.dims, 1, k)), sub \in Inside(b.dims) :
               LET row == Offset(Descriptor("ARRAY", d.elem, SubSeq(d.dims, 1, k)), own) \div 4 IN
               Offset(d, own \o sub) = (row * Size(b)) + Offset(b, sub)
=============================================================================
