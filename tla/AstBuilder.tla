----------------------------- MODULE AstBuilder -----------------------------
(***************************************************************************)
(* How parser.y builds the AST.  Nodes are linked by four pointers; a list *)
(* under construction is passed on as a pointer to its LAST node, and the  *)
(* helpers find its beginning through leftmostSibling.  A production is an *)
(* action on the stack of semantic values; which production the input      *)
(* allows is a choice.                                                     *)
(***************************************************************************)
EXTENDS Naturals, Sequences, SequencesExt

CONSTANT MaxNodes       \* bound: nodes allocated

VARIABLES
    nodes,      \* the nodes: 1, 2, ... in the order of Allocate
    values,     \* bison's stack of $$, each [node, list]: list when the
                \* nonterminal may stand for several siblings
    forests     \* ghost: the trees the values stand for, read from the nodes

Null == 0
astVars == <<nodes, values, forests>>

\* Allocate: a node is alone, and its own leftmost sibling.
Fresh(n) == [child |-> Null, right |-> Null, left |-> n, parent |-> Null]
AstInit == nodes = <<>> /\ values = <<>> /\ forests = <<>>

\* a and the siblings to its right.
Chain(h, a) ==
    LET upTo[k \in 1 .. Len(h)] ==
          IF k = 1 THEN <<a>>
          ELSE LET c == upTo[k - 1] IN
               IF h[c[Len(c)]].right = Null THEN c ELSE Append(c, h[c[Len(c)]].right)
    IN upTo[Len(h)]
Whole(h, b) == Chain(h, h[b].left)

\* Fault: b itself, not the beginning of its list, is linked.
SiblingFromHere(h, a, b) ==
    LET tail == Last(Chain(h, a)) IN
    [n \in DOMAIN h |->
       IF n = tail THEN [h[n] EXCEPT !.right = b]
       ELSE IF n \in ToSet(Chain(h, b))
            THEN [h[n] EXCEPT !.left = h[tail].left, !.parent = h[tail].parent]
            ELSE h[n]]
\* Fault: the second list keeps its leftmost sibling.
SiblingOldLeft(h, a, b) ==
    LET tail == Last(Chain(h, a)) IN
    [n \in DOMAIN h |->
       IF n = tail THEN [h[n] EXCEPT !.right = h[b].left]
       ELSE IF n \in ToSet(Whole(h, b)) THEN [h[n] EXCEPT !.parent = h[tail].parent]
            ELSE h[n]]
\* makeSibling(a, b): the whole list of b goes behind the last sibling of a.
\* It returns the last node of b, which is Last(Whole(h, b)).
MakeSibling(h, a, b) ==
    LET tail == Last(Chain(h, a)) IN
    [n \in DOMAIN h |->
       IF n = tail THEN [h[n] EXCEPT !.right = h[b].left]
       ELSE IF n \in ToSet(Whole(h, b))
            THEN [h[n] EXCEPT !.left = h[tail].left, !.parent = h[tail].parent]
            ELSE h[n]]

MakeChild(h, p, c) ==
    IF h[p].child # Null THEN MakeSibling(h, h[p].child, c)
    ELSE [n \in DOMAIN h |->
            IF n = p THEN [h[n] EXCEPT !.child = h[c].left]
            ELSE IF n \in ToSet(Whole(h, c)) THEN [h[n] EXCEPT !.parent = p]
            ELSE h[n]]

\* makeFamily(p, Len(cs), cs[1], ...)
MakeFamily(h, p, cs) ==
    LET upTo[i \in 1 .. Len(cs)] ==
          IF i = 1 THEN MakeChild(h, p, cs[1]) ELSE MakeSibling(upTo[i - 1], cs[i - 1], cs[i])
    IN upTo[Len(cs)]

Allocated(k) == nodes \o [i \in 1 .. k |-> Fresh(Len(nodes) + i)]
newNode == Len(nodes) + 1
Space(k) == Len(nodes) + k <= MaxNodes
Value(n, many) == [node |-> n, list |-> many]
Args(k) == [i \in 1 .. k |-> values[Len(values) - k + i].node]
Single(k) == \A i \in Len(values) - k + 1 .. Len(values) : ~values[i].list

Reduce(k, heap, v) ==
    /\ nodes' = heap
    /\ values' = Append(SubSeq(values, 1, Len(values) - k), v)

\* An ID, a CONST, an operator or a NUL_NODE.
Terminal == Space(1) /\ Reduce(0, Allocated(1), Value(newNode, FALSE))

\* X_list : X_list X
ListOf ==
    /\ Len(values) >= 2
    /\ LET a == Args(2)[1]  b == Args(2)[2] IN
       Reduce(2, MakeSibling(nodes, a, b), Value(Last(Whole(nodes, b)), TRUE))

\* makeChild(Allocate(...), $1), of a list or of a single node.
Wrap == Space(1) /\ values # <<>>
        /\ Reduce(1, MakeChild(Allocated(1), newNode, Args(1)[1]), Value(newNode, FALSE))

\* makeFamily(Allocate(...), k, $1, ...)
Family(k) == Space(1) /\ Len(values) >= k
             /\ Reduce(k, MakeFamily(Allocated(1), newNode, Args(k)), Value(newNode, FALSE))

\* A type and the list of the identifiers declared with it.
Declaration == Len(values) >= 2 /\ ~values[Len(values) - 1].list /\ Family(2)
Statement(k) == Len(values) >= k /\ Single(k) /\ Family(k)

\* expr : expr add_op term, whose node the operator has allocated.
Operator ==
    /\ Len(values) >= 3 /\ Single(3)
    /\ LET a == Args(3) IN
       /\ nodes[a[2]].child = Null
       /\ Reduce(3, MakeFamily(nodes, a[2], <<a[1], a[3]>>), Value(a[2], FALSE))

\* IF ( test ) stmt: the third child is a NUL_NODE.
IfThen ==
    /\ Space(2) /\ Len(values) >= 2 /\ Single(2)
    /\ Reduce(2, MakeFamily(Allocated(2), newNode, Append(Args(2), newNode + 1)),
              Value(newNode, FALSE))

\* global_decl : decl_list function_decl
GlobalDecl ==
    /\ Space(1) /\ Len(values) >= 2 /\ Single(1)
    /\ LET h == MakeChild(Allocated(1), newNode, Args(2)[1]) IN
       Reduce(2, MakeSibling(h, newNode, Args(2)[2]), Value(Args(2)[2], TRUE))

\* function_decl: the head already has the type and the name as children.
FunctionDecl ==
    /\ Len(values) >= 3 /\ Single(3)
    /\ nodes[Args(3)[1]].child # Null
    /\ LET a == Args(3) IN
       Reduce(3, MakeChild(MakeChild(nodes, a[1], a[2]), a[1], a[3]), Value(a[1], FALSE))

\* The trees a semantic value stands for, as the later passes walk them: child,
\* then rightSibling.  No tree is higher than the number of nodes.
Forests(h, vs) ==
    LET trees[k \in 0 .. Len(h)] ==
          [n \in DOMAIN h \cup {Null} |->
             IF n = Null \/ k = 0 THEN <<>>
             ELSE LET c == Chain(h, n) IN
                  [i \in DOMAIN c |-> [label |-> c[i], kids |-> trees[k - 1][h[c[i]].child]]]]
    IN [i \in DOMAIN vs |-> trees[Len(h)][h[vs[i].node].left]]

Production ==
    \/ Terminal \/ ListOf \/ Wrap \/ Declaration \/ Operator
    \/ \E k \in {2, 3, 4} : Statement(k)
    \/ IfThen \/ GlobalDecl \/ FunctionDecl

AstNext == Production /\ forests' = Forests(nodes', values')

---------------------------------------------------------------------------

Trees == INSTANCE OrderedTrees

\* Each production combines the trees of its right side in source order, though
\* lists are handed on by their last node and linked more than once.
BuildsTrees == [][Trees!NextForest]_astVars

\* Every pointer of every node agrees with the others: leftmostSibling begins
\* the list the node is in, all siblings have one parent, and it points at
\* their beginning.  The next makeSibling relies on the first, checkReturnStmt
\* and genReturnStmt climb parent to find their function.
WellLinked ==
    \A n \in DOMAIN nodes : LET s == nodes[n] IN
       /\ n \in ToSet(Whole(nodes, n))
       /\ s.right # Null => /\ nodes[s.right].left = s.left
                            /\ nodes[s.right].parent = s.parent
       /\ s.child # Null => nodes[s.child].parent = n /\ nodes[s.child].left = s.child
       /\ s.parent # Null => nodes[s.parent].child = s.left
=============================================================================
