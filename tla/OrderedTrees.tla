---------------------------- MODULE OrderedTrees ----------------------------
(***************************************************************************)
(* What the parser promises: each semantic value on its stack stands for a *)
(* sequence of ordered trees [label, kids], and a production combines the  *)
(* values of its right side into a new one in the order of the source.     *)
(***************************************************************************)
EXTENDS Naturals, Sequences, SequencesExt

VARIABLE forests        \* the semantic values, last one on top

size == Len(forests)
Top(k)  == SubSeq(forests, size - k + 1, size)
Rest(k) == SubSeq(forests, 1, size - k)

Reduce(k, forest) == size >= k /\ forests' = Append(Rest(k), forest)

\* The top k values give way to one tree with these children.
Node(k, kids) ==
    /\ size >= k /\ Len(forests') = size - k + 1
    /\ SubSeq(forests', 1, size - k) = Rest(k)
    /\ Len(Last(forests')) = 1 /\ Last(forests')[1].kids = kids

Terminal  == Node(0, <<>>)
ListOf    == Reduce(2, FlattenSeq(Top(2)))
Family(k) == size >= k /\ Node(k, FlattenSeq(Top(k)))

\* An operator between its operands becomes their parent.
Operator ==
    /\ size >= 3
    /\ Reduce(3, <<[Top(3)[2][1] EXCEPT !.kids = Top(3)[1] \o Top(3)[3]]>>)

\* An if without else gets an empty third child.
IfThen ==
    /\ size >= 2
    /\ LET kids == Last(forests')[1].kids IN
       /\ kids # <<>> /\ Node(2, kids)
       /\ Front(kids) = FlattenSeq(Top(2)) /\ Last(kids).kids = <<>>

\* The declarations before a function, and the function, as two declarations.
GlobalDecl ==
    /\ size >= 2
    /\ LET decls == Last(forests')[1] IN
       decls.kids = Top(2)[1] /\ Reduce(2, <<decls>> \o Top(2)[2])

\* The head of a function takes its parameters and its body as further children.
Function ==
    /\ size >= 3
    /\ LET head == Top(3)[1][1] IN
       Reduce(3, <<[head EXCEPT !.kids = @ \o Top(3)[2] \o Top(3)[3]]>>)

NextForest ==
    \/ Terminal \/ ListOf \/ Operator \/ IfThen \/ GlobalDecl
    \/ Function \/ \E k \in {1, 2, 3, 4} : Family(k)
=============================================================================
