----------------------------- MODULE MCFrontEnd -----------------------------
(***************************************************************************)
(* An instance of FrontEnd for TLC.  Statements use a scalar of each type, *)
(* an array of two dimensions, a type name, an undeclared name and a       *)
(* function of a number and an array; declarations make arrays of up to    *)
(* three dimensions.                                                       *)
(***************************************************************************)
EXTENDS FrontEnd, TLC

Symbol(kind, elem, dim, params) ==
    [kind |-> kind, elem |-> elem, dim |-> dim, params |-> params]

MCSymbols ==
    ("i" :> Symbol("VARIABLE", "INT", 0, <<>>)) @@
    ("f" :> Symbol("VARIABLE", "FLOAT", 0, <<>>)) @@
    ("a" :> Symbol("VARIABLE", "INT", 2, <<>>)) @@
    ("int" :> Symbol("TYPE", "INT", 0, <<>>)) @@
    ("u" :> Symbol("NONE", "INT", 0, <<>>)) @@
    ("g" :> Symbol("FUNCTION", "FLOAT", 0, <<"SCALAR", "ARRAY">>))

Literal(t, v) == [type |-> t, value |-> v]
MCConstants == {Literal("INT", 2), Literal("INT", 3), Literal("FLOAT", 0), Literal("STRING", 0)}

Dim(t, c, v) == [type |-> t, constant |-> c, value |-> v]
MCDims == {Dim("INT", TRUE, 2), Dim("INT", TRUE, 3), Dim("INT", TRUE, -1), Dim("FLOAT", TRUE, 0)}
MCGarbage == {-1, 0, 7}

\* Nothing is claimed of a program after a use nobody checks.
Checked == flaws = {} /\ ~crashed
=============================================================================
