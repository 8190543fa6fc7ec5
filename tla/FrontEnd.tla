------------------------------ MODULE FrontEnd ------------------------------
(***************************************************************************)
(* The compiler up to code generation: the parser builds the AST, semantic *)
(* analysis takes the declarations and checks the statements.  The three   *)
(* share nothing but the finished result of the one before, so a behaviour *)
(* is a piece of a program that concerns one of them: productions, the     *)
(* declarations of a scope, or statements over the names in Symbols.       *)
(***************************************************************************)
EXTENDS AstBuilder, Declarations, TypeCheck

vars == <<nodes, values, forests, table, refused, written, stack, reported, crashed, wrong, flaws>>

Parsing   == nodes # <<>>
Declaring == refused \/ DOMAIN written # {}
Checking  == stack # <<>> \/ reported \/ wrong \/ crashed

Init == AstInit /\ DeclInit /\ CheckInit

Next ==
    \/ ~Declaring /\ ~Checking /\ AstNext /\ UNCHANGED <<declVars, checkVars>>
    \/ ~Parsing /\ ~Checking /\ DeclNext /\ UNCHANGED <<astVars, checkVars>>
    \/ ~Parsing /\ ~Declaring /\ CheckNext /\ UNCHANGED <<astVars, declVars>>

Spec == Init /\ [][Next]_vars

TypeOK == NodesOK /\ TableOK
=============================================================================
