------------------------------ MODULE ScopeStack ------------------------------
(***************************************************************************)
(* What a symbol table promises the semantic analysis: a stack of scopes,  *)
(* each the set of names it declares, a name meaning its declaration in    *)
(* the innermost scope that has one.                                       *)
(***************************************************************************)
EXTENDS Naturals, Sequences

CONSTANTS
    Names,          \* identifiers
    Predefined      \* declared before the program: int, float, void, read, fread

VARIABLES
    stack,          \* stack[1] declares the globals, the last one is innermost
    answer          \* <<what a lookup has just found>>, or <<>> after other steps

vars == <<stack, answer>>

Init == stack = <<Predefined>> /\ answer = <<>>

Declaring(n) == {d \in 1 .. Len(stack) : n \in stack[d]}

\* The answer is the depth of the innermost declaration, 0 if there is none.
Lookup(n) ==
    /\ answer' = IF Declaring(n) = {} THEN <<0>>
                 ELSE <<CHOOSE d \in Declaring(n) : \A e \in Declaring(n) : e <= d>>
    /\ UNCHANGED stack

\* A name the innermost scope already has stays as it is: a redeclaration.
Declare(n) ==
    /\ stack' = [stack EXCEPT ![Len(stack)] = @ \cup {n}]
    /\ answer' = <<>>

Open ==
    /\ stack' = Append(stack, {})
    /\ answer' = <<>>

\* A function declares its name outside and opens the scope of its parameters.
OpenFunction(n) ==
    /\ Len(stack) = 1
    /\ stack' = <<stack[1] \cup {n}, {}>>
    /\ answer' = <<>>

Close ==
    /\ Len(stack) > 1
    /\ stack' = SubSeq(stack, 1, Len(stack) - 1)
    /\ answer' = <<>>

\* A function with a wrong parameter does not count as declared.
CloseAndWithdraw(n) ==
    /\ Len(stack) = 2
    /\ n \in stack[1]
    /\ stack' = <<stack[1] \ {n}>>
    /\ answer' = <<>>

\* A declaration that is refused, or work that declares nothing.
Other == answer' = <<>> /\ UNCHANGED stack

Next ==
    \/ \E n \in Names : Lookup(n) \/ Declare(n) \/ OpenFunction(n) \/ CloseAndWithdraw(n)
    \/ Open
    \/ Close
    \/ Other

Spec == Init /\ [][Next]_vars
=============================================================================
