-------------------------------- MODULE Scopes --------------------------------
(***************************************************************************)
(* The semantic analysis driving the symbol table: global declarations,    *)
(* functions with parameters and a body, nested blocks, and the loop of    *)
(* closeScope entry by entry.                                              *)
(***************************************************************************)
EXTENDS SymbolTable, Sequences

VARIABLES
    table,      \* the symbol table
    phase,      \* what declareFunction is doing: "global", "params" or "body"
    fn,         \* its function: name, entered in the table, errorOccur
    closing,    \* closeScope has begun and not ended
    todo,       \* the entries its loop has not reached
    answer      \* <<depth of the entry retrieveSymbol has just found, 0 for NULL>>,
                \* or <<>> after other steps

vars == <<table, phase, fn, closing, todo, answer>>

Function == [name : Names, entered : BOOLEAN, error : BOOLEAN]

\* Outside a function its locals mean nothing.
NoFunction == [name |-> CHOOSE n \in Names : TRUE, entered |-> FALSE, error |-> FALSE]

Init ==
    /\ table = EmptyTable
    /\ phase = "global"
    /\ fn = NoFunction
    /\ closing = FALSE
    /\ todo = {}
    /\ answer = <<>>

\* retrieveSymbol, from the uses of a name
Lookup(n) ==
    /\ ~closing
    /\ \/ Retrieve(table, n) = {} /\ answer' = <<0>>
       \/ \E e \in Retrieve(table, n) : answer' = <<e.level + 1>>
    /\ UNCHANGED <<table, phase, fn, closing, todo>>

\* declareIdList, one name; "wrong" stands for every other reason to refuse it.
Refused(n, wrong) == DeclaredLocally(table, n) \/ wrong

DeclareId(n, wrong) ==
    IF Refused(n, wrong) THEN UNCHANGED table ELSE table' \in EnterSymbol(table, n)

Declare(n, wrong) ==
    /\ ~closing
    /\ phase # "params"
    /\ DeclareId(n, wrong)
    /\ answer' = <<>>
    /\ UNCHANGED <<phase, fn, closing, todo>>

\* declareFunction, one parameter: a wrong one spoils the function, and the
\* parameters after it are entered all the same.
DeclareParameter(n, wrong) ==
    /\ ~closing
    /\ phase = "params"
    /\ DeclareId(n, wrong)
    /\ fn' = [fn EXCEPT !.error = @ \/ Refused(n, wrong)]
    /\ answer' = <<>>
    /\ UNCHANGED <<phase, closing, todo>>

\* declareFunction until its parameters; the return type may be wrong.
BeginFunction(n, wrong) ==
    /\ ~closing
    /\ phase = "global"
    /\ table.level < MaxLevel
    /\ LET error == Refused(n, wrong)
       IN  /\ fn' = [name |-> n, entered |-> ~error, error |-> error]
           /\ \E t \in IF error THEN {table} ELSE EnterSymbol(table, n) :
                table' = OpenScope(t)
    /\ phase' = "params"
    /\ answer' = <<>>
    /\ UNCHANGED <<closing, todo>>

\* The body is analysed in the scope of the parameters, if nothing was wrong.
BeginBody ==
    /\ ~closing
    /\ phase = "params"
    /\ ~fn.error
    /\ phase' = "body"
    /\ answer' = <<>>
    /\ UNCHANGED <<table, fn, closing, todo>>

\* processBlockNode
BeginBlock ==
    /\ ~closing
    /\ phase = "body"
    /\ table.level < MaxLevel
    /\ table' = OpenScope(table)
    /\ answer' = <<>>
    /\ UNCHANGED <<phase, fn, closing, todo>>

\* closeScope begins: at the end of a block, of a body, or of parameters that
\* are not followed by a body.
BeginClose ==
    /\ ~closing
    /\ phase = "body" \/ (phase = "params" /\ fn.error)
    /\ closing' = TRUE
    /\ todo' = table.scope[table.level]
    /\ answer' = <<>>
    /\ UNCHANGED <<table, phase, fn>>

\* One turn of the loop of closeScope
CloseEntry(e) ==
    /\ closing
    /\ e \in todo
    /\ table' = Uncover(table, e)
    /\ todo' = todo \ {e}
    /\ answer' = <<>>
    /\ UNCHANGED <<phase, fn, closing>>

\* closeScope ends; after the scope of a function that was wrong,
\* declareFunction takes the name it had entered back.
EndClose ==
    /\ closing
    /\ todo = {}
    /\ closing' = FALSE
    /\ phase' = IF table.level = 1 THEN "global" ELSE phase
    /\ fn' = IF table.level = 1 THEN NoFunction ELSE fn
    /\ IF table.level = 1 /\ fn.error /\ fn.entered
       THEN table' \in RemoveSymbol(LeaveScope(table), fn.name)
       ELSE table' = LeaveScope(table)
    /\ answer' = <<>>
    /\ UNCHANGED todo

Next ==
    \/ \E n \in Names : Lookup(n)
    \/ \E n \in Names, wrong \in BOOLEAN : Declare(n, wrong)
    \/ \E n \in Names, wrong \in BOOLEAN : DeclareParameter(n, wrong)
    \/ \E n \in Names, wrong \in BOOLEAN : BeginFunction(n, wrong)
    \/ BeginBody
    \/ BeginBlock
    \/ BeginClose
    \/ \E e \in todo : CloseEntry(e)
    \/ EndClose

Spec == Init /\ [][Next]_vars

-----------------------------------------------------------------------------
(* Properties *)

\* The open declarations, and those of one name.
Open    == UNION {table.scope[l] : l \in 0 .. table.level}
Named(n) == {e \in Open : e.name = n}

\* Every variable keeps its domain, and scopeDisplay has a slot for the current
\* level: openScope grew it in time.
TypeOK ==
    /\ table \in [level : Levels, capacity : {table.capacity},
                  chain : [Buckets -> SUBSET Entry],
                  scope : [0 .. table.capacity - 1 -> SUBSET Entry],
                  outer : [Entry -> Entry \cup {NoEntry}]]
    /\ table.capacity \in Nat \ {0}
    /\ table.level < table.capacity
    /\ phase \in {"global", "params", "body"}
    /\ fn \in Function
    /\ closing \in BOOLEAN
    /\ todo \in SUBSET Entry

\* A use of a name finds its innermost declaration, also after scopes that hid
\* it have been closed in whatever order and after a function was withdrawn.
Innermost ==
    ~closing => \A n \in Names :
        Retrieve(table, n) = {e \in Named(n) : \A d \in Named(n) : d.level <= e.level}

\* While a scope is being closed every entry still to be unlinked is linked:
\* removeFromHashTrain never takes a detached entry for the head of a chain.
ClosingLinked ==
    /\ todo \subseteq table.scope[table.level]
    /\ \A e \in todo : e \in table.chain[Hash[e.name]]

\* The entry a declaration hides is open, further out, of the same name, and the
\* nearest such: what closeScope puts back is the declaration it covered.
HidesNearest ==
    \A e \in Open :
        LET below == {d \in Named(e.name) : d.level < e.level}
        IN  IF below = {} THEN table.outer[e] = NoEntry
            ELSE /\ table.outer[e] \in below
                 /\ \A d \in below : d.level <= table.outer[e].level

\* The scopes of a table by the names they declare.
NamesOf(S) == {e.name : e \in S}
StackOf(t) == [d \in 1 .. t.level + 1 |-> NamesOf(t.scope[d - 1])]

\* The table with its display, chains and links is a stack of scopes.
Promised == INSTANCE ScopeStack WITH stack <- StackOf(table)

ImplementsScopeStack == Promised!Spec
=============================================================================
