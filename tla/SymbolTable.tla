----------------------------- MODULE SymbolTable -----------------------------
(***************************************************************************)
(* symbolTable.c: one hash table that holds, for every name, only its      *)
(* innermost declaration, each entry pointing at the one it hides, and an  *)
(* array (scopeDisplay) of the entries of every open scope.                *)
(*                                                                         *)
(* A table t has t.level and t.capacity (currentLevel and                  *)
(* scopeDisplayElementCount), t.chain (the entries linked in each bucket), *)
(* t.scope (the entries of each scopeDisplay list) and t.outer             *)
(* (sameNameInOuterLevel).  Linked lists are sets: no operation depends on *)
(* their order as long as names are unique, which Scopes checks.  An entry *)
(* is known by its name and nesting level.  Operators that search return   *)
(* one outcome for each entry the search may stop at.                      *)
(***************************************************************************)
EXTENDS Naturals

CONSTANTS
    Names,              \* identifiers
    Predefined,         \* entered by initializeSymbolTable
    Buckets,            \* 0 .. HASH_TABLE_SIZE - 1
    Hash,               \* HASH, a bucket for every name
    InitialCapacity,    \* 10, the first size of scopeDisplay
    MaxLevel,           \* bound of the model: the deepest nesting level
    NoEntry             \* the NULL pointer

Levels == 0 .. MaxLevel
Entry  == [name : Names, level : Levels]

ASSUME TableAssumption ==
    /\ Predefined \subseteq Names /\ Predefined # {}
    /\ Hash \in [Names -> Buckets]
    /\ InitialCapacity \in Nat \ {0}
    /\ MaxLevel \in Nat
    /\ NoEntry \notin Entry

Table == [level : Levels, capacity : Nat \ {0}, chain : [Buckets -> SUBSET Entry],
          scope : UNION {[0 .. c - 1 -> SUBSET Entry] : c \in Nat \ {0}},
          outer : [Entry -> Entry \cup {NoEntry}]]

\* initializeSymbolTable
EmptyTable ==
    [level |-> 0, capacity |-> InitialCapacity,
     chain |-> [b \in Buckets |->
                    [name : {n \in Predefined : Hash[n] = b}, level : {0}]],
     scope |-> [l \in 0 .. InitialCapacity - 1 |->
                    IF l = 0 THEN [name : Predefined, level : {0}] ELSE {}],
     outer |-> [e \in Entry |-> NoEntry]]

-----------------------------------------------------------------------------
\* The entries a search of the bucket of n by strcmp can stop at; empty when
\* retrieveSymbol returns NULL.
Retrieve(t, n) == {e \in t.chain[Hash[n]] : e.name = n}

DeclaredLocally(t, n) == \E e \in Retrieve(t, n) : e.level = t.level

\* Fault: every entry is taken for the head of its chain.
UnlinkAsHead(t, e) == [t EXCEPT !.chain[Hash[e.name]] = {}]

\* removeFromHashTrain: an entry without a predecessor is taken for the head,
\* so unlinking one that is not linked drops the whole chain.
Unlink(t, e) ==
    [t EXCEPT !.chain[Hash[e.name]] = IF e \in @ THEN @ \ {e} ELSE {}]

\* enterIntoHashTrain
Link(t, e) == [t EXCEPT !.chain[Hash[e.name]] = @ \cup {e}]

\* Fault: a new entry does not remember the one it hides.
EnterForgetful(t, n, hidden) ==
    LET new == [name |-> n, level |-> t.level]
        u   == IF hidden = NoEntry THEN t ELSE Unlink(t, hidden)
    IN  [Link(u, new) EXCEPT !.outer[new] = NoEntry, !.scope[t.level] = @ \cup {new}]

\* The end of enterSymbol: a new entry that hides the entry "hidden".
Enter(t, n, hidden) ==
    LET new == [name |-> n, level |-> t.level]
        u   == IF hidden = NoEntry THEN t ELSE Unlink(t, hidden)
    IN  [Link(u, new) EXCEPT !.outer[new] = hidden, !.scope[t.level] = @ \cup {new}]

\* enterSymbol: a name of the same level is refused.
EnterSymbol(t, n) ==
    IF Retrieve(t, n) = {} THEN {Enter(t, n, NoEntry)}
    ELSE {IF e.level = t.level THEN t ELSE Enter(t, n, e) : e \in Retrieve(t, n)}

\* The body of the loops of closeScope and removeSymbol: the entry gives way to
\* the one it hides.
Uncover(t, e) ==
    IF t.outer[e] = NoEntry THEN Unlink(t, e) ELSE Link(Unlink(t, e), t.outer[e])

\* Fault: the entry stays in its scopeDisplay list.
RemoveFromChain(t, n) ==
    IF Retrieve(t, n) = {} THEN {t}
    ELSE {IF e.level # t.level THEN t ELSE Uncover(t, e) : e \in Retrieve(t, n)}

\* removeSymbol: only a name of the current level is removed.
RemoveSymbol(t, n) ==
    IF Retrieve(t, n) = {} THEN {t}
    ELSE {IF e.level # t.level THEN t
          ELSE [Uncover(t, e) EXCEPT !.scope[t.level] = @ \ {e}] : e \in Retrieve(t, n)}

\* Fault: the level after the last slot is taken to fit.
OpenScopeLate(t) ==
    LET l == t.level + 1
        c == IF l = t.capacity + 1 THEN 2 * t.capacity ELSE t.capacity
    IN  [t EXCEPT !.level = l, !.capacity = c,
                  !.scope = [i \in 0 .. c - 1 |->
                                IF i < t.capacity /\ i # l THEN t.scope[i] ELSE {}]]

\* openScope: scopeDisplay is doubled when the new level does not fit.
OpenScope(t) ==
    LET l == t.level + 1
        c == IF l = t.capacity THEN 2 * t.capacity ELSE t.capacity
    IN  [t EXCEPT !.level = l, !.capacity = c,
                  !.scope = [i \in 0 .. c - 1 |->
                                IF i < t.capacity /\ i # l THEN t.scope[i] ELSE {}]]

\* The end of closeScope, after its loop.
LeaveScope(t) == [t EXCEPT !.scope[t.level] = {}, !.level = @ - 1]
=============================================================================
