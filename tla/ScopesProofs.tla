----------------------------- MODULE ScopesProofs -----------------------------
(***************************************************************************)
(* Proofs about Scopes: for any names, hash function, nesting bound and    *)
(* first size of scopeDisplay, the symbol table always finds the innermost *)
(* declaration and is a stack of scopes.                                   *)
(***************************************************************************)
EXTENDS Scopes, SequenceTheorems, TLAPS

-----------------------------------------------------------------------------
(* What a table looks like *)

Typed(t) ==
    /\ t \in [level : Levels, capacity : Nat \ {0},
              chain : [Buckets -> SUBSET Entry],
              scope : [0 .. t.capacity - 1 -> SUBSET Entry],
              outer : [Entry -> Entry \cup {NoEntry}]]
    /\ t.level < t.capacity
    /\ \A l \in 0 .. t.capacity - 1 : \A e \in t.scope[l] : e.level = l /\ l <= t.level

\* e is declared in a scope that is open.
IsOpen(t, e) == e \in Entry /\ e.level <= t.level /\ e \in t.scope[e.level]

\* e is the nearest declaration of its name, those in gone not counted.
Nearest(t, gone, e) ==
    /\ IsOpen(t, e) /\ e \notin gone
    /\ \A d \in Entry :
          IsOpen(t, d) /\ d \notin gone /\ d.name = e.name => d.level <= e.level

\* The chains hold the nearest declarations, each in its bucket.
Linked(t, gone) ==
    \A b \in Buckets, e \in Entry :
        e \in t.chain[b] <=> b = Hash[e.name] /\ Nearest(t, gone, e)

\* Every open declaration has a nearest one of its name.
Covered(t, gone) ==
    \A e \in Entry : IsOpen(t, e) /\ e \notin gone =>
        \E f \in Entry : f.name = e.name /\ Nearest(t, gone, f)

\* o is the entry that e hides.
Hidden(t, e, o) ==
    IF o = NoEntry
    THEN \A d \in Entry : IsOpen(t, d) /\ d.name = e.name => e.level <= d.level
    ELSE /\ IsOpen(t, o) /\ o.name = e.name /\ o.level < e.level
         /\ \A d \in Entry : IsOpen(t, d) /\ d.name = e.name /\ d.level < e.level
                                => d.level <= o.level

Hides(t) == \A e \in Entry : IsOpen(t, e) => Hidden(t, e, t.outer[e])

\* A table as it is between operations.
Sound(t) == Typed(t) /\ Hides(t) /\ Linked(t, {}) /\ Covered(t, {})

\* The same scopes, but for what u has in the current one.
SameLevels(t, u) == u.level = t.level /\ u.capacity = t.capacity

EntryFor(n, l) == [name |-> n, level |-> l]

LEMMA TypedShape ==
    ASSUME NEW t, Typed(t)
    PROVE  /\ t.level \in Nat /\ t.level <= MaxLevel /\ t.level \in Levels
           /\ t.capacity \in Nat \ {0} /\ t.level \in 0 .. t.capacity - 1
           /\ t.chain \in [Buckets -> SUBSET Entry]
           /\ t.scope \in [0 .. t.capacity - 1 -> SUBSET Entry]
           /\ t.outer \in [Entry -> Entry \cup {NoEntry}]
BY TableAssumption DEF Typed, Levels

LEMMA EntryShape ==
    /\ \A e \in Entry : /\ e.name \in Names /\ e.level \in Nat /\ e.level \in Levels
                        /\ e = EntryFor(e.name, e.level) /\ e # NoEntry
                        /\ Hash[e.name] \in Buckets
    /\ \A n \in Names, l \in Levels : /\ EntryFor(n, l) \in Entry
                                      /\ EntryFor(n, l).name = n /\ EntryFor(n, l).level = l
    /\ \A d, e \in Entry : d.name = e.name /\ d.level = e.level => d = e
BY TableAssumption DEF Entry, Levels, EntryFor

\* Two nearest declarations of a name are the same.
LEMMA NearestOnce ==
    ASSUME NEW t, NEW gone, NEW d \in Entry, NEW e \in Entry, d.name = e.name,
           Nearest(t, gone, d), Nearest(t, gone, e)
    PROVE  d = e
<1>1. d.level <= e.level /\ e.level <= d.level
  BY DEF Nearest
<1>. QED BY <1>1, EntryShape

LEMMA RetrieveShape ==
    ASSUME NEW t, NEW gone, Typed(t), Linked(t, gone), NEW n \in Names
    PROVE  /\ \A e : e \in Retrieve(t, n) <=> e \in Entry /\ e.name = n /\ Nearest(t, gone, e)
<1>1. Hash[n] \in Buckets /\ t.chain[Hash[n]] \subseteq Entry
  BY TypedShape, TableAssumption
<1>. QED BY <1>1 DEF Retrieve, Linked

-----------------------------------------------------------------------------
(* The operations *)

LEMMA UnlinkShape ==
    ASSUME NEW t, Typed(t), NEW e \in Entry, e \in t.chain[Hash[e.name]]
    PROVE  /\ Typed(Unlink(t, e)) /\ SameLevels(t, Unlink(t, e))
           /\ Unlink(t, e).scope = t.scope /\ Unlink(t, e).outer = t.outer
           /\ \A b \in Buckets : \A d : d \in Unlink(t, e).chain[b] <=>
                    d \in t.chain[b] /\ (b = Hash[e.name] => d # e)
<1>. DEFINE b == Hash[e.name]
            u == [t EXCEPT !.chain = [t.chain EXCEPT ![b] = t.chain[b] \ {e}]]
<1>1. b \in Buckets /\ t.chain[b] \subseteq Entry
  BY EntryShape, TypedShape
<1>2. Unlink(t, e) = u
  BY DEF Unlink
<1>3. /\ u.level = t.level /\ u.capacity = t.capacity /\ u.scope = t.scope
      /\ u.outer = t.outer /\ u.chain = [t.chain EXCEPT ![b] = t.chain[b] \ {e}]
      /\ u \in [level : Levels, capacity : Nat \ {0},
              chain : [Buckets -> SUBSET Entry],
              scope : [0 .. u.capacity - 1 -> SUBSET Entry],
              outer : [Entry -> Entry \cup {NoEntry}]]
  BY <1>1 DEF Typed
<1>. HIDE DEF u
<1>4. Typed(u) /\ SameLevels(t, u)
  BY <1>3 DEF Typed, SameLevels
<1>5. \A c \in Buckets : \A d : d \in u.chain[c] <=>
                    d \in t.chain[c] /\ (c = b => d # e)
  BY <1>1, <1>3, TypedShape
<1>. QED BY <1>2, <1>3, <1>4, <1>5

LEMMA LinkShape ==
    ASSUME NEW t, Typed(t), NEW e \in Entry
    PROVE  /\ Typed(Link(t, e)) /\ SameLevels(t, Link(t, e))
           /\ Link(t, e).scope = t.scope /\ Link(t, e).outer = t.outer
           /\ \A b \in Buckets : \A d : d \in Link(t, e).chain[b] <=>
                    d \in t.chain[b] \/ (b = Hash[e.name] /\ d = e)
<1>. DEFINE b == Hash[e.name]
            u == [t EXCEPT !.chain = [t.chain EXCEPT ![b] = t.chain[b] \cup {e}]]
<1>1. b \in Buckets /\ t.chain[b] \subseteq Entry
  BY EntryShape, TypedShape
<1>2. Link(t, e) = u
  BY DEF Link
<1>3. /\ u.level = t.level /\ u.capacity = t.capacity /\ u.scope = t.scope
      /\ u.outer = t.outer /\ u.chain = [t.chain EXCEPT ![b] = t.chain[b] \cup {e}]
      /\ u \in [level : Levels, capacity : Nat \ {0},
              chain : [Buckets -> SUBSET Entry],
              scope : [0 .. u.capacity - 1 -> SUBSET Entry],
              outer : [Entry -> Entry \cup {NoEntry}]]
  BY <1>1 DEF Typed
<1>. HIDE DEF u
<1>4. Typed(u) /\ SameLevels(t, u)
  BY <1>3 DEF Typed, SameLevels
<1>5. \A c \in Buckets : \A d : d \in u.chain[c] <=>
                    d \in t.chain[c] \/ (c = b /\ d = e)
  BY <1>1, <1>3, TypedShape
<1>. QED BY <1>2, <1>3, <1>4, <1>5

\* The scopes of u are those of t with a set of entries of one level changed.
ScopeIs(t, u, l, S) ==
    /\ u.scope[l] = S
    /\ \A k \in 0 .. t.capacity - 1 : k # l => u.scope[k] = t.scope[k]

\* A new entry at the current level is linked in the place of the one it hides.
LEMMA EnterShape ==
    ASSUME NEW t, Sound(t), NEW n \in Names, NEW h,
           \/ h = NoEntry /\ Retrieve(t, n) = {}
           \/ h \in Retrieve(t, n) /\ h.level # t.level
    PROVE  /\ Sound(Enter(t, n, h)) /\ SameLevels(t, Enter(t, n, h))
           /\ ScopeIs(t, Enter(t, n, h), t.level, t.scope[t.level] \cup {EntryFor(n, t.level)})
<1>. DEFINE L == t.level  new == EntryFor(n, L)
            u == IF h = NoEntry THEN t ELSE Unlink(t, h)
            w == Link(u, new)
            z == [w EXCEPT !.outer = [w.outer EXCEPT ![new] = h],
                           !.scope = [w.scope EXCEPT ![L] = w.scope[L] \cup {new}]]
<1>0. Typed(t) /\ Hides(t) /\ Linked(t, {}) /\ Covered(t, {}) /\ L \in Levels /\ L \in 0 .. t.capacity - 1
      /\ L = t.level /\ L \in Nat /\ t.capacity \in Nat
  BY TypedShape DEF Sound
<1>1. new \in Entry /\ new.name = n /\ new.level = L
  BY <1>0, EntryShape
<1>2. \A e : e \in Retrieve(t, n) <=> e \in Entry /\ e.name = n /\ Nearest(t, {}, e)
  BY <1>0, RetrieveShape
<1>3. h # NoEntry => /\ h \in Entry /\ h.name = n /\ Nearest(t, {}, h) /\ h.level < L
                     /\ h \in t.chain[Hash[h.name]]
  <2>1. h # NoEntry => h \in Entry /\ h.name = n /\ Nearest(t, {}, h) /\ h.level # L
    BY <1>2
  <2>2. h # NoEntry => h.level <= L /\ h.level \in Nat /\ L \in Nat
    BY <1>0, <2>1, EntryShape, TypedShape DEF Nearest, IsOpen
  <2>. QED BY <1>0, <2>1, <2>2, EntryShape DEF Linked
<1>4. /\ Typed(u) /\ SameLevels(t, u) /\ u.scope = t.scope /\ u.outer = t.outer
      /\ \A b \in Buckets : \A d : d \in u.chain[b] <=> d \in t.chain[b] /\ (b = Hash[n] => d # h)
  <2>1. CASE h = NoEntry
    <3>1. \A b \in Buckets : \A d \in t.chain[b] : d \in Entry /\ d # NoEntry
      BY <1>0, TypedShape, EntryShape
    <3>. QED BY <1>0, <2>1, <3>1 DEF SameLevels
  <2>2. CASE h # NoEntry
    BY <1>0, <1>3, <2>2, UnlinkShape
  <2>. QED BY <2>1, <2>2
<1>. HIDE DEF u
<1>5. /\ Typed(w) /\ SameLevels(t, w) /\ w.scope = t.scope /\ w.outer = t.outer
      /\ \A b \in Buckets : \A d : d \in w.chain[b] <=>
            \/ d \in t.chain[b] /\ (b = Hash[n] => d # h)
            \/ b = Hash[n] /\ d = new
  BY <1>1, <1>4, LinkShape DEF SameLevels
<1>6. Enter(t, n, h) = z
  BY DEF Enter, z, w, u, new, EntryFor
<1>. HIDE DEF w
<1>. DEFINE outer == [t.outer EXCEPT ![new] = h]
            scope == [t.scope EXCEPT ![L] = t.scope[L] \cup {new}]
<1>7. /\ z.level = t.level /\ z.capacity = t.capacity /\ z.chain = w.chain
      /\ z.outer = outer /\ z.scope = scope
      /\ z = [w EXCEPT !.outer = outer, !.scope = scope]
  BY <1>5 DEF Typed, SameLevels
<1>. HIDE DEF z
<1>8. /\ scope \in [0 .. t.capacity - 1 -> SUBSET Entry]
      /\ outer \in [Entry -> Entry \cup {NoEntry}]
      /\ \A k \in 0 .. t.capacity - 1 :
            z.scope[k] = IF k = L THEN t.scope[k] \cup {new} ELSE t.scope[k]
      /\ \A e \in Entry : z.outer[e] = IF e = new THEN h ELSE t.outer[e]
  <2>1. t.scope \in [0 .. t.capacity - 1 -> SUBSET Entry] /\ t.outer \in [Entry -> Entry \cup {NoEntry}]
    BY <1>0, TypedShape
  <2>2. t.scope[L] \cup {new} \in SUBSET Entry /\ h \in Entry \cup {NoEntry}
    BY <1>0, <1>1, <1>3, <2>1
  <2>. HIDE DEF new, L
  <2>3. /\ scope \in [0 .. t.capacity - 1 -> SUBSET Entry]
        /\ \A k \in 0 .. t.capacity - 1 :
              scope[k] = IF k = L THEN t.scope[k] \cup {new} ELSE t.scope[k]
    BY <1>0, <2>1, <2>2
  <2>4. /\ outer \in [Entry -> Entry \cup {NoEntry}]
        /\ \A e \in Entry : outer[e] = IF e = new THEN h ELSE t.outer[e]
    BY <1>1, <2>1, <2>2
  <2>. QED BY <1>7, <2>3, <2>4
<1>. HIDE DEF outer, scope
<1>9. Typed(z) /\ SameLevels(t, z)
  <2>1. z \in [level : Levels, capacity : Nat \ {0},
              chain : [Buckets -> SUBSET Entry],
              scope : [0 .. z.capacity - 1 -> SUBSET Entry],
              outer : [Entry -> Entry \cup {NoEntry}]]
    BY <1>5, <1>7, <1>8 DEF Typed, SameLevels
  <2>. QED BY <1>0, <1>1, <1>7, <1>8, <2>1 DEF Typed, SameLevels
<1>10. \A e \in Entry : IsOpen(z, e) <=> IsOpen(t, e) \/ e = new
  <2>1. \A e \in Entry : e.level <= L => e.level \in 0 .. t.capacity - 1
    BY <1>0, EntryShape
  <2>2. \A e \in Entry : e.level <= L => (e \in z.scope[e.level] <=> e \in t.scope[e.level] \/ e = new)
    BY <1>1, <1>8, <2>1
  <2>3. L <= L
    BY <1>0, TypedShape
  <2>. QED BY <1>1, <1>7, <2>2, <2>3 DEF IsOpen
\* Of this name nothing was open at this level.
<1>11. /\ ~IsOpen(t, new)
       /\ \A d \in Entry : IsOpen(t, d) /\ d.name = n =>
            d.level < L /\ h # NoEntry /\ d.level <= h.level
  <2>1. ASSUME NEW d \in Entry, IsOpen(t, d), d.name = n
        PROVE  d.level < L /\ h # NoEntry /\ d.level <= h.level
    <3>1. PICK f \in Entry : f.name = n /\ Nearest(t, {}, f)
      BY <1>0, <2>1 DEF Sound, Covered
    <3>2. f \in Retrieve(t, n)
      BY <1>2, <3>1
    <3>3. h = f
      BY <1>2, <3>1, <3>2, NearestOnce
    <3>4. d.level <= h.level /\ d.level \in Nat /\ h.level \in Nat
      BY <2>1, <3>1, <3>3, EntryShape DEF Nearest
    <3>5. h # NoEntry
      BY <3>1, <3>3, EntryShape
    <3>. QED BY <1>0, <1>3, <3>1, <3>3, <3>4, <3>5
  <2>. QED BY <1>0, <1>1, <2>1, TypedShape
<1>12. Hides(z)
  <2>1. ASSUME NEW e \in Entry, IsOpen(z, e) PROVE Hidden(z, e, z.outer[e])
    <3>1. CASE e = new
      BY <1>0, <1>1, <1>3, <1>8, <1>10, <1>11, <3>1, EntryShape DEF Hidden, Nearest
    <3>2. CASE e # new
      <4>1. IsOpen(t, e) /\ Hidden(t, e, t.outer[e]) /\ z.outer[e] = t.outer[e]
        BY <1>0, <1>8, <1>10, <2>1, <3>2 DEF Hides
      <4>2. new.name = e.name => e.level < new.level
        BY <1>1, <1>11, <4>1
      <4>3. t.outer[e] # NoEntry => t.outer[e] \in Entry
        BY <4>1 DEF Hidden, IsOpen
      <4>. QED BY <1>1, <1>10, <4>1, <4>2, <4>3, EntryShape DEF Hidden
    <3>. QED BY <3>1, <3>2
  <2>. QED BY <2>1 DEF Hides
<1>13. \A e \in Entry : Nearest(z, {}, e) <=> e = new \/ (e.name # n /\ Nearest(t, {}, e))
  BY <1>0, <1>1, <1>10, <1>11, EntryShape DEF Nearest
<1>14. Linked(z, {})
  <2>1. ASSUME NEW b \in Buckets, NEW e \in Entry
        PROVE  e \in z.chain[b] <=> b = Hash[e.name] /\ Nearest(z, {}, e)
    <3>1. e \in t.chain[b] <=> b = Hash[e.name] /\ Nearest(t, {}, e)
      BY <1>0 DEF Linked
    <3>2. e.name = n /\ Nearest(t, {}, e) => e = h
      BY <1>2, <1>3, NearestOnce
    <3>3. /\ new.name = n /\ Nearest(z, {}, new)
          /\ h # NoEntry => h \in Entry /\ h.name = n /\ Nearest(t, {}, h)
      BY <1>1, <1>3, <1>13
    <3>4. e \in z.chain[b] <=> \/ e \in t.chain[b] /\ (b = Hash[n] => e # h)
                               \/ b = Hash[n] /\ e = new
      BY <1>5, <1>7
    <3>5. e # NoEntry
      BY EntryShape
    <3>. HIDE DEF new
    <3>6. CASE e.name = n
      <4>1. e = new => Nearest(z, {}, e)
        BY <3>3
      <4>2. Nearest(z, {}, e) => e = new
        BY <1>13, <3>6
      <4>. QED BY <3>1, <3>2, <3>6, <3>4, <4>1, <4>2
    <3>7. CASE e.name # n
      <4>1. e # new /\ (e = h => FALSE)
        BY <3>3, <3>7, <3>5
      <4>2. Nearest(z, {}, e) <=> Nearest(t, {}, e)
        BY <1>13, <3>7, <4>1
      <4>. QED BY <3>1, <3>4, <4>1, <4>2
    <3>. QED BY <3>6, <3>7
  <2>. QED BY <2>1 DEF Linked
<1>15. Covered(z, {})
  <2>1. ASSUME NEW e \in Entry, IsOpen(z, e)
        PROVE  \E f \in Entry : f.name = e.name /\ Nearest(z, {}, f)
    <3>1. CASE e.name = n
      BY <1>1, <1>13, <3>1
    <3>2. CASE e.name # n
      <4>1. PICK f \in Entry : f.name = e.name /\ Nearest(t, {}, f)
        BY <1>0, <1>1, <1>10, <2>1, <3>2 DEF Covered
      <4>. QED BY <1>13, <3>2, <4>1
    <3>. QED BY <3>1, <3>2
  <2>. QED BY <2>1 DEF Covered
<1>16. ScopeIs(t, z, t.level, t.scope[t.level] \cup {EntryFor(n, t.level)})
  BY <1>0, <1>8 DEF ScopeIs, new, L
<1>. QED BY <1>6, <1>9, <1>12, <1>14, <1>15, <1>16 DEF Sound

LEMMA EnterSymbolShape ==
    ASSUME NEW t, Sound(t), NEW n \in Names, NEW u \in EnterSymbol(t, n)
    PROVE  /\ Sound(u) /\ SameLevels(t, u)
           /\ ScopeIs(t, u, t.level, t.scope[t.level] \cup {EntryFor(n, t.level)})
<1>1. CASE Retrieve(t, n) = {}
  <2>1. u = Enter(t, n, NoEntry)
    BY <1>1 DEF EnterSymbol
  <2>. QED BY <1>1, <2>1, EnterShape
<1>2. CASE Retrieve(t, n) # {}
  <2>1. PICK e \in Retrieve(t, n) : u = IF e.level = t.level THEN t ELSE Enter(t, n, e)
    BY <1>2 DEF EnterSymbol
  <2>2. CASE e.level # t.level
    BY <2>1, <2>2, EnterShape
  <2>3. CASE e.level = t.level
    <3>1. e \in Entry /\ e.name = n /\ Nearest(t, {}, e)
      BY RetrieveShape DEF Sound
    <3>2. e = EntryFor(n, t.level)
      BY <2>3, <3>1, EntryShape
    <3>3. e \in t.scope[t.level]
      BY <2>3, <3>1 DEF Nearest, IsOpen
    <3>. QED BY <2>1, <2>3, <3>2, <3>3 DEF SameLevels, ScopeIs
  <2>. QED BY <2>2, <2>3
<1>. QED BY <1>1, <1>2

\* Nothing depends on more than the open declarations, the links and the chains.
LEMMA SameOpen ==
    ASSUME NEW t, NEW u, NEW gone, NEW left, u.chain = t.chain, u.outer = t.outer,
           \A e \in Entry : IsOpen(u, e) /\ e \notin left <=> IsOpen(t, e) /\ e \notin gone,
           Linked(t, gone), Covered(t, gone)
    PROVE  Linked(u, left) /\ Covered(u, left)
<1>1. \A e \in Entry : Nearest(u, left, e) <=> Nearest(t, gone, e)
  BY DEF Nearest
<1>. QED BY <1>1 DEF Linked, Covered

LEMMA OpenShape ==
    ASSUME NEW t, Sound(t), t.level < MaxLevel
    PROVE  /\ Sound(OpenScope(t)) /\ OpenScope(t).level = t.level + 1
           /\ OpenScope(t).scope[t.level + 1] = {}
           /\ \A l \in 0 .. t.level : OpenScope(t).scope[l] = t.scope[l]
<1>. DEFINE L == t.level + 1
            c == IF L = t.capacity THEN 2 * t.capacity ELSE t.capacity
            scope == [i \in 0 .. c - 1 |-> IF i < t.capacity /\ i # L THEN t.scope[i] ELSE {}]
            u == [t EXCEPT !.level = L, !.capacity = c, !.scope = scope]
<1>0. /\ Typed(t) /\ t.level \in Nat /\ t.level < t.capacity /\ t.capacity \in Nat \ {0}
      /\ t.scope \in [0 .. t.capacity - 1 -> SUBSET Entry]
  BY TypedShape DEF Sound, Typed
<1>1. L \in Levels /\ L \in Nat /\ c \in Nat \ {0} /\ L < c /\ t.capacity <= c
  BY <1>0, TableAssumption DEF Levels
<1>2. u = OpenScope(t)
  BY DEF OpenScope
<1>3. scope \in [0 .. c - 1 -> SUBSET Entry]
  BY <1>0, <1>1
<1>4. \A l \in 0 .. c - 1 :
        scope[l] = IF l < t.capacity /\ l # L THEN t.scope[l] ELSE {}
  OBVIOUS
<1>5. \A l \in 0 .. t.capacity - 1 : \A e \in t.scope[l] : e.level = l /\ l <= t.level
  BY <1>0 DEF Typed
<1>6. \A l \in 0 .. c - 1 : \A e \in scope[l] :
        l \in 0 .. t.capacity - 1 /\ e \in t.scope[l] /\ e.level = l /\ l <= t.level
  BY <1>0, <1>1, <1>4, <1>5
<1>7. \A l \in 0 .. t.level : scope[l] = t.scope[l]
  BY <1>0, <1>1, <1>4
<1>8. scope[L] = {}
  BY <1>0, <1>1, <1>4
<1>. HIDE DEF scope, c
<1>9. /\ u.level = L /\ u.capacity = c /\ u.scope = scope
      /\ u.chain = t.chain /\ u.outer = t.outer
      /\ u \in [level : Levels, capacity : Nat \ {0},
              chain : [Buckets -> SUBSET Entry],
              scope : [0 .. c - 1 -> SUBSET Entry],
              outer : [Entry -> Entry \cup {NoEntry}]]
  BY <1>0, <1>1, <1>3 DEF Typed
<1>. HIDE DEF u
<1>10. Typed(u)
  BY <1>0, <1>1, <1>6, <1>9 DEF Typed
<1>11. \A e \in Entry : IsOpen(u, e) <=> IsOpen(t, e)
  <2>1. ASSUME NEW e \in Entry PROVE IsOpen(u, e) <=> IsOpen(t, e)
    <3>1. e.level \in Nat
      BY EntryShape
    <3>2. CASE e.level <= t.level
      BY <1>0, <1>7, <1>9, <3>1, <3>2 DEF IsOpen
    <3>3. CASE e.level > t.level
      <4>1. IsOpen(u, e) => e.level = L
        BY <1>0, <1>9, <3>1, <3>3 DEF IsOpen
      <4>. QED BY <1>0, <1>8, <1>9, <3>1, <3>3, <4>1 DEF IsOpen
    <3>. QED BY <1>0, <3>1, <3>2, <3>3
  <2>. QED BY <2>1
<1>12. Linked(u, {}) /\ Covered(u, {})
  <2>1. \A e \in Entry : IsOpen(u, e) /\ e \notin {} <=> IsOpen(t, e) /\ e \notin {}
    BY <1>11
  <2>2. u.chain = t.chain /\ u.outer = t.outer
    BY <1>9
  <2>3. Linked(t, {}) /\ Covered(t, {})
    BY DEF Sound
  <2>. QED BY <2>1, <2>2, <2>3, SameOpen
<1>13. Hides(u)
  <2>1. ASSUME NEW e \in Entry, IsOpen(u, e) PROVE Hidden(u, e, u.outer[e])
    <3>1. Hidden(t, e, t.outer[e])
      BY <1>11, <2>1 DEF Sound, Hides
    <3>2. t.outer[e] # NoEntry => t.outer[e] \in Entry
      BY <3>1 DEF Hidden, IsOpen
    <3>. QED BY <1>9, <1>11, <3>1, <3>2 DEF Hidden
  <2>. QED BY <2>1 DEF Hides
<1>. QED BY <1>2, <1>7, <1>8, <1>9, <1>10, <1>12, <1>13 DEF Sound

\* One turn of the loop of closeScope: e gives way to the entry it hides.
LEMMA UncoverShape ==
    ASSUME NEW t, Typed(t), Hides(t), NEW gone, Linked(t, gone), Covered(t, gone),
           NEW e \in Entry, e \in t.scope[t.level], e.level = t.level, e \notin gone,
           \A d \in gone : d.level = t.level
    PROVE  /\ e \in t.chain[Hash[e.name]]
           /\ Typed(Uncover(t, e)) /\ Hides(Uncover(t, e)) /\ SameLevels(t, Uncover(t, e))
           /\ Linked(Uncover(t, e), gone \cup {e}) /\ Covered(Uncover(t, e), gone \cup {e})
           /\ Uncover(t, e).scope = t.scope
<1>. DEFINE o == t.outer[e]  u == Uncover(t, e)  w == Unlink(t, e)
<1>0. /\ t.level \in Nat /\ o \in Entry \cup {NoEntry} /\ NoEntry \notin Entry
      /\ \A d \in Entry : IsOpen(t, d) => d.level <= t.level
  BY TypedShape, TableAssumption DEF IsOpen
<1>1. IsOpen(t, e) /\ Nearest(t, gone, e) /\ Hidden(t, e, o)
  BY <1>0 DEF IsOpen, Nearest, Hides
<1>2. e \in t.chain[Hash[e.name]]
  BY <1>1, EntryShape DEF Linked
<1>3. /\ Typed(w) /\ SameLevels(t, w) /\ w.scope = t.scope /\ w.outer = t.outer
      /\ \A b \in Buckets : \A d : d \in w.chain[b] <=>
                    d \in t.chain[b] /\ (b = Hash[e.name] => d # e)
  BY <1>2, UnlinkShape
<1>. HIDE DEF w
<1>4. /\ Typed(u) /\ SameLevels(t, u) /\ u.scope = t.scope /\ u.outer = t.outer
      /\ \A b \in Buckets : \A d \in Entry : d \in u.chain[b] <=>
                    \/ d \in t.chain[b] /\ (b = Hash[e.name] => d # e)
                    \/ b = Hash[o.name] /\ d = o
  <2>1. CASE o = NoEntry
    <3>1. u = w
      BY <2>1 DEF Uncover, w
    <3>. QED BY <1>0, <1>3, <2>1, <3>1
  <2>2. CASE o # NoEntry
    <3>1. u = Link(w, o) /\ o \in Entry
      BY <1>0, <2>2 DEF Uncover, w
    <3>. HIDE DEF u, o
    <3>2. /\ Typed(u) /\ SameLevels(w, u) /\ u.scope = w.scope /\ u.outer = w.outer
          /\ \A b \in Buckets : \A d : d \in u.chain[b] <=>
                    d \in w.chain[b] \/ (b = Hash[o.name] /\ d = o)
      BY <1>3, <3>1, LinkShape
    <3>. QED BY <1>3, <3>2 DEF SameLevels
  <2>. QED BY <2>1, <2>2
<1>. HIDE DEF u
<1>5. \A d \in Entry : IsOpen(u, d) <=> IsOpen(t, d)
  BY <1>4 DEF IsOpen, SameLevels
<1>6. Hides(u)
  <2>1. ASSUME NEW d \in Entry, IsOpen(u, d) PROVE Hidden(u, d, u.outer[d])
    <3>1. Hidden(t, d, t.outer[d])
      BY <1>5, <2>1 DEF Hides
    <3>2. t.outer[d] # NoEntry => t.outer[d] \in Entry
      BY <3>1 DEF Hidden, IsOpen
    <3>. QED BY <1>4, <1>5, <3>1, <3>2 DEF Hidden
  <2>. QED BY <2>1 DEF Hides
\* With e gone, what it hid is the nearest of its name.
<1>7. o \in Entry => /\ IsOpen(t, o) /\ o.name = e.name /\ o.level < e.level
                     /\ o \notin gone /\ o # e
  BY <1>0, <1>1, EntryShape DEF Hidden
<1>8. ASSUME NEW d \in Entry, IsOpen(t, d), d \notin gone, d # e, d.name = e.name
      PROVE  o \in Entry /\ d.level <= o.level
  <2>1. d.level <= e.level /\ d.level # e.level /\ d.level \in Nat /\ e.level \in Nat
    BY <1>1, <1>8, EntryShape DEF Nearest
  <2>. QED BY <1>0, <1>1, <1>8, <2>1 DEF Hidden
<1>9. \A d \in Entry : Nearest(u, gone \cup {e}, d) <=>
          d = o \/ (d.name # e.name /\ Nearest(t, gone, d))
  <2>1. ASSUME NEW d \in Entry, d.name # e.name
        PROVE  Nearest(u, gone \cup {e}, d) <=> Nearest(t, gone, d)
    BY <1>5, <2>1 DEF Nearest
  <2>2. ASSUME NEW d \in Entry, d.name = e.name
        PROVE  Nearest(u, gone \cup {e}, d) <=> d = o
    <3>1. ASSUME d = o PROVE Nearest(u, gone \cup {e}, d)
      BY <1>5, <1>7, <1>8, <3>1 DEF Nearest
    <3>2. ASSUME Nearest(u, gone \cup {e}, d) PROVE d = o
      <4>1. IsOpen(t, d) /\ d \notin gone /\ d # e
        BY <1>5, <3>2 DEF Nearest
      <4>2. o \in Entry /\ d.level <= o.level /\ d.level \in Nat /\ o.level \in Nat
        BY <1>8, <2>2, <4>1, EntryShape
      <4>3. o.level <= d.level
        BY <1>5, <1>7, <2>2, <3>2, <4>2 DEF Nearest
      <4>. QED BY <1>7, <2>2, <4>2, <4>3, EntryShape
    <3>. QED BY <3>1, <3>2
  <2>3. \A d \in Entry : d = o => d.name = e.name
    BY <1>7
  <2>. QED BY <2>1, <2>2, <2>3
<1>10. Linked(u, gone \cup {e})
  <2>1. ASSUME NEW b \in Buckets, NEW d \in Entry
        PROVE  d \in u.chain[b] <=> b = Hash[d.name] /\ Nearest(u, gone \cup {e}, d)
    <3>1. d \in t.chain[b] <=> b = Hash[d.name] /\ Nearest(t, gone, d)
      BY DEF Linked
    <3>2. d.name = e.name /\ Nearest(t, gone, d) => d = e
      BY <1>1, NearestOnce
    <3>3. /\ d \in u.chain[b] <=> \/ d \in t.chain[b] /\ (b = Hash[e.name] => d # e)
                                  \/ b = Hash[o.name] /\ d = o
          /\ d = o => o.name = e.name /\ o # e
          /\ Nearest(u, gone \cup {e}, d) <=>
                d = o \/ (d.name # e.name /\ Nearest(t, gone, d))
      BY <1>4, <1>7, <1>9
    <3>. HIDE DEF o
    <3>4. CASE d.name = e.name
      BY <3>1, <3>2, <3>3, <3>4
    <3>5. CASE d.name # e.name
      <4>1. d # e /\ d # o
        BY <3>3, <3>5
      <4>. QED BY <3>1, <3>3, <3>5, <4>1
    <3>. QED BY <3>4, <3>5
  <2>. QED BY <2>1 DEF Linked
<1>11. Covered(u, gone \cup {e})
  <2>1. ASSUME NEW d \in Entry, IsOpen(u, d), d \notin gone \cup {e}
        PROVE  \E f \in Entry : f.name = d.name /\ Nearest(u, gone \cup {e}, f)
    <3>1. CASE d.name = e.name
      <4>1. o \in Entry /\ o.name = d.name
        BY <1>5, <1>7, <1>8, <2>1, <3>1
      <4>. QED BY <1>9, <4>1
    <3>2. CASE d.name # e.name
      <4>1. PICK f \in Entry : f.name = d.name /\ Nearest(t, gone, f)
        BY <1>5, <2>1 DEF Covered
      <4>. QED BY <1>9, <3>2, <4>1
    <3>. QED BY <3>1, <3>2
  <2>. QED BY <2>1 DEF Covered
<1>. QED BY <1>2, <1>4, <1>6, <1>10, <1>11 DEF u

\* closeScope takes the level away once every entry of it is unlinked.
LEMMA LeaveShape ==
    ASSUME NEW t, Typed(t), Hides(t), Linked(t, t.scope[t.level]),
           Covered(t, t.scope[t.level]), t.level > 0
    PROVE  /\ Sound(LeaveScope(t)) /\ LeaveScope(t).level = t.level - 1
           /\ LeaveScope(t).capacity = t.capacity
           /\ ScopeIs(t, LeaveScope(t), t.level, {})
<1>. DEFINE L == t.level  gone == t.scope[L]
            scope == [t.scope EXCEPT ![L] = {}]
            u == [t EXCEPT !.scope = scope, !.level = L - 1]
<1>0. /\ L \in Nat /\ L > 0 /\ L - 1 \in Levels /\ L - 1 \in Nat /\ L \in 0 .. t.capacity - 1
      /\ L < t.capacity /\ t.capacity \in Nat \ {0}
      /\ t.scope \in [0 .. t.capacity - 1 -> SUBSET Entry]
      /\ \A l \in 0 .. t.capacity - 1 : \A e \in t.scope[l] : e.level = l /\ l <= L
  <2>1. /\ L \in Nat /\ L <= MaxLevel /\ MaxLevel \in Nat /\ L \in 0 .. t.capacity - 1
        /\ L < t.capacity /\ t.capacity \in Nat \ {0}
        /\ t.scope \in [0 .. t.capacity - 1 -> SUBSET Entry]
    BY TypedShape, TableAssumption DEF Typed
  <2>2. \A l \in 0 .. t.capacity - 1 : \A e \in t.scope[l] : e.level = l /\ l <= L
    BY DEF Typed
  <2>3. L - 1 \in Levels /\ L - 1 \in Nat /\ L > 0
    BY <2>1 DEF Levels
  <2>. QED BY <2>1, <2>2, <2>3
<1>1. u = LeaveScope(t)
  BY DEF LeaveScope
<1>2. /\ scope \in [0 .. t.capacity - 1 -> SUBSET Entry]
      /\ \A l \in 0 .. t.capacity - 1 : scope[l] = IF l = L THEN {} ELSE t.scope[l]
  BY <1>0
<1>3. /\ u.level = L - 1 /\ u.capacity = t.capacity /\ u.scope = scope
      /\ u.chain = t.chain /\ u.outer = t.outer
      /\ u \in [level : Levels, capacity : Nat \ {0},
              chain : [Buckets -> SUBSET Entry],
              scope : [0 .. t.capacity - 1 -> SUBSET Entry],
              outer : [Entry -> Entry \cup {NoEntry}]]
  BY <1>0, <1>2 DEF Typed
<1>. HIDE DEF scope, u
<1>4. Typed(u)
  <2>1. \A l \in 0 .. t.capacity - 1 : \A e \in scope[l] : e.level = l /\ l <= L - 1
    BY <1>0, <1>2
  <2>. QED BY <1>0, <1>3, <2>1 DEF Typed
<1>5. \A e \in Entry : IsOpen(u, e) <=> IsOpen(t, e) /\ e.level # L
  <2>1. ASSUME NEW e \in Entry PROVE IsOpen(u, e) <=> IsOpen(t, e) /\ e.level # L
    <3>1. e.level \in Nat
      BY EntryShape
    <3>2. e.level <= L /\ e.level # L <=> e.level <= L - 1
      BY <1>0, <3>1
    <3>3. e.level <= L - 1 => u.scope[e.level] = t.scope[e.level]
      <4>1. e.level <= L - 1 => e.level \in 0 .. t.capacity - 1 /\ e.level # L
        BY <1>0, <3>1
      <4>. QED BY <1>2, <1>3, <4>1
    <3>. QED BY <1>3, <3>2, <3>3 DEF IsOpen
  <2>. QED BY <2>1
<1>6. \A e \in Entry : IsOpen(u, e) /\ e \notin {} <=> IsOpen(t, e) /\ e \notin gone
  <2>1. \A e \in Entry : IsOpen(t, e) => (e \in gone <=> e.level = L)
    BY <1>0 DEF IsOpen
  <2>. QED BY <1>5, <2>1
<1>7. Linked(u, {}) /\ Covered(u, {})
  BY <1>3, <1>6, SameOpen
<1>8. Hides(u)
  <2>1. ASSUME NEW e \in Entry, IsOpen(u, e) PROVE Hidden(u, e, u.outer[e])
    <3>1. Hidden(t, e, t.outer[e]) /\ IsOpen(t, e) /\ e.level # L
      BY <1>5, <2>1 DEF Hides
    <3>2. e.level < L /\ e.level \in Nat
      BY <1>0, <3>1, EntryShape DEF IsOpen
    <3>3. t.outer[e] # NoEntry =>
            t.outer[e] \in Entry /\ t.outer[e].level \in Nat /\ t.outer[e].level # L
      BY <1>0, <3>1, <3>2, EntryShape DEF Hidden, IsOpen
    <3>. QED BY <1>3, <1>5, <3>1, <3>3 DEF Hidden
  <2>. QED BY <2>1 DEF Hides
<1>. QED BY <1>0, <1>1, <1>2, <1>3, <1>4, <1>7, <1>8 DEF Sound, ScopeIs

\* removeSymbol at the outermost level: the name is gone from its scope.
LEMMA RemoveShape ==
    ASSUME NEW t, Sound(t), t.level = 0, NEW n \in Names, NEW u \in RemoveSymbol(t, n)
    PROVE  /\ Sound(u) /\ SameLevels(t, u)
           /\ ScopeIs(t, u, 0, t.scope[0] \ {EntryFor(n, 0)})
<1>. DEFINE x == EntryFor(n, 0)
<1>0. /\ Typed(t) /\ Hides(t) /\ Linked(t, {}) /\ Covered(t, {}) /\ 0 \in 0 .. t.capacity - 1
      /\ t.scope \in [0 .. t.capacity - 1 -> SUBSET Entry] /\ t.capacity \in Nat \ {0}
      /\ \A l \in 0 .. t.capacity - 1 : \A e \in t.scope[l] : e.level = l /\ l <= t.level
      /\ x \in Entry /\ x.name = n /\ x.level = 0
  BY TypedShape, EntryShape DEF Sound, Typed
<1>1. \A e : e \in Retrieve(t, n) <=> e \in Entry /\ e.name = n /\ Nearest(t, {}, e)
  BY <1>0, RetrieveShape
<1>2. \A e \in Entry : IsOpen(t, e) <=> e.level = 0 /\ e \in t.scope[0]
  BY <1>0, EntryShape DEF IsOpen
<1>3. \A e \in Retrieve(t, n) : e = x /\ x \in t.scope[0]
  BY <1>0, <1>1, <1>2, EntryShape DEF Nearest
<1>4. CASE Retrieve(t, n) = {}
  <2>1. x \notin t.scope[0]
    <3>1. SUFFICES ASSUME x \in t.scope[0] PROVE FALSE
      OBVIOUS
    <3>2. IsOpen(t, x) /\ x \notin {}
      BY <1>0, <1>2, <3>1
    <3>3. PICK f \in Entry : f.name = n /\ Nearest(t, {}, f)
      BY <1>0, <3>2 DEF Covered
    <3>. QED BY <1>1, <1>4, <3>3
  <2>2. u = t
    BY <1>4 DEF RemoveSymbol
  <2>. QED BY <2>1, <2>2 DEF SameLevels, ScopeIs
<1>5. CASE Retrieve(t, n) # {}
  <2>. DEFINE w == Uncover(t, x)  scope == [t.scope EXCEPT ![0] = t.scope[0] \ {x}]
  <2>1. u = [w EXCEPT !.scope[0] = w.scope[0] \ {x}] /\ x \in t.scope[0]
    BY <1>0, <1>3, <1>5 DEF RemoveSymbol
  <2>2. /\ Typed(w) /\ Hides(w) /\ SameLevels(t, w) /\ w.scope = t.scope
        /\ Linked(w, {x}) /\ Covered(w, {x})
    <3>. DEFINE none == {}
    <3>1. /\ x \notin none /\ x.level = t.level /\ \A d \in none : d.level = t.level
          /\ none \cup {x} = {x} /\ x \in t.scope[t.level]
          /\ Linked(t, none) /\ Covered(t, none) /\ x \in Entry
      BY <1>0, <2>1
    <3>. HIDE DEF x, none
    <3>2. /\ Typed(w) /\ Hides(w) /\ SameLevels(t, w) /\ w.scope = t.scope
          /\ Linked(w, none \cup {x}) /\ Covered(w, none \cup {x})
      BY <1>0, <3>1, UncoverShape
    <3>. QED BY <3>1, <3>2
  <2>. HIDE DEF w
  <2>3. u = [w EXCEPT !.scope = scope]
    BY <2>1, <2>2
  <2>4. /\ scope \in [0 .. t.capacity - 1 -> SUBSET Entry]
        /\ \A l \in 0 .. t.capacity - 1 :
              scope[l] = IF l = 0 THEN t.scope[0] \ {x} ELSE t.scope[l]
    BY <1>0
  <2>. HIDE DEF scope, x
  <2>5. /\ u.level = 0 /\ u.capacity = t.capacity /\ u.scope = scope
        /\ u.chain = w.chain /\ u.outer = w.outer
        /\ u \in [level : Levels, capacity : Nat \ {0},
              chain : [Buckets -> SUBSET Entry],
              scope : [0 .. t.capacity - 1 -> SUBSET Entry],
              outer : [Entry -> Entry \cup {NoEntry}]]
    BY <2>2, <2>3, <2>4 DEF Typed, SameLevels
  <2>6. Typed(u)
    <3>1. \A l \in 0 .. t.capacity - 1 : \A e \in scope[l] : e.level = l /\ l <= 0
      BY <1>0, <2>4
    <3>. QED BY <1>0, <2>5, <3>1 DEF Typed
  <2>7. \A e \in Entry : /\ IsOpen(u, e) <=> IsOpen(t, e) /\ e # x
                         /\ IsOpen(w, e) <=> IsOpen(t, e)
    <3>1. \A e \in Entry : IsOpen(w, e) <=> IsOpen(t, e)
      BY <2>2 DEF IsOpen, SameLevels
    <3>2. \A e \in Entry : IsOpen(u, e) <=> e.level = 0 /\ e \in scope[0]
      BY <2>5, EntryShape DEF IsOpen
    <3>3. scope[0] = t.scope[0] \ {x}
      BY <1>0, <2>4
    <3>. QED BY <1>2, <3>1, <3>2, <3>3
  <2>8. Linked(u, {}) /\ Covered(u, {})
    <3>. DEFINE none == {}  one == {x}
    <3>1. /\ \A e \in Entry : IsOpen(u, e) /\ e \notin none <=> IsOpen(w, e) /\ e \notin one
          /\ Linked(w, one) /\ Covered(w, one)
      BY <2>2, <2>7
    <3>2. u.chain = w.chain /\ u.outer = w.outer
      BY <2>5
    <3>. HIDE DEF none, one
    <3>3. Linked(u, none) /\ Covered(u, none)
      BY <3>1, <3>2, SameOpen
    <3>. QED BY <3>3 DEF none
  <2>9. Hides(u)
    <3>1. ASSUME NEW e \in Entry, IsOpen(u, e) PROVE Hidden(u, e, u.outer[e])
      <4>1. Hidden(w, e, w.outer[e]) /\ e.level = 0
        BY <1>2, <2>2, <2>7, <3>1 DEF Hides
      <4>2. w.outer[e] = NoEntry
        BY <2>7, <1>2, <4>1, EntryShape DEF Hidden, IsOpen
      <4>. QED BY <2>5, <2>7, <4>1, <4>2 DEF Hidden
    <3>. QED BY <3>1 DEF Hides
  <2>. QED BY <1>0, <2>4, <2>5, <2>6, <2>8, <2>9 DEF Sound, SameLevels, ScopeIs, x
<1>. QED BY <1>4, <1>5

-----------------------------------------------------------------------------
(* The invariant *)

\* The entries the loop of closeScope has done with.
gone == IF closing THEN table.scope[table.level] \ todo ELSE {}

TableInv ==
    /\ Typed(table) /\ Hides(table) /\ Linked(table, gone) /\ Covered(table, gone)
    /\ todo \subseteq table.scope[table.level]
    /\ ~closing => todo = {}

PhaseInv ==
    /\ phase \in {"global", "params", "body"} /\ fn \in Function /\ closing \in BOOLEAN
    /\ phase = "global" => table.level = 0 /\ ~closing
    /\ phase = "params" => table.level = 1
    /\ phase = "body" => table.level > 0
    /\ phase # "global" /\ fn.entered => EntryFor(fn.name, 0) \in table.scope[0]

IInv == TableInv /\ PhaseInv

\* Between the turns of closeScope the table is sound.
LEMMA SoundNow == ASSUME TableInv, ~closing PROVE Sound(table) /\ gone = {}
BY DEF TableInv, gone, Sound

LEMMA SoundNext ==
    ASSUME Sound(table'), closing' = FALSE, todo' = {}
    PROVE  TableInv'
<1>1. gone' = {}
  BY DEF gone
<1>. QED BY <1>1 DEF TableInv, Sound

LEMMA FunctionShape ==
    /\ NoFunction \in Function /\ ~NoFunction.entered
    /\ \A n \in Names, a, b \in BOOLEAN :
          /\ [name |-> n, entered |-> a, error |-> b] \in Function
          /\ [name |-> n, entered |-> a, error |-> b].entered = a
          /\ [name |-> n, entered |-> a, error |-> b].name = n
    /\ \A f \in Function : f.name \in Names /\ f.entered \in BOOLEAN /\ f.error \in BOOLEAN
BY TableAssumption DEF Function, NoFunction

LEMMA InitStep == Init => IInv
<1>. SUFFICES ASSUME Init PROVE IInv
  OBVIOUS
<1>1. /\ table = EmptyTable /\ phase = "global" /\ fn = NoFunction
      /\ closing = FALSE /\ todo = {} /\ gone = {}
  BY DEF Init, gone
<1>. DEFINE t == EmptyTable  P == [name : Predefined, level : {0}]
            scope == [l \in 0 .. InitialCapacity - 1 |-> IF l = 0 THEN P ELSE {}]
            chain == [b \in Buckets |-> [name : {n \in Predefined : Hash[n] = b}, level : {0}]]
<1>2. 0 \in Levels /\ InitialCapacity \in Nat \ {0} /\ 0 \in 0 .. InitialCapacity - 1
  BY TableAssumption DEF Levels
<1>3. P \subseteq Entry /\ \A e \in Entry : e \in P <=> e.name \in Predefined /\ e.level = 0
  BY <1>2, TableAssumption DEF Entry
<1>4. /\ chain \in [Buckets -> SUBSET Entry]
      /\ \A b \in Buckets, e \in Entry : e \in chain[b] <=> b = Hash[e.name] /\ e \in P
  <2>1. \A b \in Buckets : chain[b] \subseteq Entry
    BY <1>2, TableAssumption DEF Entry
  <2>2. \A b \in Buckets, e \in Entry :
            e \in chain[b] <=> e.name \in Predefined /\ Hash[e.name] = b /\ e.level = 0
    BY DEF Entry
  <2>. QED BY <1>3, <2>1, <2>2
<1>5. /\ scope \in [0 .. InitialCapacity - 1 -> SUBSET Entry] /\ scope[0] = P
      /\ \A l \in 0 .. InitialCapacity - 1 : l # 0 => scope[l] = {}
  BY <1>2, <1>3
<1>6. /\ t.level = 0 /\ t.capacity = InitialCapacity /\ t.chain = chain /\ t.scope = scope
      /\ \A e \in Entry : t.outer[e] = NoEntry
      /\ t \in [level : Levels, capacity : Nat \ {0},
              chain : [Buckets -> SUBSET Entry],
              scope : [0 .. InitialCapacity - 1 -> SUBSET Entry],
              outer : [Entry -> Entry \cup {NoEntry}]]
  BY <1>2, <1>4, <1>5 DEF EmptyTable
<1>. HIDE DEF t, P, scope, chain
<1>7. Typed(t)
  BY <1>2, <1>3, <1>5, <1>6, EntryShape DEF Typed
<1>8. \A e \in Entry : IsOpen(t, e) <=> e \in P
  <2>1. ASSUME NEW e \in Entry PROVE IsOpen(t, e) <=> e \in P
    <3>1. e.level \in Nat /\ (e \in P => e.level = 0)
      BY <1>3, EntryShape
    <3>2. IsOpen(t, e) <=> e.level = 0 /\ e \in scope[e.level]
      BY <1>6, <3>1 DEF IsOpen
    <3>. QED BY <1>5, <3>1, <3>2
  <2>. QED BY <2>1
<1>9. \A e \in Entry : Nearest(t, {}, e) <=> e \in P
  BY <1>3, <1>8, EntryShape DEF Nearest
<1>10. Linked(t, {}) /\ Covered(t, {})
  BY <1>4, <1>6, <1>8, <1>9 DEF Linked, Covered
<1>11. Hides(t)
  BY <1>3, <1>6, <1>8, EntryShape DEF Hides, Hidden
<1>12. TableInv
  BY <1>1, <1>7, <1>10, <1>11 DEF TableInv, t
<1>13. PhaseInv
  BY <1>1, <1>6, FunctionShape DEF PhaseInv, t
<1>. QED BY <1>12, <1>13 DEF IInv

-----------------------------------------------------------------------------
(* The steps *)

LEMMA StutterStep ==
    ASSUME IInv, UNCHANGED <<table, phase, fn, closing, todo>>
    PROVE  IInv'
<1>1. gone' = gone
  BY DEF gone
<1>. QED BY <1>1 DEF IInv, TableInv, PhaseInv

\* A name declared in the current scope.
LEMMA DeclareIdShape ==
    ASSUME TableInv, ~closing, NEW n \in Names, NEW wrong \in BOOLEAN, DeclareId(n, wrong)
    PROVE  /\ Sound(table') /\ SameLevels(table, table')
           /\ IF Refused(n, wrong) THEN table' = table
              ELSE ScopeIs(table, table', table.level,
                           table.scope[table.level] \cup {EntryFor(n, table.level)})
           /\ \A l \in 0 .. table.level : table.scope[l] \subseteq table'.scope[l]
<1>1. Sound(table) /\ table.level \in 0 .. table.capacity - 1
      /\ table.level \in Nat /\ table.capacity \in Nat
  BY SoundNow, TypedShape DEF Sound
<1>2. CASE Refused(n, wrong)
  BY <1>1, <1>2 DEF DeclareId, SameLevels
<1>3. CASE ~Refused(n, wrong)
  <2>1. table' \in EnterSymbol(table, n)
    BY <1>3 DEF DeclareId
  <2>2. /\ Sound(table') /\ SameLevels(table, table')
        /\ ScopeIs(table, table', table.level,
                   table.scope[table.level] \cup {EntryFor(n, table.level)})
    BY <1>1, <2>1, EnterSymbolShape
  <2>3. \A l \in 0 .. table.level : table.scope[l] \subseteq table'.scope[l]
    BY <1>1, <2>2 DEF ScopeIs
  <2>. QED BY <1>3, <2>2, <2>3
<1>. QED BY <1>2, <1>3

LEMMA DeclareStep ==
    ASSUME IInv, NEW n \in Names, NEW wrong \in BOOLEAN, Declare(n, wrong)
    PROVE  IInv'
<1>1. /\ TableInv /\ PhaseInv /\ ~closing /\ DeclareId(n, wrong) /\ todo = {}
      /\ phase' = phase /\ fn' = fn /\ closing' = FALSE /\ todo' = {}
  BY DEF Declare, IInv, TableInv, PhaseInv
<1>2. /\ Sound(table') /\ table'.level = table.level
      /\ \A l \in 0 .. table.level : table.scope[l] \subseteq table'.scope[l]
  BY <1>1, DeclareIdShape DEF SameLevels
<1>3. 0 \in 0 .. table.level
  BY <1>1, TypedShape DEF TableInv
<1>4. PhaseInv'
  BY <1>1, <1>2, <1>3 DEF PhaseInv
<1>. QED BY <1>1, <1>2, <1>4, SoundNext DEF IInv

LEMMA DeclareParameterStep ==
    ASSUME IInv, NEW n \in Names, NEW wrong \in BOOLEAN, DeclareParameter(n, wrong)
    PROVE  IInv'
<1>1. /\ TableInv /\ PhaseInv /\ ~closing /\ DeclareId(n, wrong) /\ todo = {}
      /\ phase' = phase /\ closing' = FALSE /\ todo' = {}
      /\ fn' = [fn EXCEPT !.error = @ \/ Refused(n, wrong)]
  BY DEF DeclareParameter, IInv, TableInv, PhaseInv
<1>2. /\ Sound(table') /\ table'.level = table.level
      /\ \A l \in 0 .. table.level : table.scope[l] \subseteq table'.scope[l]
  BY <1>1, DeclareIdShape DEF SameLevels
<1>3. 0 \in 0 .. table.level
  BY <1>1, TypedShape DEF TableInv
<1>4. fn' \in Function /\ fn'.name = fn.name /\ fn'.entered = fn.entered
  <2>1. fn \in Function /\ (fn.error \/ Refused(n, wrong)) \in BOOLEAN
    BY <1>1 DEF PhaseInv
  <2>. QED BY <1>1, <2>1 DEF Function
<1>5. PhaseInv'
  BY <1>1, <1>2, <1>3, <1>4 DEF PhaseInv
<1>. QED BY <1>1, <1>2, <1>5, SoundNext DEF IInv

LEMMA BeginFunctionStep ==
    ASSUME IInv, NEW n \in Names, NEW wrong \in BOOLEAN, BeginFunction(n, wrong)
    PROVE  IInv'
<1>. DEFINE error == Refused(n, wrong)
<1>1. /\ TableInv /\ PhaseInv /\ ~closing /\ todo = {} /\ phase = "global"
      /\ table.level = 0 /\ table.level < MaxLevel
      /\ phase' = "params" /\ closing' = FALSE /\ todo' = {} /\ error \in BOOLEAN
      /\ fn' = [name |-> n, entered |-> ~error, error |-> error]
  BY DEF BeginFunction, IInv, TableInv, PhaseInv, Refused
<1>2. PICK t \in IF error THEN {table} ELSE EnterSymbol(table, n) : table' = OpenScope(t)
  BY DEF BeginFunction
<1>3. Sound(table) /\ 0 \in 0 .. table.capacity - 1
  BY <1>1, SoundNow, TypedShape DEF TableInv
<1>4. Sound(t) /\ t.level = 0 /\ (~error => EntryFor(n, 0) \in t.scope[0])
  <2>1. CASE error
    BY <1>1, <1>2, <1>3, <2>1
  <2>2. CASE ~error
    BY <1>1, <1>2, <1>3, <2>2, EnterSymbolShape DEF SameLevels, ScopeIs
  <2>. QED BY <2>1, <2>2
<1>5. Sound(table') /\ table'.level = 1 /\ table'.scope[0] = t.scope[0]
  BY <1>1, <1>2, <1>4, OpenShape
<1>. HIDE DEF error
<1>6. fn' \in Function /\ fn'.entered = ~error /\ fn'.name = n
  BY <1>1, FunctionShape
<1>7. PhaseInv'
  <2>1. fn'.entered => EntryFor(fn'.name, 0) \in table'.scope[0]
    <3>1. ASSUME fn'.entered PROVE ~error
      BY <1>6, <3>1, Zenon
    <3>. QED BY <1>4, <1>5, <1>6, <3>1
  <2>2. phase' \in {"global", "params", "body"} /\ closing' \in BOOLEAN /\ phase' = "params"
    BY <1>1
  <2>. QED BY <1>5, <1>6, <2>1, <2>2 DEF PhaseInv
<1>. QED BY <1>1, <1>5, <1>7, SoundNext DEF IInv

LEMMA BeginBodyStep == ASSUME IInv, BeginBody PROVE IInv'
<1>1. gone' = gone
  BY DEF gone, BeginBody
<1>. QED BY <1>1 DEF BeginBody, IInv, TableInv, PhaseInv

LEMMA BeginBlockStep == ASSUME IInv, BeginBlock PROVE IInv'
<1>1. /\ TableInv /\ PhaseInv /\ ~closing /\ todo = {} /\ phase = "body"
      /\ table.level \in Nat /\ 0 \in 0 .. table.level /\ table.level > 0 /\ table.level < MaxLevel
      /\ phase' = phase /\ closing' = FALSE /\ todo' = {} /\ fn' = fn
      /\ table' = OpenScope(table)
  BY TypedShape DEF BeginBlock, IInv, TableInv, PhaseInv
<1>2. Sound(table') /\ table'.level = table.level + 1 /\ table'.scope[0] = table.scope[0]
  BY <1>1, SoundNow, OpenShape
<1>3. /\ phase' = "body" /\ fn' \in Function /\ closing' = FALSE /\ table'.level > 0
      /\ fn'.entered => EntryFor(fn'.name, 0) \in table'.scope[0]
  BY <1>1, <1>2 DEF PhaseInv
<1>4. PhaseInv'
  BY <1>3 DEF PhaseInv
<1>. QED BY <1>1, <1>2, <1>4, SoundNext DEF IInv

LEMMA BeginCloseStep == ASSUME IInv, BeginClose PROVE IInv'
<1>1. /\ TableInv /\ PhaseInv /\ ~closing /\ closing' = TRUE /\ phase # "global"
      /\ todo' = table.scope[table.level] /\ table' = table /\ phase' = phase /\ fn' = fn
  BY DEF BeginClose, IInv
<1>2. gone = {} /\ gone' = {}
  BY <1>1 DEF gone
<1>3. TableInv'
  BY <1>1, <1>2 DEF TableInv
<1>. QED BY <1>1, <1>3 DEF IInv, PhaseInv

LEMMA CloseEntryStep == ASSUME IInv, NEW e \in todo, CloseEntry(e) PROVE IInv'
<1>. DEFINE S == table.scope[table.level]
<1>1. /\ TableInv /\ PhaseInv /\ closing /\ closing' = TRUE /\ gone = S \ todo
      /\ table' = Uncover(table, e) /\ todo' = todo \ {e} /\ phase' = phase /\ fn' = fn
      /\ todo \subseteq S /\ S \subseteq Entry /\ \A d \in S : d.level = table.level
  BY TypedShape DEF CloseEntry, IInv, TableInv, gone, Typed
<1>2. /\ Typed(table') /\ Hides(table') /\ SameLevels(table, table')
      /\ Linked(table', gone \cup {e}) /\ Covered(table', gone \cup {e})
      /\ table'.scope = table.scope
  <2>1. /\ e \in Entry /\ e \in S /\ e.level = table.level /\ e \notin gone
        /\ \A d \in gone : d.level = table.level
    BY <1>1
  <2>. QED BY <1>1, <2>1, UncoverShape DEF TableInv
<1>3. gone' = gone \cup {e}
  BY <1>1, <1>2 DEF gone, SameLevels
<1>4. TableInv'
  BY <1>1, <1>2, <1>3 DEF TableInv, SameLevels
<1>5. PhaseInv'
  BY <1>1, <1>2 DEF PhaseInv, SameLevels
<1>. QED BY <1>4, <1>5 DEF IInv

\* What closeScope, and the removeSymbol after it, leave of the scopes.
LEMMA EndCloseShape ==
    ASSUME IInv, EndClose
    PROVE  /\ Sound(table') /\ table'.level = table.level - 1 /\ table.level > 0
           /\ IF table.level = 1 /\ fn.error /\ fn.entered
              THEN table'.scope[0] = table.scope[0] \ {EntryFor(fn.name, 0)}
              ELSE \A l \in 0 .. table.level - 1 : table'.scope[l] = table.scope[l]
<1>. DEFINE L == table.level  u == LeaveScope(table)
<1>1. /\ TableInv /\ PhaseInv /\ closing /\ todo = {} /\ gone = table.scope[L]
      /\ L \in Nat /\ L > 0 /\ L \in 0 .. table.capacity - 1 /\ table.capacity \in Nat
      /\ fn.name \in Names
  BY TypedShape, FunctionShape DEF EndClose, IInv, TableInv, PhaseInv, gone
<1>2. /\ Sound(u) /\ u.level = L - 1 /\ u.capacity = table.capacity
      /\ ScopeIs(table, u, L, {})
  BY <1>1, LeaveShape DEF TableInv
<1>3. \A l \in 0 .. L - 1 : u.scope[l] = table.scope[l]
  BY <1>1, <1>2 DEF ScopeIs
<1>. HIDE DEF u
<1>4. CASE L = 1 /\ fn.error /\ fn.entered
  <2>1. table' \in RemoveSymbol(u, fn.name) /\ u.level = 0
    BY <1>2, <1>4 DEF EndClose, u
  <2>2. Sound(table') /\ table'.level = 0 /\ table'.scope[0] = u.scope[0] \ {EntryFor(fn.name, 0)}
    BY <1>1, <1>2, <2>1, RemoveShape DEF SameLevels, ScopeIs
  <2>3. u.scope[0] = table.scope[0]
    BY <1>3, <1>4
  <2>. QED BY <1>4, <2>2, <2>3
<1>5. CASE ~(L = 1 /\ fn.error /\ fn.entered)
  <2>1. table' = u
    BY <1>5 DEF EndClose, u
  <2>. QED BY <1>1, <1>2, <1>3, <1>5, <2>1
<1>. QED BY <1>4, <1>5

LEMMA EndCloseStep == ASSUME IInv, EndClose PROVE IInv'
<1>1. /\ TableInv /\ PhaseInv /\ closing' = FALSE /\ todo' = {} /\ table.level \in Nat
      /\ phase' = IF table.level = 1 THEN "global" ELSE phase
      /\ fn' = IF table.level = 1 THEN NoFunction ELSE fn
  BY TypedShape DEF EndClose, IInv, TableInv
<1>2. /\ Sound(table') /\ table'.level = table.level - 1 /\ table.level > 0
      /\ table.level # 1 => table'.scope[0] = table.scope[0]
  <2>1. table.level > 0 => 0 \in 0 .. table.level - 1
    BY <1>1
  <2>. QED BY <2>1, EndCloseShape
<1>3. PhaseInv'
  <2>1. CASE table.level = 1
    <3>1. phase' = "global" /\ fn' = NoFunction /\ closing' = FALSE /\ table'.level = 0
      BY <1>1, <1>2, <2>1
    <3>2. fn' \in Function
      BY <3>1, FunctionShape
    <3>. QED BY <3>1, <3>2 DEF PhaseInv
  <2>2. CASE table.level # 1
    <3>1. /\ phase' = phase /\ fn' = fn /\ closing' = FALSE /\ table'.level > 0
          /\ table'.scope[0] = table.scope[0]
      BY <1>1, <1>2, <2>2
    <3>2. phase = "body"
      BY <1>1, <1>2, <2>2 DEF PhaseInv
    <3>. QED BY <1>1, <3>1, <3>2 DEF PhaseInv
  <2>. QED BY <2>1, <2>2
<1>. QED BY <1>1, <1>2, <1>3, SoundNext DEF IInv

LEMMA NextStep == IInv /\ [Next]_vars => IInv'
<1>. SUFFICES ASSUME IInv, [Next]_vars PROVE IInv'
  OBVIOUS
<1>1. ASSUME NEW n \in Names, Lookup(n) PROVE IInv'
  BY <1>1, StutterStep DEF Lookup
<1>2. CASE \E n \in Names, wrong \in BOOLEAN : Declare(n, wrong)
  BY <1>2, DeclareStep
<1>3. CASE \E n \in Names, wrong \in BOOLEAN : DeclareParameter(n, wrong)
  BY <1>3, DeclareParameterStep
<1>4. CASE \E n \in Names, wrong \in BOOLEAN : BeginFunction(n, wrong)
  BY <1>4, BeginFunctionStep
<1>5. CASE \E e \in todo : CloseEntry(e)
  BY <1>5, CloseEntryStep
<1>6. CASE UNCHANGED vars
  BY <1>6, StutterStep DEF vars
<1>. QED BY <1>1, <1>2, <1>3, <1>4, <1>5, <1>6, BeginBodyStep, BeginBlockStep,
            BeginCloseStep, EndCloseStep DEF Next

LEMMA Invariance == Spec => []IInv
BY InitStep, NextStep, PTL DEF Spec

-----------------------------------------------------------------------------
(* What follows from the invariant *)

LEMMA OpenEntries == ASSUME TableInv PROVE \A e : e \in Open <=> IsOpen(table, e)
<1>1. /\ table.level \in Nat /\ table.capacity \in Nat /\ table.level < table.capacity
      /\ table.scope \in [0 .. table.capacity - 1 -> SUBSET Entry]
      /\ \A l \in 0 .. table.capacity - 1 : \A e \in table.scope[l] : e.level = l
  BY TypedShape DEF TableInv, Typed
<1>2. \A l \in 0 .. table.level : \A e \in table.scope[l] : e \in Entry /\ e.level = l
  BY <1>1
<1>3. ASSUME NEW e, e \in Open PROVE IsOpen(table, e)
  <2>1. PICK l \in 0 .. table.level : e \in table.scope[l]
    BY <1>3 DEF Open
  <2>. QED BY <1>1, <1>2, <2>1 DEF IsOpen
<1>4. ASSUME NEW e, IsOpen(table, e) PROVE e \in Open
  <2>1. e.level \in 0 .. table.level
    BY <1>1, <1>4, EntryShape DEF IsOpen
  <2>. QED BY <1>4, <2>1 DEF IsOpen, Open
<1>. QED BY <1>3, <1>4

LEMMA TypeFollows == IInv => TypeOK
<1>. SUFFICES ASSUME IInv PROVE TypeOK
  OBVIOUS
<1>1. Typed(table) /\ PhaseInv /\ todo \subseteq table.scope[table.level]
  BY DEF IInv, TableInv
<1>2. todo \in SUBSET Entry
  BY <1>1, TypedShape
<1>. QED BY <1>1, <1>2 DEF Typed, PhaseInv, TypeOK

LEMMA InnermostFollows == IInv => Innermost
<1>. SUFFICES ASSUME IInv, ~closing, NEW n \in Names
              PROVE  Retrieve(table, n) =
                     {e \in Named(n) : \A d \in Named(n) : d.level <= e.level}
  BY DEF Innermost
<1>1. \A e : e \in Retrieve(table, n) <=> e \in Entry /\ e.name = n /\ Nearest(table, gone, e)
  BY RetrieveShape DEF IInv, TableInv
<1>2. \A e : e \in Named(n) <=> IsOpen(table, e) /\ e.name = n
  BY OpenEntries DEF IInv, Named
<1>3. gone = {}
  BY DEF gone
<1>. QED BY <1>1, <1>2, <1>3 DEF Nearest, IsOpen

LEMMA ClosingFollows == IInv => ClosingLinked
<1>. SUFFICES ASSUME IInv, NEW e \in todo PROVE e \in table.chain[Hash[e.name]]
  BY DEF ClosingLinked, IInv, TableInv
<1>1. /\ TableInv /\ e \in table.scope[table.level] /\ e \notin gone /\ table.level \in Nat
      /\ e \in Entry /\ e.level = table.level
  BY TypedShape DEF IInv, TableInv, gone, Typed
<1>2. Nearest(table, gone, e)
  BY <1>1 DEF Nearest, IsOpen
<1>. QED BY <1>1, <1>2, EntryShape DEF TableInv, Linked

LEMMA HidesFollows == IInv => HidesNearest
<1>. SUFFICES ASSUME IInv, NEW e \in Open
              PROVE  LET below == {d \in Named(e.name) : d.level < e.level}
                     IN  IF below = {} THEN table.outer[e] = NoEntry
                         ELSE /\ table.outer[e] \in below
                              /\ \A d \in below : d.level <= table.outer[e].level
  BY DEF HidesNearest
<1>. DEFINE below == {d \in Named(e.name) : d.level < e.level}  o == table.outer[e]
<1>1. e \in Entry /\ Hidden(table, e, o)
  BY OpenEntries DEF IInv, TableInv, Hides, IsOpen
<1>2. \A d : d \in below <=> /\ d \in Entry /\ IsOpen(table, d) /\ d.name = e.name
                             /\ d.level < e.level
  BY OpenEntries DEF IInv, Named, IsOpen
<1>. HIDE DEF below, o
<1>3. CASE o = NoEntry
  <2>1. \A d \in Entry : IsOpen(table, d) /\ d.name = e.name => ~(d.level < e.level)
    BY <1>1, <1>3, EntryShape DEF Hidden
  <2>2. below = {}
    BY <1>2, <2>1
  <2>. QED BY <1>3, <2>2 DEF below, o
<1>4. CASE o # NoEntry
  <2>1. o \in below /\ \A d \in below : d.level <= o.level
    BY <1>1, <1>2, <1>4 DEF Hidden, IsOpen
  <2>. QED BY <2>1 DEF below, o
<1>. QED BY <1>3, <1>4

-----------------------------------------------------------------------------
(* The table as a stack of scopes *)

LEMMA NamesShape ==
    /\ \A S : \A n : n \in NamesOf(S) <=> \E e \in S : e.name = n
    /\ NamesOf({}) = {}
    /\ \A S, n, l : NamesOf(S \cup {EntryFor(n, l)}) = NamesOf(S) \cup {n}
<1>1. \A n, l : EntryFor(n, l).name = n
  BY DEF EntryFor
<1>. QED BY <1>1 DEF NamesOf

LEMMA NamesWithdraw ==
    ASSUME NEW n \in Names, NEW S \in SUBSET Entry, \A e \in S : e.level = 0
    PROVE  NamesOf(S \ {EntryFor(n, 0)}) = NamesOf(S) \ {n}
<1>1. 0 \in Levels
  BY TableAssumption DEF Levels
<1>2. \A e \in S : e = EntryFor(n, 0) <=> e.name = n
  BY <1>1, EntryShape
<1>. QED BY <1>2 DEF NamesOf

LEMMA StackShape ==
    ASSUME NEW t, Typed(t)
    PROVE  /\ StackOf(t) \in Seq(SUBSET Names) /\ Len(StackOf(t)) = t.level + 1
           /\ \A d \in 1 .. t.level + 1 : StackOf(t)[d] = NamesOf(t.scope[d - 1])
<1>1. t.level \in Nat /\ t.level + 1 \in Nat
  BY TypedShape
<1>2. \A d \in 1 .. t.level + 1 : NamesOf(t.scope[d - 1]) \in SUBSET Names
  <2>1. \A d \in 1 .. t.level + 1 : t.scope[d - 1] \subseteq Entry
    BY <1>1, TypedShape
  <2>. QED BY <2>1, EntryShape DEF NamesOf
<1>. DEFINE F(d) == NamesOf(t.scope[d - 1])
<1>. HIDE DEF F
<1>3. \A d \in 1 .. t.level + 1 : F(d) \in SUBSET Names
  BY <1>2 DEF F
<1>. DEFINE s == [d \in 1 .. t.level + 1 |-> F(d)]
<1>4. /\ s \in Seq(SUBSET Names) /\ Len(s) = t.level + 1
      /\ \A d \in 1 .. t.level + 1 : s[d] = F(d)
  BY <1>1, <1>3, IsASeq
<1>5. s = StackOf(t)
  BY DEF StackOf, F
<1>. QED BY <1>4, <1>5 DEF F

LEMMA BottomOfStack == ASSUME NEW t, Typed(t) PROVE StackOf(t)[1] = NamesOf(t.scope[0])
<1>1. 1 \in 1 .. t.level + 1 /\ 1 - 1 = 0
  BY TypedShape
<1>. QED BY <1>1, StackShape

LEMMA HeightOne ==
    ASSUME NEW t, Typed(t), t.level = 0
    PROVE  StackOf(t) = <<NamesOf(t.scope[0])>> /\ Len(StackOf(t)) = 1
<1>. DEFINE s == StackOf(t)  a == NamesOf(t.scope[0])
<1>1. Len(s) = t.level + 1 /\ s \in Seq(SUBSET Names) /\ s[1] = a
  BY StackShape, BottomOfStack
<1>2. Len(s) = 1
  BY <1>1
<1>. HIDE DEF s, a
<1>3. s = <<a>>
  BY <1>1, <1>2
<1>. QED BY <1>2, <1>3 DEF s, a

LEMMA HeightTwo ==
    ASSUME NEW t, Typed(t), t.level = 1
    PROVE  StackOf(t) = <<NamesOf(t.scope[0]), NamesOf(t.scope[1])>>
<1>. DEFINE s == StackOf(t)  a == NamesOf(t.scope[0])  b == NamesOf(t.scope[1])
<1>1. /\ Len(s) = t.level + 1 /\ s \in Seq(SUBSET Names) /\ s[1] = a
      /\ \A d \in 1 .. t.level + 1 : s[d] = NamesOf(t.scope[d - 1])
  BY StackShape, BottomOfStack
<1>2. 2 \in 1 .. t.level + 1 /\ 2 - 1 = 1 /\ t.level + 1 = 2
  OBVIOUS
<1>3. s[2] = b /\ Len(s) = 2
  BY <1>1, <1>2
<1>. HIDE DEF s, a, b
<1>4. s = <<a, b>>
  BY <1>1, <1>3
<1>. QED BY <1>4 DEF s, a, b

\* Scopes that are left alone keep their place in the stack.
LEMMA SameStack ==
    ASSUME NEW t, NEW u, Typed(t), Typed(u), u.level = t.level,
           \A l \in 0 .. t.level : u.scope[l] = t.scope[l]
    PROVE  StackOf(u) = StackOf(t)
<1>1. t.level \in Nat
  BY TypedShape
<1>2. \A d \in 1 .. t.level + 1 : NamesOf(u.scope[d - 1]) = NamesOf(t.scope[d - 1])
  BY <1>1
<1>. QED BY <1>2 DEF StackOf

LEMMA PushedStack ==
    ASSUME NEW t, NEW u, Typed(t), Typed(u), u.level = t.level + 1,
           u.scope[t.level + 1] = {}, \A l \in 0 .. t.level : u.scope[l] = t.scope[l]
    PROVE  StackOf(u) = Append(StackOf(t), {})
<1>. DEFINE s == StackOf(t)  w == StackOf(u)  L == t.level
<1>1. /\ s \in Seq(SUBSET Names) /\ w \in Seq(SUBSET Names) /\ L \in Nat
      /\ Len(s) = L + 1 /\ Len(w) = L + 2
      /\ \A d \in 1 .. L + 1 : s[d] = NamesOf(t.scope[d - 1])
      /\ \A d \in 1 .. L + 2 : w[d] = NamesOf(u.scope[d - 1])
  BY StackShape, TypedShape
<1>2. ASSUME NEW d \in 1 .. L + 1 PROVE w[d] = s[d]
  <2>1. d - 1 \in 0 .. L /\ d \in 1 .. L + 2
    BY <1>1
  <2>2. u.scope[d - 1] = t.scope[d - 1]
    BY <2>1
  <2>. QED BY <1>1, <2>1, <2>2
<1>3. w[L + 2] = {}
  <2>1. L + 2 \in 1 .. L + 2 /\ (L + 2) - 1 = L + 1
    BY <1>1
  <2>2. w[L + 2] = NamesOf(u.scope[L + 1])
    BY <1>1, <2>1
  <2>. QED BY <2>2, NamesShape
<1>. HIDE DEF s, w, L
<1>4. w = Append(s, {})
  BY <1>1, <1>2, <1>3
<1>. QED BY <1>4 DEF s, w

LEMMA PoppedStack ==
    ASSUME NEW t, NEW u, Typed(t), Typed(u), u.level = t.level - 1, t.level > 0,
           \A l \in 0 .. t.level - 1 : u.scope[l] = t.scope[l]
    PROVE  StackOf(u) = SubSeq(StackOf(t), 1, Len(StackOf(t)) - 1)
<1>. DEFINE s == StackOf(t)  w == StackOf(u)  L == t.level
<1>1. /\ s \in Seq(SUBSET Names) /\ w \in Seq(SUBSET Names) /\ L \in Nat /\ L > 0
      /\ Len(s) = L + 1 /\ Len(w) = L
      /\ \A d \in 1 .. L + 1 : s[d] = NamesOf(t.scope[d - 1])
      /\ \A d \in 1 .. L : w[d] = NamesOf(u.scope[d - 1])
  BY StackShape, TypedShape
<1>2. ASSUME NEW d \in 1 .. L PROVE w[d] = s[d]
  <2>1. d - 1 \in 0 .. L - 1 /\ d \in 1 .. L + 1
    BY <1>1
  <2>2. u.scope[d - 1] = t.scope[d - 1]
    BY <2>1
  <2>. QED BY <1>1, <2>1, <2>2
<1>. HIDE DEF s, w, L
<1>3. w = SubSeq(s, 1, Len(s) - 1)
  BY <1>1, <1>2
<1>. QED BY <1>3 DEF s, w

\* A name more in the current scope.
LEMMA DeclaredStack ==
    ASSUME NEW t, NEW u, Typed(t), Typed(u), u.level = t.level, NEW n \in Names,
           u.capacity = t.capacity,
           ScopeIs(t, u, t.level, t.scope[t.level] \cup {EntryFor(n, t.level)})
    PROVE  StackOf(u) = [StackOf(t) EXCEPT ![Len(StackOf(t))] = @ \cup {n}]
<1>. DEFINE s == StackOf(t)  w == StackOf(u)  L == t.level
<1>1. /\ s \in Seq(SUBSET Names) /\ w \in Seq(SUBSET Names) /\ L \in Nat
      /\ Len(s) = L + 1 /\ Len(w) = L + 1 /\ t.capacity \in Nat /\ L < t.capacity
      /\ \A d \in 1 .. L + 1 : s[d] = NamesOf(t.scope[d - 1])
      /\ \A d \in 1 .. L + 1 : w[d] = NamesOf(u.scope[d - 1])
  BY StackShape, TypedShape DEF Typed
<1>2. ASSUME NEW d \in 1 .. L PROVE w[d] = s[d]
  <2>1. d - 1 \in 0 .. t.capacity - 1 /\ d - 1 # L /\ d \in 1 .. L + 1
    BY <1>1
  <2>2. u.scope[d - 1] = t.scope[d - 1]
    BY <2>1 DEF ScopeIs
  <2>. QED BY <1>1, <2>1, <2>2
<1>3. w[L + 1] = s[L + 1] \cup {n}
  <2>1. w[L + 1] = NamesOf(u.scope[L]) /\ s[L + 1] = NamesOf(t.scope[L])
    BY <1>1
  <2>2. u.scope[L] = t.scope[L] \cup {EntryFor(n, L)}
    BY DEF ScopeIs
  <2>. QED BY <2>1, <2>2, NamesShape
<1>. HIDE DEF s, w, L
<1>4. w = [s EXCEPT ![Len(s)] = s[Len(s)] \cup {n}]
  BY <1>1, <1>2, <1>3
<1>. QED BY <1>4 DEF s, w

-----------------------------------------------------------------------------
(* The steps of the stack *)

\* Where the stack declares a name, and what is open.
LEMMA DeclaringShape ==
    ASSUME TableInv, NEW n \in Names
    PROVE  \A d : d \in Promised!Declaring(n) <=>
              d \in 1 .. table.level + 1 /\ \E e \in Entry :
                 IsOpen(table, e) /\ e.name = n /\ d = e.level + 1
<1>1. /\ Typed(table) /\ Len(StackOf(table)) = table.level + 1 /\ table.level \in Nat
      /\ \A d \in 1 .. table.level + 1 : StackOf(table)[d] = NamesOf(table.scope[d - 1])
  BY StackShape, TypedShape DEF TableInv
<1>2. ASSUME NEW d \in 1 .. table.level + 1
      PROVE  n \in StackOf(table)[d] <=>
                \E e \in Entry : IsOpen(table, e) /\ e.name = n /\ d = e.level + 1
  <2>1. d - 1 \in 0 .. table.capacity - 1 /\ d - 1 <= table.level /\ d \in Nat
    BY <1>1, TypedShape DEF Typed
  <2>2. \A e \in table.scope[d - 1] : e \in Entry /\ e.level = d - 1
    BY <1>1, <2>1, TypedShape DEF Typed
  <2>3. n \in StackOf(table)[d] <=> \E e \in table.scope[d - 1] : e.name = n
    BY <1>1, NamesShape
  <2>4. ASSUME NEW e \in table.scope[d - 1] PROVE IsOpen(table, e) /\ d = e.level + 1
    BY <2>1, <2>2, <2>4 DEF IsOpen
  <2>5. ASSUME NEW e \in Entry, IsOpen(table, e), d = e.level + 1
        PROVE  e \in table.scope[d - 1]
    <3>1. e.level = d - 1
      BY <2>1, <2>5, EntryShape
    <3>. QED BY <2>5, <3>1 DEF IsOpen
  <2>. QED BY <2>2, <2>3, <2>4, <2>5
<1>. QED BY <1>1, <1>2 DEF Promised!Declaring

LEMMA LookupMaps ==
    ASSUME IInv, NEW n \in Names, Lookup(n)
    PROVE  Promised!Lookup(n)
<1>. DEFINE D == Promised!Declaring(n)
<1>1. /\ TableInv /\ Typed(table) /\ gone = {} /\ table.level \in Nat
      /\ StackOf(table)' = StackOf(table)
  BY TypedShape DEF Lookup, IInv, TableInv, gone
<1>2. \A d : d \in D <=> d \in 1 .. table.level + 1 /\ \E e \in Entry :
                 IsOpen(table, e) /\ e.name = n /\ d = e.level + 1
  BY <1>1, DeclaringShape
<1>3. \A e : e \in Retrieve(table, n) <=> e \in Entry /\ e.name = n /\ Nearest(table, {}, e)
  BY <1>1, RetrieveShape DEF TableInv
<1>. HIDE DEF D
<1>4. CASE Retrieve(table, n) = {}
  <2>1. \A e \in Entry : ~(IsOpen(table, e) /\ e.name = n)
    BY <1>1, <1>3, <1>4 DEF TableInv, Covered
  <2>2. D = {}
    BY <1>2, <2>1
  <2>3. answer' = <<0>>
    BY <1>4 DEF Lookup
  <2>. QED BY <1>1, <2>2, <2>3 DEF Promised!Lookup, D
<1>5. ASSUME NEW e \in Retrieve(table, n), answer' = <<e.level + 1>>
      PROVE  Promised!Lookup(n)
  <2>1. e \in Entry /\ e.name = n /\ IsOpen(table, e) /\ Nearest(table, {}, e) /\ e.level \in Nat
    BY <1>3, EntryShape DEF Nearest
  <2>2. e.level + 1 \in D
    BY <1>1, <1>2, <2>1 DEF IsOpen
  <2>3. ASSUME NEW d \in D PROVE d \in Nat /\ d <= e.level + 1
    <3>1. PICK f \in Entry : IsOpen(table, f) /\ f.name = n /\ d = f.level + 1
      BY <1>2
    <3>. QED BY <2>1, <3>1, EntryShape DEF Nearest
  <2>4. (CHOOSE d \in D : \A c \in D : c <= d) = e.level + 1
    <3>1. ASSUME NEW d \in D, \A c \in D : c <= d PROVE d = e.level + 1
      BY <2>1, <2>2, <2>3, <3>1
    <3>2. \A c \in D : c <= e.level + 1
      BY <2>3
    <3>. QED BY <2>2, <3>1, <3>2
  <2>5. D # {}
    BY <2>2
  <2>. QED BY <1>1, <1>5, <2>4, <2>5 DEF Promised!Lookup, D
<1>. QED BY <1>4, <1>5 DEF Lookup

LEMMA DeclareMaps ==
    ASSUME TableInv, ~closing, Typed(table'), NEW n \in Names, NEW wrong \in BOOLEAN,
           DeclareId(n, wrong), answer' = <<>>
    PROVE  Promised!Next
<1>1. CASE table' = table
  BY <1>1 DEF Promised!Next, Promised!Other
<1>2. CASE ~Refused(n, wrong)
  <2>1. SameLevels(table, table') /\
        ScopeIs(table, table', table.level, table.scope[table.level] \cup {EntryFor(n, table.level)})
    BY <1>2, DeclareIdShape
  <2>2. StackOf(table') =
            [StackOf(table) EXCEPT ![Len(StackOf(table))] = @ \cup {n}]
    BY <2>1, DeclaredStack DEF SameLevels, TableInv
  <2>3. StackOf(table)' = StackOf(table')
    BY DEF StackOf
  <2>. QED BY <2>2, <2>3 DEF Promised!Next, Promised!Declare
<1>. QED BY <1>1, <1>2, DeclareIdShape

LEMMA BeginFunctionMaps ==
    ASSUME IInv, NEW n \in Names, NEW wrong \in BOOLEAN, BeginFunction(n, wrong)
    PROVE  Promised!Next
<1>. DEFINE error == Refused(n, wrong)
<1>1. /\ Sound(table) /\ table.level = 0 /\ table.level < MaxLevel /\ answer' = <<>>
      /\ error \in BOOLEAN /\ Typed(table)
  BY SoundNow DEF BeginFunction, IInv, PhaseInv, Refused, Sound
<1>2. PICK t \in IF error THEN {table} ELSE EnterSymbol(table, n) : table' = OpenScope(t)
  BY DEF BeginFunction
<1>. HIDE DEF error
<1>3. ASSUME Sound(t), t.level = 0
      PROVE  /\ Typed(t) /\ Typed(table') /\ table'.level = 1 /\ table'.scope[1] = {}
             /\ table'.scope[0] = t.scope[0]
  <2>1. 0 \in 0 .. t.level /\ t.level + 1 = 1
    BY <1>3
  <2>. QED BY <1>1, <1>2, <1>3, <2>1, OpenShape DEF Sound
<1>4. CASE error
  <2>1. t = table /\ Typed(table') /\ StackOf(table') = Append(StackOf(table), {})
    BY <1>1, <1>2, <1>4, OpenShape, PushedStack DEF Sound
  <2>2. StackOf(table)' = StackOf(table')
    BY DEF StackOf
  <2>. QED BY <1>1, <2>1, <2>2 DEF Promised!Next, Promised!Open
<1>5. CASE ~error
  <2>1. /\ Sound(t) /\ t.level = 0
        /\ ScopeIs(table, t, table.level, table.scope[table.level] \cup {EntryFor(n, table.level)})
    BY <1>1, <1>2, <1>5, EnterSymbolShape DEF SameLevels
  <2>2. t.scope[0] = table.scope[0] \cup {EntryFor(n, 0)}
    BY <1>1, <2>1 DEF ScopeIs
  <2>3. StackOf(table)[1] = NamesOf(table.scope[0]) /\ Len(StackOf(table)) = 1
    BY <1>1, BottomOfStack, HeightOne
  <2>4. StackOf(table') = <<NamesOf(table'.scope[0]), {}>>
    BY <1>3, <2>1, HeightTwo, NamesShape
  <2>5. NamesOf(table'.scope[0]) = StackOf(table)[1] \cup {n}
    BY <1>3, <2>1, <2>2, <2>3, NamesShape
  <2>6. StackOf(table)' = StackOf(table')
    BY DEF StackOf
  <2>. QED BY <1>1, <2>3, <2>4, <2>5, <2>6 DEF Promised!Next, Promised!OpenFunction
<1>. QED BY <1>4, <1>5

LEMMA BeginBlockMaps == ASSUME IInv, BeginBlock PROVE Promised!Next
<1>1. /\ Sound(table) /\ Typed(table) /\ table.level < MaxLevel /\ table' = OpenScope(table)
      /\ answer' = <<>>
  BY SoundNow DEF BeginBlock, IInv, Sound
<1>2. StackOf(table') = Append(StackOf(table), {})
  BY <1>1, OpenShape, PushedStack DEF Sound
<1>3. StackOf(table)' = StackOf(table')
  BY DEF StackOf
<1>. QED BY <1>1, <1>2, <1>3 DEF Promised!Next, Promised!Open

\* The scope of a function that was wrong is closed and its name withdrawn.
LEMMA EndCloseMaps == ASSUME IInv, EndClose PROVE Promised!Next
<1>. DEFINE withdrawn == table.level = 1 /\ fn.error /\ fn.entered
            s == StackOf(table)  w == StackOf(table')
<1>1. /\ Typed(table) /\ Typed(table') /\ table'.level = table.level - 1 /\ table.level > 0
      /\ table.level \in Nat /\ answer' = <<>>
      /\ IF withdrawn THEN table'.scope[0] = table.scope[0] \ {EntryFor(fn.name, 0)}
         ELSE \A l \in 0 .. table.level - 1 : table'.scope[l] = table.scope[l]
  BY EndCloseShape, TypedShape DEF EndClose, Sound, IInv, TableInv
<1>2. StackOf(table)' = w
  BY DEF StackOf
<1>3. s \in Seq(SUBSET Names) /\ Len(s) = table.level + 1
  BY <1>1, StackShape
<1>4. CASE ~withdrawn
  <2>1. w = SubSeq(s, 1, Len(s) - 1)
    BY <1>1, <1>4, PoppedStack
  <2>. QED BY <1>1, <1>2, <1>3, <2>1 DEF Promised!Next, Promised!Close
<1>5. CASE withdrawn
  <2>1. /\ table.level = 1 /\ fn.name \in Names /\ EntryFor(fn.name, 0) \in table.scope[0]
    BY <1>5, FunctionShape DEF EndClose, IInv, PhaseInv
  <2>2. /\ table.scope[0] \in SUBSET Entry /\ \A e \in table.scope[0] : e.level = 0
    <3>1. 0 \in 0 .. table.capacity - 1
      BY <1>1, TypedShape DEF Typed
    <3>. QED BY <1>1, <3>1, TypedShape DEF Typed
  <2>3. /\ s[1] = NamesOf(table.scope[0]) /\ Len(s) = 2
        /\ w = <<NamesOf(table'.scope[0])>>
    BY <1>1, <1>3, <2>1, BottomOfStack, HeightOne
  <2>4. NamesOf(table'.scope[0]) = s[1] \ {fn.name}
    BY <1>1, <1>5, <2>1, <2>2, <2>3, NamesWithdraw
  <2>5. fn.name \in s[1]
    BY <2>1, <2>3, NamesShape DEF EntryFor
  <2>. HIDE DEF s, w
  <2>6. w = <<s[1] \ {fn.name}>>
    BY <2>3, <2>4
  <2>. QED BY <1>1, <1>2, <2>1, <2>3, <2>5, <2>6
           DEF Promised!Next, Promised!CloseAndWithdraw, s
<1>. QED BY <1>4, <1>5

LEMMA MappedStep == IInv /\ IInv' /\ [Next]_vars => [Promised!Next]_(Promised!vars)
<1>. SUFFICES ASSUME IInv, IInv', [Next]_vars PROVE [Promised!Next]_(Promised!vars)
  OBVIOUS
<1>1. Typed(table) /\ Typed(table') /\ TableInv
  BY DEF IInv, TableInv
<1>2. ASSUME UNCHANGED table, answer' = <<>> PROVE Promised!Next
  BY <1>2 DEF Promised!Next, Promised!Other
<1>3. ASSUME NEW n \in Names, Lookup(n) PROVE Promised!Next
  BY <1>3, LookupMaps DEF Promised!Next
<1>4. ASSUME NEW n \in Names, NEW wrong \in BOOLEAN,
             Declare(n, wrong) \/ DeclareParameter(n, wrong)
      PROVE  Promised!Next
  BY <1>1, <1>4, DeclareMaps DEF Declare, DeclareParameter
<1>5. ASSUME BeginBody \/ BeginClose PROVE Promised!Next
  BY <1>2, <1>5 DEF BeginBody, BeginClose
<1>6. ASSUME NEW e \in todo, CloseEntry(e) PROVE Promised!Next
  <2>1. /\ e \in Entry /\ e \in table.scope[table.level] /\ e.level = table.level
        /\ e \notin gone /\ \A d \in gone : d.level = table.level
    BY <1>1, <1>6, TypedShape DEF CloseEntry, TableInv, gone, Typed
  <2>2. /\ table'.level = table.level /\ table'.scope = table.scope /\ answer' = <<>>
    BY <1>1, <1>6, <2>1, UncoverShape DEF CloseEntry, TableInv, SameLevels
  <2>3. StackOf(table)' = StackOf(table)
    BY <2>2 DEF StackOf
  <2>. QED BY <2>2, <2>3 DEF Promised!Next, Promised!Other
<1>7. CASE UNCHANGED vars
  <2>1. StackOf(table)' = StackOf(table) /\ answer' = answer
    BY <1>7 DEF vars, StackOf
  <2>. QED BY <2>1 DEF Promised!vars
<1>. QED BY <1>3, <1>4, <1>5, <1>6, <1>7, BeginFunctionMaps, BeginBlockMaps, EndCloseMaps
         DEF Next

LEMMA MappedInit == Init => Promised!Init
<1>. SUFFICES ASSUME Init PROVE Promised!Init
  OBVIOUS
<1>. DEFINE P == [name : Predefined, level : {0}]
<1>1. table = EmptyTable /\ answer = <<>> /\ 0 \in 0 .. InitialCapacity - 1
  BY TableAssumption DEF Init
<1>2. table.level = 0 /\ table.scope[0] = P
  BY <1>1 DEF EmptyTable
<1>3. NamesOf(P) = Predefined
  <2>1. \A n : n \in NamesOf(P) <=> n \in Predefined
    <3>1. \A n \in Predefined : \E e \in P : e.name = n
      <4>1. \A n \in Predefined : [name |-> n, level |-> 0] \in P
        OBVIOUS
      <4>. QED BY <4>1
    <3>2. \A e \in P : e.name \in Predefined
      OBVIOUS
    <3>. HIDE DEF P
    <3>. QED BY <3>1, <3>2, NamesShape
  <2>. HIDE DEF P
  <2>. QED BY <2>1
<1>4. Typed(table)
  BY InitStep DEF IInv, TableInv
<1>5. StackOf(table) = <<Predefined>>
  BY <1>2, <1>3, <1>4, HeightOne
<1>. QED BY <1>1, <1>5 DEF Promised!Init

-----------------------------------------------------------------------------
(* Theorems *)

\* Every variable of the symbol table keeps its domain and scopeDisplay always
\* has a slot for the current level, however deep openScope goes.
THEOREM ScopesTypeCorrect == Spec => []TypeOK
BY Invariance, TypeFollows, PTL

\* retrieveSymbol finds the innermost open declaration of a name and no other.
THEOREM FindsInnermost == Spec => []Innermost
BY Invariance, InnermostFollows, PTL

\* closeScope never unlinks an entry that is not in its hash chain, so
\* removeFromHashTrain never drops the rest of a chain.
THEOREM UnlinksLinked == Spec => []ClosingLinked
BY Invariance, ClosingFollows, PTL

\* sameNameInOuterLevel is the nearest declaration the entry hides, or NULL.
THEOREM OuterLinksNearest == Spec => []HidesNearest
BY Invariance, HidesFollows, PTL

\* Seen as the names of its open scopes, the symbol table takes the steps of a
\* stack of scopes, and its lookups are answered from the innermost one.
THEOREM TableImplementsStack == Spec => ImplementsScopeStack
BY Invariance, MappedInit, MappedStep, PTL DEF Spec, ImplementsScopeStack, Promised!Spec
=============================================================================
