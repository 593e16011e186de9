------------------------- MODULE NamedValuesProofs -------------------------
(***************************************************************************)
(* Proofs about NamedValues for every set of identifiers and every bound:  *)
(* the types, the discipline of the layers, and that the search through    *)
(* the layers implements block scoping as LexicalScope states it.          *)
(*                                                                         *)
(* The search is stated once more with the layers and globals as           *)
(* parameters, for what an action does is a relation between two of them.  *)
(***************************************************************************)
EXTENDS NamedValues, SequenceTheorems, TLAPS

In(ls, x, i) == ls[i][x].kind # "none"
IsInnermost(ls, x, d, i) == In(ls, x, i) /\ \A j \in (i + 1)..d : ~In(ls, x, j)

Layer(ls, x, d) ==
  IF \E i \in 1..d : In(ls, x, i)
  THEN CHOOSE i \in 1..d : In(ls, x, i) /\ \A j \in (i + 1)..d : ~In(ls, x, j)
  ELSE 0

Found(ls, g, x, d) == IF Layer(ls, x, d) = 0 THEN g[x] ELSE ls[Layer(ls, x, d)][x].val

ScopeAt(ls, g, n) ==
  [visible |-> [x \in Ident |-> Found(ls, g, x, n - 1)],
   own |-> IF n = 1 THEN {x \in Ident : g[x] # 0} ELSE {x \in Ident : In(ls, x, n - 1)}]
ScopesOf(ls, g) == [n \in 1..(Len(ls) + 1) |-> ScopeAt(ls, g, n)]

Layers == Seq([Ident -> Entry])
Bindings == [Ident -> Nat]
Scope == [visible : Bindings, own : SUBSET Ident]

\* A name that is found anywhere is found in an innermost layer.
HasInnermost(ls) ==
  \A x \in Ident, d \in 0..Len(ls) :
    (\E i \in 1..d : In(ls, x, i)) => \E i \in 1..d : IsInnermost(ls, x, d, i)

\* An entry in the current layer, a global variable, and what both do to the scopes.
Put(ls, x, e) == [ls EXCEPT ![Len(ls)] = [@ EXCEPT ![x] = e]]
Bind(g, x, v) == [g EXCEPT ![x] = v]
Declared(s, x, v) ==
  [s EXCEPT ![Len(s)] = [visible |-> [@.visible EXCEPT ![x] = v], own |-> @.own \cup {x}]]

-----------------------------------------------------------------------------
(* The search *)

LEMMA LayerFound ==
  ASSUME NEW ls, NEW x, NEW d \in Nat, NEW i \in 1..d, IsInnermost(ls, x, d, i)
  PROVE  Layer(ls, x, d) = i
<1> DEFINE P(k) == In(ls, x, k) /\ \A j \in (k + 1)..d : ~In(ls, x, j)
           k == CHOOSE k \in 1..d : P(k)
<1>1. \E m \in 1..d : P(m)
  BY DEF IsInnermost
<1>2. k \in 1..d /\ P(k)
  BY <1>1
<1>3. Layer(ls, x, d) = k
  BY <1>2 DEF Layer
<1>4. ~(k < i) /\ ~(i < k)
  BY <1>2 DEF IsInnermost
<1> QED BY <1>2, <1>3, <1>4

LEMMA LayerMissing ==
  ASSUME NEW ls, NEW x, NEW d, \A i \in 1..d : ~In(ls, x, i)
  PROVE  Layer(ls, x, d) = 0
BY DEF Layer

LEMMA LayerCases ==
  ASSUME NEW ls, HasInnermost(ls), NEW x \in Ident, NEW d \in 0..Len(ls), Len(ls) \in Nat
  PROVE  \/ Layer(ls, x, d) = 0 /\ \A i \in 1..d : ~In(ls, x, i)
         \/ Layer(ls, x, d) \in 1..d /\ IsInnermost(ls, x, d, Layer(ls, x, d))
<1>1. CASE \A i \in 1..d : ~In(ls, x, i)
  BY <1>1, LayerMissing
<1>2. CASE \E i \in 1..d : In(ls, x, i)
  <2>1. PICK i \in 1..d : IsInnermost(ls, x, d, i)
    BY <1>2 DEF HasInnermost
  <2>2. Layer(ls, x, d) = i
    BY <2>1, LayerFound
  <2> QED BY <2>1, <2>2
<1> QED BY <1>1, <1>2

\* Layers without x on top of others do not change what is found.
LEMMA FoundSame ==
  ASSUME NEW ls, HasInnermost(ls), Len(ls) \in Nat, NEW x \in Ident, NEW g,
         NEW d \in 0..Len(ls), NEW e \in Nat, d <= e, NEW ms,
         \A i \in 1..d : ms[i][x] = ls[i][x],
         \A i \in (d + 1)..e : ~In(ms, x, i)
  PROVE  Found(ms, g, x, e) = Found(ls, g, x, d)
<1>1. CASE Layer(ls, x, d) = 0
  <2>1. \A i \in 1..d : ~In(ls, x, i)
    BY <1>1, LayerCases
  <2>2. \A i \in 1..e : ~In(ms, x, i)
    BY <2>1 DEF In
  <2> QED BY <1>1, <2>2, LayerMissing DEF Found
<1>2. CASE Layer(ls, x, d) # 0
  <2> DEFINE i == Layer(ls, x, d)
  <2>1. i \in 1..d /\ IsInnermost(ls, x, d, i)
    BY <1>2, LayerCases
  <2>2. i \in 1..e /\ IsInnermost(ms, x, e, i)
    BY <2>1 DEF IsInnermost, In
  <2>3. Layer(ms, x, e) = i
    BY <2>2, LayerFound
  <2> QED BY <1>2, <2>1, <2>3 DEF Found
<1> QED BY <1>1, <1>2

LEMMA FoundEqual ==
  ASSUME NEW ls, HasInnermost(ls), Len(ls) \in Nat, NEW x \in Ident, NEW g,
         NEW d \in 0..Len(ls), NEW ms, \A i \in 1..d : ms[i][x] = ls[i][x]
  PROVE  Found(ms, g, x, d) = Found(ls, g, x, d)
<1>1. \A e \in Nat : d <= e /\ (\A i \in (d + 1)..e : ~In(ms, x, i)) =>
        Found(ms, g, x, e) = Found(ls, g, x, d)
  BY FoundSame
<1>2. d \in Nat /\ d <= d /\ \A i \in (d + 1)..d : ~In(ms, x, i)
  OBVIOUS
<1> QED BY <1>1, <1>2

\* A definition in the last layer is found.
LEMMA FoundNew ==
  ASSUME NEW ls, NEW g, NEW x, NEW d \in Nat \ {0}, In(ls, x, d)
  PROVE  Found(ls, g, x, d) = ls[d][x].val
<1>1. d \in 1..d /\ IsInnermost(ls, x, d, d)
  BY DEF IsInnermost
<1>2. Layer(ls, x, d) = d
  BY <1>1, LayerFound
<1> QED BY <1>2 DEF Found

LEMMA FoundIsPlace ==
  ASSUME NEW ls \in Layers, HasInnermost(ls), NEW g \in Bindings, NEW x \in Ident,
         NEW d \in 0..Len(ls)
  PROVE  Found(ls, g, x, d) \in Nat
<1>1. Len(ls) \in Nat
  BY LenProperties DEF Layers
<1>2. CASE Layer(ls, x, d) = 0
  BY <1>2 DEF Found, Bindings
<1>3. CASE Layer(ls, x, d) # 0
  <2>1. Layer(ls, x, d) \in 1..d
    BY <1>1, <1>3, LayerCases
  <2>2. Layer(ls, x, d) \in 1..Len(ls)
    BY <1>1, <2>1
  <2>3. ls[Layer(ls, x, d)] \in [Ident -> Entry]
    BY <2>2, ElementOfSeq DEF Layers
  <2> QED BY <1>3, <2>3 DEF Found, Entry
<1> QED BY <1>2, <1>3

LEMMA ScopesTyped ==
  ASSUME NEW ls \in Layers, HasInnermost(ls), NEW g \in Bindings
  PROVE  /\ ScopesOf(ls, g) \in Seq(Scope)
         /\ Len(ScopesOf(ls, g)) = Len(ls) + 1
         /\ Len(ls) \in Nat
         /\ \A n \in 1..(Len(ls) + 1) : ScopesOf(ls, g)[n] = ScopeAt(ls, g, n)
<1> DEFINE k == Len(ls) + 1
<1>1. Len(ls) \in Nat
  BY LenProperties DEF Layers
<1>2. \A n \in 1..k : ScopeAt(ls, g, n) \in Scope
  <2> SUFFICES ASSUME NEW n \in 1..k PROVE ScopeAt(ls, g, n) \in Scope
    OBVIOUS
  <2>1. n - 1 \in 0..Len(ls)
    BY <1>1
  <2>2. [x \in Ident |-> Found(ls, g, x, n - 1)] \in Bindings
    BY <2>1, FoundIsPlace DEF Bindings
  <2> QED BY <2>2 DEF ScopeAt, Scope
<1>3. ScopesOf(ls, g) \in [1..k -> Scope]
  BY <1>2 DEF ScopesOf
<1>4. k \in Nat
  BY <1>1
<1>5. ScopesOf(ls, g) \in Seq(Scope)
  <2> HIDE DEF k
  <2> QED BY <1>3, <1>4, SeqDef
<1>6. Len(ScopesOf(ls, g)) \in Nat /\ DOMAIN ScopesOf(ls, g) = 1..Len(ScopesOf(ls, g))
  BY <1>5, LenProperties
<1>7. Len(ScopesOf(ls, g)) = k
  <2>1. DOMAIN ScopesOf(ls, g) = 1..k
    BY <1>3
  <2>2. ASSUME NEW a \in Nat, NEW b \in Nat, 1..a = 1..b PROVE a = b
    <3>1. a \in 1..a \/ a = 0
      OBVIOUS
    <3>2. b \in 1..b \/ b = 0
      OBVIOUS
    <3> QED BY <2>2, <3>1, <3>2
  <2> HIDE DEF k
  <2> QED BY <1>4, <1>6, <2>1, <2>2
<1>8. \A n \in 1..k : ScopesOf(ls, g)[n] = ScopeAt(ls, g, n)
  BY DEF ScopesOf
<1> QED BY <1>1, <1>5, <1>7, <1>8

\* What is found in the layers they have in common is the same.
LEMMA ScopeSame ==
  ASSUME NEW ls \in Layers, HasInnermost(ls), NEW g \in Bindings, NEW ms,
         NEW n \in 1..(Len(ls) + 1), \A i \in 1..(n - 1) : ms[i] = ls[i]
  PROVE  ScopeAt(ms, g, n) = ScopeAt(ls, g, n)
<1>1. Len(ls) \in Nat
  BY LenProperties DEF Layers
<1>2. n - 1 \in 0..Len(ls) /\ n - 1 \in Nat
  BY <1>1
<1>3. \A x \in Ident : Found(ms, g, x, n - 1) = Found(ls, g, x, n - 1)
  <2> SUFFICES ASSUME NEW x \in Ident PROVE Found(ms, g, x, n - 1) = Found(ls, g, x, n - 1)
    OBVIOUS
  <2>1. \A i \in 1..(n - 1) : ms[i][x] = ls[i][x]
    OBVIOUS
  <2> DEFINE d == n - 1
  <2>2. d \in 0..Len(ls) /\ \A i \in 1..d : ms[i][x] = ls[i][x]
    BY <1>2, <2>1
  <2> HIDE DEF d
  <2>6. Found(ms, g, x, d) = Found(ls, g, x, d)
    BY <1>1, <2>2, FoundEqual
  <2> QED BY <2>6 DEF d
<1>4. n # 1 => {x \in Ident : In(ms, x, n - 1)} = {x \in Ident : In(ls, x, n - 1)}
  BY <1>1, <1>2 DEF In
<1> QED BY <1>3, <1>4 DEF ScopeAt

\* What a new layer, layers taken away, and an entry do to the scopes.
LEMMA Innermost ==
  ASSUME NEW ls, HasInnermost(ls), Len(ls) \in Nat, NEW ms, Len(ms) \in Nat,
         \A x \in Ident, d \in 1..Len(ms) :
           \/ In(ms, x, d)
           \/ \E e \in 0..Len(ls) :
                /\ e <= d
                /\ \A i \in 1..e : In(ms, x, i) <=> In(ls, x, i)
                /\ \A i \in (e + 1)..d : ~In(ms, x, i)
  PROVE  HasInnermost(ms)
<1> SUFFICES ASSUME NEW x \in Ident, NEW d \in 0..Len(ms), \E i \in 1..d : In(ms, x, i)
             PROVE  \E i \in 1..d : IsInnermost(ms, x, d, i)
  BY DEF HasInnermost
<1>1. d \in 1..Len(ms)
  OBVIOUS
<1>2. CASE In(ms, x, d)
  <2>1. IsInnermost(ms, x, d, d)
    BY <1>1, <1>2 DEF IsInnermost
  <2> QED BY <1>1, <2>1
<1>3. CASE ~In(ms, x, d)
  <2>1. PICK e \in 0..Len(ls) :
                /\ e <= d
                /\ \A i \in 1..e : In(ms, x, i) <=> In(ls, x, i)
                /\ \A i \in (e + 1)..d : ~In(ms, x, i)
    BY <1>1, <1>3
  <2>2. \E i \in 1..e : In(ls, x, i)
    BY <2>1
  <2>3. PICK i \in 1..e : IsInnermost(ls, x, e, i)
    BY <2>2 DEF HasInnermost
  <2>4. i \in 1..d /\ IsInnermost(ms, x, d, i)
    BY <2>1, <2>3 DEF IsInnermost
  <2> QED BY <2>4
<1> QED BY <1>2, <1>3

LEMMA Pushed ==
  ASSUME NEW ls \in Layers
  PROVE  LET ms == Append(ls, EmptyLayer)
         IN  /\ ms \in Layers /\ Len(ms) = Len(ls) + 1 /\ Len(ls) \in Nat
             /\ \A i \in 1..Len(ls) : ms[i] = ls[i]
             /\ \A x \in Ident : ~In(ms, x, Len(ls) + 1)
<1>1. EmptyLayer \in [Ident -> Entry]
  BY DEF EmptyLayer, NoEntry, Entry
<1>2. Len(ls) \in Nat
  BY LenProperties DEF Layers
<1> DEFINE ms == Append(ls, EmptyLayer)
<1>3. /\ ms \in Layers /\ Len(ms) = Len(ls) + 1
      /\ \A i \in 1..Len(ls) : ms[i] = ls[i]
      /\ ms[Len(ls) + 1] = EmptyLayer
  BY <1>1, AppendProperties DEF Layers
<1> HIDE DEF ms
<1>4. \A x \in Ident : ~In(ms, x, Len(ls) + 1)
  <2> SUFFICES ASSUME NEW x \in Ident PROVE ~In(ms, x, Len(ls) + 1)
    OBVIOUS
  <2>1. EmptyLayer[x] = NoEntry
    BY DEF EmptyLayer
  <2>2. ms[Len(ls) + 1] = EmptyLayer
    BY <1>3
  <2>3. ms[Len(ls) + 1][x].kind = "none"
    BY <2>1, <2>2 DEF NoEntry
  <2> QED BY <2>3 DEF In
<1> QED BY <1>2, <1>3, <1>4 DEF ms

LEMMA Popped ==
  ASSUME NEW ls \in Layers, NEW n \in 0..Len(ls)
  PROVE  LET ms == SubSeq(ls, 1, n)
         IN  /\ ms \in Layers /\ Len(ms) = n /\ Len(ls) \in Nat
             /\ \A i \in 1..n : ms[i] = ls[i]
<1>1. Len(ls) \in Nat
  BY LenProperties DEF Layers
<1>2. n \in Int /\ 1 \in Int /\ \A i \in 1..n : ls[i] \in [Ident -> Entry]
  BY <1>1, ElementOfSeq DEF Layers
<1>3. /\ SubSeq(ls, 1, n) \in Layers
      /\ Len(SubSeq(ls, 1, n)) = IF 1 <= n THEN n - 1 + 1 ELSE 0
      /\ \A i \in 1..(n - 1 + 1) : SubSeq(ls, 1, n)[i] = ls[1 + i - 1]
  BY <1>2, SubSeqProperties DEF Layers
<1>4. \A i \in 1..n : SubSeq(ls, 1, n)[i] = ls[i]
  <2> SUFFICES ASSUME NEW i \in 1..n PROVE SubSeq(ls, 1, n)[i] = ls[i]
    OBVIOUS
  <2>1. i \in 1..(n - 1 + 1) /\ 1 + i - 1 = i
    BY <1>1
  <2> QED BY <1>3, <2>1
<1> QED BY <1>1, <1>3, <1>4

LEMMA Changed ==
  ASSUME NEW ls \in Layers, Len(ls) # 0, NEW x \in Ident, NEW e \in Entry
  PROVE  LET ms == Put(ls, x, e)
         IN  /\ ms \in Layers /\ Len(ms) = Len(ls) /\ Len(ls) \in Nat \ {0}
             /\ \A i \in 1..(Len(ls) - 1) : ms[i] = ls[i]
             /\ ms[Len(ls)][x] = e
             /\ \A y \in Ident \ {x} : ms[Len(ls)][y] = ls[Len(ls)][y]
<1>1. Len(ls) \in Nat
  BY LenProperties DEF Layers
<1>2. Len(ls) \in 1..Len(ls)
  BY <1>1
<1>3. ls[Len(ls)] \in [Ident -> Entry]
  BY <1>2, ElementOfSeq DEF Layers
<1> DEFINE new == [ls[Len(ls)] EXCEPT ![x] = e]
           ms == [ls EXCEPT ![Len(ls)] = new]
<1>4. /\ new \in [Ident -> Entry] /\ new[x] = e
      /\ \A y \in Ident \ {x} : new[y] = ls[Len(ls)][y]
  BY <1>3
<1> HIDE DEF new
<1>5. /\ ms \in Layers /\ Len(ms) = Len(ls)
      /\ \A i \in 1..Len(ls) : ms[i] = IF i = Len(ls) THEN new ELSE ls[i]
  BY <1>2, <1>4, ExceptSeq DEF Layers
<1>6. \A i \in 1..(Len(ls) - 1) : ms[i] = ls[i]
  <2> HIDE DEF ms
  <2> SUFFICES ASSUME NEW i \in 1..(Len(ls) - 1) PROVE ms[i] = ls[i]
    OBVIOUS
  <2>1. i \in 1..Len(ls) /\ i # Len(ls)
    BY <1>1
  <2> QED BY <1>5, <2>1
<1>7. ms[Len(ls)] = new
  BY <1>2, <1>5
<1> HIDE DEF ms
<1>8. /\ ms \in Layers /\ Len(ms) = Len(ls) /\ Len(ls) \in Nat \ {0}
      /\ \A i \in 1..(Len(ls) - 1) : ms[i] = ls[i]
      /\ ms[Len(ls)][x] = e
      /\ \A y \in Ident \ {x} : ms[Len(ls)][y] = ls[Len(ls)][y]
  BY <1>1, <1>4, <1>5, <1>6, <1>7
<1> QED BY <1>8 DEF ms, new, Put

LEMMA InnerScope ==
  ASSUME NEW ls, NEW g, NEW k \in Nat \ {0}
  PROVE  ScopeAt(ls, g, k + 1)
           = [visible |-> [x \in Ident |-> Found(ls, g, x, k)],
              own |-> {x \in Ident : In(ls, x, k)}]
<1>1. k + 1 # 1 /\ (k + 1) - 1 = k
  OBVIOUS
<1> QED BY <1>1, Zenon DEF ScopeAt

LEMMA ScopesPushed ==
  ASSUME NEW ls \in Layers, HasInnermost(ls), NEW g \in Bindings
  PROVE  /\ HasInnermost(Append(ls, EmptyLayer))
         /\ ScopesOf(Append(ls, EmptyLayer), g)
              = Append(ScopesOf(ls, g),
                       [visible |-> ScopesOf(ls, g)[Len(ls) + 1].visible, own |-> {}])
<1> DEFINE ms == Append(ls, EmptyLayer)
           k == Len(ls) + 1
           new == [visible |-> ScopesOf(ls, g)[k].visible, own |-> {}]
<1>1. /\ ms \in Layers /\ Len(ms) = Len(ls) + 1 /\ Len(ls) \in Nat
      /\ \A i \in 1..Len(ls) : ms[i] = ls[i]
      /\ \A x \in Ident : ~In(ms, x, Len(ls) + 1)
  BY Pushed
<1> HIDE DEF ms
<1>2. HasInnermost(ms)
  <2>1. \A x \in Ident, d \in 1..Len(ms) :
          \E e \in 0..Len(ls) :
            /\ e <= d
            /\ \A i \in 1..e : In(ms, x, i) <=> In(ls, x, i)
            /\ \A i \in (e + 1)..d : ~In(ms, x, i)
    <3> SUFFICES ASSUME NEW x \in Ident, NEW d \in 1..Len(ms)
                 PROVE  \E e \in 0..Len(ls) :
                          /\ e <= d
                          /\ \A i \in 1..e : In(ms, x, i) <=> In(ls, x, i)
                          /\ \A i \in (e + 1)..d : ~In(ms, x, i)
      OBVIOUS
    <3> DEFINE e == IF d = k THEN d - 1 ELSE d
    <3>1. e \in 0..Len(ls) /\ e <= d
      BY <1>1
    <3>2. \A i \in 1..e : In(ms, x, i) <=> In(ls, x, i)
      BY <1>1, <3>1 DEF In
    <3>3. \A i \in (e + 1)..d : i = k
      BY <1>1
    <3>4. \A i \in (e + 1)..d : ~In(ms, x, i)
      BY <1>1, <3>3
    <3> QED BY <3>1, <3>2, <3>4
  <2>2. Len(ms) \in Nat
    BY <1>1
  <2> QED BY <1>1, <2>1, <2>2, Innermost
<1>3. /\ ScopesOf(ls, g) \in Seq(Scope) /\ Len(ScopesOf(ls, g)) = k
      /\ \A n \in 1..k : ScopesOf(ls, g)[n] = ScopeAt(ls, g, n)
  BY ScopesTyped
<1>4. /\ ScopesOf(ms, g) \in Seq(Scope) /\ Len(ScopesOf(ms, g)) = k + 1
      /\ \A n \in 1..(k + 1) : ScopesOf(ms, g)[n] = ScopeAt(ms, g, n)
  BY <1>1, <1>2, ScopesTyped
<1>5. k \in 1..k /\ k \in Nat /\ k + 1 \in 1..(k + 1)
  BY <1>1
<1>6. ScopeAt(ls, g, k) \in Scope
  BY <1>3, <1>5, ElementOfSeq
<1>7. new \in Scope
  BY <1>3, <1>5, <1>6 DEF Scope
<1>8. \A n \in 1..k : ScopeAt(ms, g, n) = ScopeAt(ls, g, n)
  <2> SUFFICES ASSUME NEW n \in 1..k PROVE ScopeAt(ms, g, n) = ScopeAt(ls, g, n)
    OBVIOUS
  <2>1. \A i \in 1..(n - 1) : ms[i] = ls[i]
    BY <1>1
  <2> QED BY <2>1, ScopeSame
<1>9. ScopeAt(ms, g, k + 1) = new
  <2>1. \A x \in Ident : Found(ms, g, x, k) = Found(ls, g, x, k - 1)
    <3> SUFFICES ASSUME NEW x \in Ident PROVE Found(ms, g, x, k) = Found(ls, g, x, k - 1)
      OBVIOUS
    <3>1. k - 1 \in 0..Len(ls) /\ k - 1 <= k /\ \A i \in 1..(k - 1) : ms[i][x] = ls[i][x]
      BY <1>1
    <3>2. \A i \in ((k - 1) + 1)..k : ~In(ms, x, i)
      BY <1>1
    <3> DEFINE d == k - 1
    <3>3. /\ d \in 0..Len(ls) /\ k \in Nat /\ d <= k /\ \A i \in 1..d : ms[i][x] = ls[i][x]
          /\ \A i \in (d + 1)..k : ~In(ms, x, i)
      BY <1>5, <3>1, <3>2
    <3> HIDE DEF d, k
    <3>4. Found(ms, g, x, k) = Found(ls, g, x, d)
      BY <1>1, <3>3, FoundSame
    <3> QED BY <3>4 DEF d
  <2>2. {x \in Ident : In(ms, x, k)} = {}
    BY <1>1
  <2>3. k \in Nat \ {0}
    BY <1>1
  <2>4. ScopeAt(ms, g, k + 1) = [visible |-> [x \in Ident |-> Found(ms, g, x, k)], own |-> {}]
    <3> HIDE DEF k
    <3> QED BY <2>2, <2>3, InnerScope
  <2>5. ScopesOf(ls, g)[k].visible = [x \in Ident |-> Found(ls, g, x, k - 1)]
    BY <1>3, <1>5 DEF ScopeAt
  <2> QED BY <2>1, <2>4, <2>5
<1>10. /\ Append(ScopesOf(ls, g), new) \in Seq(Scope)
       /\ Len(Append(ScopesOf(ls, g), new)) = k + 1
       /\ \A n \in 1..k : Append(ScopesOf(ls, g), new)[n] = ScopesOf(ls, g)[n]
       /\ Append(ScopesOf(ls, g), new)[k + 1] = new
  <2> HIDE DEF new, k
  <2>1. /\ Append(ScopesOf(ls, g), new) \in Seq(Scope)
        /\ Len(Append(ScopesOf(ls, g), new)) = Len(ScopesOf(ls, g)) + 1
        /\ \A n \in 1..Len(ScopesOf(ls, g)) :
             Append(ScopesOf(ls, g), new)[n] = ScopesOf(ls, g)[n]
        /\ Append(ScopesOf(ls, g), new)[Len(ScopesOf(ls, g)) + 1] = new
    BY <1>3, <1>7, AppendProperties
  <2> QED BY <1>3, <2>1
<1>11. \A n \in 1..(k + 1) : ScopesOf(ms, g)[n] = Append(ScopesOf(ls, g), new)[n]
  <2> SUFFICES ASSUME NEW n \in 1..(k + 1)
               PROVE  ScopesOf(ms, g)[n] = Append(ScopesOf(ls, g), new)[n]
    OBVIOUS
  <2> HIDE DEF new, k
  <2>1. n \in 1..k \/ n = k + 1
    BY <1>5
  <2> QED BY <1>3, <1>4, <1>5, <1>8, <1>9, <1>10, <2>1
<1>12. ScopesOf(ms, g) = Append(ScopesOf(ls, g), new)
  <2> HIDE DEF new, k
  <2> QED BY <1>4, <1>10, <1>11, SeqEqual
<1> QED BY <1>2, <1>12 DEF ms

LEMMA ScopesPopped ==
  ASSUME NEW ls \in Layers, HasInnermost(ls), NEW g \in Bindings, NEW n \in 0..Len(ls)
  PROVE  /\ HasInnermost(SubSeq(ls, 1, n))
         /\ ScopesOf(SubSeq(ls, 1, n), g) = SubSeq(ScopesOf(ls, g), 1, n + 1)
<1> DEFINE ms == SubSeq(ls, 1, n)
           k == n + 1
           s == ScopesOf(ls, g)
<1>1. ms \in Layers /\ Len(ms) = n /\ Len(ls) \in Nat /\ \A i \in 1..n : ms[i] = ls[i]
  BY Popped
<1> HIDE DEF ms
<1>2. HasInnermost(ms)
  <2>1. \A x \in Ident, d \in 1..Len(ms) :
          \E e \in 0..Len(ls) :
            /\ e <= d
            /\ \A i \in 1..e : In(ms, x, i) <=> In(ls, x, i)
            /\ \A i \in (e + 1)..d : ~In(ms, x, i)
    <3> SUFFICES ASSUME NEW x \in Ident, NEW d \in 1..Len(ms)
                 PROVE  /\ d \in 0..Len(ls) /\ d <= d
                        /\ \A i \in 1..d : In(ms, x, i) <=> In(ls, x, i)
                        /\ \A i \in (d + 1)..d : ~In(ms, x, i)
      OBVIOUS
    <3> QED BY <1>1 DEF In
  <2>2. Len(ms) \in Nat
    BY <1>1
  <2> QED BY <1>1, <2>1, <2>2, Innermost
<1>3. /\ s \in Seq(Scope) /\ Len(s) = Len(ls) + 1
      /\ \A i \in 1..(Len(ls) + 1) : s[i] = ScopeAt(ls, g, i)
  BY ScopesTyped
<1>4. /\ ScopesOf(ms, g) \in Seq(Scope) /\ Len(ScopesOf(ms, g)) = k
      /\ \A i \in 1..k : ScopesOf(ms, g)[i] = ScopeAt(ms, g, i)
  BY <1>1, <1>2, ScopesTyped
<1>5. 1 \in Int /\ k \in Int /\ \A i \in 1..k : i \in 1..(Len(ls) + 1)
  BY <1>1
<1>6. \A i \in 1..k : ScopeAt(ms, g, i) = ScopeAt(ls, g, i)
  <2> SUFFICES ASSUME NEW i \in 1..k PROVE ScopeAt(ms, g, i) = ScopeAt(ls, g, i)
    OBVIOUS
  <2>1. \A j \in 1..(i - 1) : ms[j] = ls[j]
    BY <1>1
  <2> QED BY <1>5, <2>1, ScopeSame
<1>7. /\ SubSeq(s, 1, k) \in Seq(Scope) /\ Len(SubSeq(s, 1, k)) = k
      /\ \A i \in 1..k : SubSeq(s, 1, k)[i] = s[i]
  <2>1. \A i \in 1..k : s[i] \in Scope
    BY <1>3, <1>5, ElementOfSeq
  <2> HIDE DEF s
  <2>2. /\ SubSeq(s, 1, k) \in Seq(Scope)
        /\ Len(SubSeq(s, 1, k)) = IF 1 <= k THEN k - 1 + 1 ELSE 0
        /\ \A i \in 1..(k - 1 + 1) : SubSeq(s, 1, k)[i] = s[1 + i - 1]
    BY <1>5, <2>1, SubSeqProperties
  <2>3. 1 <= k /\ k - 1 + 1 = k /\ \A i \in 1..k : 1 + i - 1 = i
    BY <1>1
  <2> QED BY <2>2, <2>3
<1>8. ScopesOf(ms, g) = SubSeq(s, 1, k)
  <2> HIDE DEF k, s
  <2>1. \A i \in 1..k : ScopesOf(ms, g)[i] = SubSeq(s, 1, k)[i]
    BY <1>3, <1>4, <1>5, <1>6, <1>7
  <2> QED BY <1>4, <1>7, <2>1, SeqEqual
<1> QED BY <1>2, <1>8 DEF ms

LEMMA ScopesChanged ==
  ASSUME NEW ls \in Layers, Len(ls) # 0, HasInnermost(ls), NEW g \in Bindings,
         NEW x \in Ident, NEW e \in Entry, e.kind # "none"
  PROVE  /\ HasInnermost(Put(ls, x, e))
         /\ ScopesOf(Put(ls, x, e), g) = Declared(ScopesOf(ls, g), x, e.val)
<1> DEFINE ms == Put(ls, x, e)
           n == Len(ls)
           s == ScopesOf(ls, g)
           new == [visible |-> [s[n + 1].visible EXCEPT ![x] = e.val],
                   own |-> s[n + 1].own \cup {x}]
<1>1. /\ ms \in Layers /\ Len(ms) = n /\ n \in Nat \ {0}
      /\ \A i \in 1..(n - 1) : ms[i] = ls[i]
      /\ ms[n][x] = e
      /\ \A y \in Ident \ {x} : ms[n][y] = ls[n][y]
  BY Changed
<1> HIDE DEF ms
<1>2. HasInnermost(ms)
  <2>1. \A y \in Ident, d \in 1..Len(ms) :
          \/ In(ms, y, d)
          \/ \E k \in 0..Len(ls) :
               /\ k <= d
               /\ \A i \in 1..k : In(ms, y, i) <=> In(ls, y, i)
               /\ \A i \in (k + 1)..d : ~In(ms, y, i)
    <3> SUFFICES ASSUME NEW y \in Ident, NEW d \in 1..Len(ms), ~In(ms, y, d)
                 PROVE  /\ d \in 0..Len(ls) /\ d <= d
                        /\ \A i \in 1..d : In(ms, y, i) <=> In(ls, y, i)
                        /\ \A i \in (d + 1)..d : ~In(ms, y, i)
      OBVIOUS
    <3>1. d < n \/ y # x
      BY <1>1 DEF In
    <3>2. ASSUME NEW i \in 1..d PROVE ms[i][y] = ls[i][y]
      <4>1. i \in 1..(n - 1) \/ (i = n /\ d = n)
        BY <1>1
      <4> QED BY <1>1, <3>1, <4>1
    <3> QED BY <1>1, <3>2 DEF In
  <2>2. Len(ms) \in Nat
    BY <1>1
  <2> QED BY <1>1, <2>1, <2>2, Innermost
<1>3. /\ s \in Seq(Scope) /\ Len(s) = n + 1
      /\ \A i \in 1..(n + 1) : s[i] = ScopeAt(ls, g, i)
  BY ScopesTyped
<1>4. /\ ScopesOf(ms, g) \in Seq(Scope) /\ Len(ScopesOf(ms, g)) = n + 1
      /\ \A i \in 1..(n + 1) : ScopesOf(ms, g)[i] = ScopeAt(ms, g, i)
  BY <1>1, <1>2, ScopesTyped
<1>5. \A i \in 1..n : ScopeAt(ms, g, i) = ScopeAt(ls, g, i)
  <2> SUFFICES ASSUME NEW i \in 1..n PROVE ScopeAt(ms, g, i) = ScopeAt(ls, g, i)
    OBVIOUS
  <2>1. i \in 1..(Len(ls) + 1) /\ \A j \in 1..(i - 1) : ms[j] = ls[j]
    BY <1>1
  <2> QED BY <2>1, ScopeSame
<1>6. ScopeAt(ls, g, n + 1) = [visible |-> [y \in Ident |-> Found(ls, g, y, n)],
                               own |-> {y \in Ident : In(ls, y, n)}]
  <2>1. n \in Nat \ {0}
    BY <1>1
  <2> HIDE DEF n
  <2> QED BY <2>1, InnerScope
<1>7. ScopeAt(ms, g, n + 1) = [visible |-> [y \in Ident |-> Found(ms, g, y, n)],
                               own |-> {y \in Ident : In(ms, y, n)}]
  <2>1. n \in Nat \ {0}
    BY <1>1
  <2> HIDE DEF n
  <2> QED BY <2>1, InnerScope
<1>8. Found(ms, g, x, n) = e.val /\ In(ms, x, n)
  <2>1. In(ms, x, n)
    BY <1>1 DEF In
  <2> HIDE DEF n
  <2> QED BY <1>1, <2>1, FoundNew
<1>9. ASSUME NEW y \in Ident \ {x}
      PROVE  Found(ms, g, y, n) = Found(ls, g, y, n) /\ (In(ms, y, n) <=> In(ls, y, n))
  <2>1. \A i \in 1..n : ms[i][y] = ls[i][y]
    <3> SUFFICES ASSUME NEW i \in 1..n PROVE ms[i][y] = ls[i][y]
      OBVIOUS
    <3>1. i \in 1..(n - 1) \/ i = n
      BY <1>1
    <3> QED BY <1>1, <3>1
  <2>2. n \in 0..Len(ls) /\ Len(ls) \in Nat
    BY <1>1
  <2>3. Found(ms, g, y, n) = Found(ls, g, y, n)
    BY <2>1, <2>2, FoundEqual
  <2> QED BY <1>1, <2>3 DEF In
<1>10. ScopeAt(ms, g, n + 1) = new
  <2>1. n + 1 \in 1..(n + 1)
    BY <1>1
  <2>2. s[n + 1] = [visible |-> [y \in Ident |-> Found(ls, g, y, n)],
                    own |-> {y \in Ident : In(ls, y, n)}]
    BY <1>3, <1>6, <2>1
  <2> HIDE DEF s, n
  <2>3. [s[n + 1].visible EXCEPT ![x] = e.val] = [y \in Ident |-> Found(ms, g, y, n)]
    <3>1. s[n + 1].visible = [y \in Ident |-> Found(ls, g, y, n)]
      BY <2>2
    <3>2. \A y \in Ident : (IF y = x THEN e.val ELSE Found(ls, g, y, n)) = Found(ms, g, y, n)
      BY <1>8, <1>9
    <3>3. [[y \in Ident |-> Found(ls, g, y, n)] EXCEPT ![x] = e.val]
            = [y \in Ident |-> IF y = x THEN e.val ELSE Found(ls, g, y, n)]
      OBVIOUS
    <3>4. [y \in Ident |-> IF y = x THEN e.val ELSE Found(ls, g, y, n)]
            = [y \in Ident |-> Found(ms, g, y, n)]
      BY <3>2
    <3> QED BY <3>1, <3>3, <3>4
  <2>4. s[n + 1].own \cup {x} = {y \in Ident : In(ms, y, n)}
    BY <1>8, <1>9, <2>2
  <2> QED BY <1>7, <2>3, <2>4
<1>11. new \in Scope /\ n + 1 \in 1..Len(s)
  <2>1. n + 1 \in 1..(n + 1)
    BY <1>1
  <2> HIDE DEF new, s
  <2>2. ScopesOf(ms, g)[n + 1] \in Scope
    BY <1>4, <2>1, ElementOfSeq
  <2> QED BY <1>3, <1>4, <1>10, <2>1, <2>2
<1>12. /\ [s EXCEPT ![n + 1] = new] \in Seq(Scope)
       /\ Len([s EXCEPT ![n + 1] = new]) = n + 1
       /\ \A i \in 1..(n + 1) : [s EXCEPT ![n + 1] = new][i] = IF i = n + 1 THEN new ELSE s[i]
  <2> HIDE DEF new, s
  <2>1. /\ [s EXCEPT ![n + 1] = new] \in Seq(Scope)
        /\ Len([s EXCEPT ![n + 1] = new]) = Len(s)
        /\ \A i \in 1..Len(s) : [s EXCEPT ![n + 1] = new][i] = IF i = n + 1 THEN new ELSE s[i]
    BY <1>3, <1>11, ExceptSeq
  <2> QED BY <1>3, <2>1
<1>13. ScopesOf(ms, g) = [s EXCEPT ![n + 1] = new]
  <2>1. \A i \in 1..(n + 1) : ScopesOf(ms, g)[i] = [s EXCEPT ![n + 1] = new][i]
    <3> SUFFICES ASSUME NEW i \in 1..(n + 1)
                 PROVE  ScopesOf(ms, g)[i] = [s EXCEPT ![n + 1] = new][i]
      OBVIOUS
    <3>1. i \in 1..n \/ i = n + 1
      BY <1>1
    <3> HIDE DEF s, new, n
    <3> QED BY <1>3, <1>4, <1>5, <1>10, <1>12, <3>1
  <2> HIDE DEF s, new, n
  <2> QED BY <1>4, <1>12, <2>1, SeqEqual
<1>14. ScopesOf(ms, g) = Declared(s, x, e.val)
  BY <1>3, <1>13 DEF Declared
<1> QED BY <1>2, <1>14 DEF ms

LEMMA ScopesOfFile ==
  ASSUME NEW g \in Bindings, NEW x \in Ident, NEW v \in Nat \ {0}
  PROVE  /\ HasInnermost(<< >>)
         /\ ScopesOf(<< >>, g) = <<[visible |-> g, own |-> {y \in Ident : g[y] # 0}]>>
         /\ ScopesOf(<< >>, Bind(g, x, v)) = Declared(ScopesOf(<< >>, g), x, v)
<1>1. HasInnermost(<< >>)
  BY DEF HasInnermost
<1>2. \A h \in Bindings :
        ScopesOf(<< >>, h) = [n \in 1..1 |-> [visible |-> h, own |-> {y \in Ident : h[y] # 0}]]
  <2> SUFFICES ASSUME NEW h \in Bindings
               PROVE  ScopesOf(<< >>, h) =
                        [n \in 1..1 |-> [visible |-> h, own |-> {y \in Ident : h[y] # 0}]]
    OBVIOUS
  <2>1. \A y \in Ident : Found(<< >>, h, y, 0) = h[y]
    <3> SUFFICES ASSUME NEW y \in Ident PROVE Found(<< >>, h, y, 0) = h[y]
      OBVIOUS
    <3>1. Layer(<< >>, y, 0) = 0
      BY LayerMissing
    <3> QED BY <3>1 DEF Found
  <2>2. [y \in Ident |-> Found(<< >>, h, y, 0)] = h
    BY <2>1 DEF Bindings
  <2>3. ScopeAt(<< >>, h, 1) = [visible |-> h, own |-> {y \in Ident : h[y] # 0}]
    <3>1. 1 - 1 = 0
      OBVIOUS
    <3> QED BY <2>2, <3>1 DEF ScopeAt
  <2>4. Len(<< >>) + 1 = 1 /\ \A n \in 1..1 : n = 1
    OBVIOUS
  <2> QED BY <2>3, <2>4 DEF ScopesOf
<1> DEFINE h == [g EXCEPT ![x] = v]
<1>3. h \in Bindings /\ h[x] = v /\ \A y \in Ident \ {x} : h[y] = g[y]
  BY DEF Bindings
<1>4. {y \in Ident : h[y] # 0} = {y \in Ident : g[y] # 0} \cup {x}
  BY <1>3
<1>5. ScopesOf(<< >>, g) = <<[visible |-> g, own |-> {y \in Ident : g[y] # 0}]>>
  BY <1>2
<1>6. ScopesOf(<< >>, h) =
        [ScopesOf(<< >>, g) EXCEPT ![1] =
           [visible |-> [@.visible EXCEPT ![x] = v], own |-> @.own \cup {x}]]
  <2> DEFINE new == [visible |-> h, own |-> {y \in Ident : h[y] # 0}]
             old == [visible |-> g, own |-> {y \in Ident : g[y] # 0}]
  <2>1. ScopesOf(<< >>, g) = [n \in 1..1 |-> old]
    BY <1>2
  <2>2. ScopesOf(<< >>, h) = [n \in 1..1 |-> new]
    BY <1>2, <1>3
  <2>3. 1 \in 1..1 /\ \A n \in 1..1 : n = 1
    OBVIOUS
  <2>4. new = [visible |-> [old.visible EXCEPT ![x] = v], own |-> old.own \cup {x}]
    BY <1>4
  <2> HIDE DEF old, new
  <2>5. [n \in 1..1 |-> old][1] = old
    BY <2>3
  <2>6. [[n \in 1..1 |-> old] EXCEPT ![1] = new] = [n \in 1..1 |-> new]
    BY <2>3
  <2> QED BY <2>1, <2>2, <2>4, <2>5, <2>6
<1>7. ScopesOf(<< >>, Bind(g, x, v)) = Declared(ScopesOf(<< >>, g), x, v)
  <2>1. Len(ScopesOf(<< >>, g)) = 1
    BY <1>5
  <2> QED BY <1>6, <2>1 DEF Bind, Declared
<1> QED BY <1>1, <1>5, <1>7

-----------------------------------------------------------------------------
(* The inductive invariant *)

\* An entry names an alloca of the function being generated, and is a ConstVal
\* exactly when the source declares a constant; the module's symbol table names
\* global variables.
LocalEntries ==
  \A i \in 1..Depth, x \in Ident :
    Defined(x, i) =>
      /\ layers[i][x].val \in 1..Len(values)
      /\ values[layers[i][x].val].owner = fn
      /\ layers[i][x].kind = "const" <=> values[layers[i][x].val].const

GlobalEntries == \A x \in Ident : globals[x] # 0 => values[globals[x]].owner = 0

LayersOfHandlers == Depth = nesting /\ (nesting # 0 => fn # 0)

IInv == TypeOK /\ LayersOfHandlers /\ HasInnermost(layers) /\ LocalEntries /\ GlobalEntries

LEMMA IInvImplies == IInv => TypeOK /\ LayersOfThisFunction
BY DEF IInv, LayersOfHandlers, LayersOfThisFunction, LocalEntries

LEMMA ItemsTyped ==
  /\ {<< >>, <<"open">>, <<"close">>, <<"close function">>} \subseteq Items
  /\ \A x \in Ident, const \in BOOLEAN :
       {<<"use", x>>, <<"assign", x>>, <<"declare", x, const>>} \subseteq Items
BY DEF Items

\* No instruction is emitted.
LEMMA EmptyAccess ==
  ASSUME access' = << >>
  PROVE  access' \in Seq(Access) /\ \A i \in 1..Len(access') : access'[i].val \in 1..Len(values')
<1>1. Len(access') = 0 /\ access' \in Seq(Access)
  OBVIOUS
<1> QED BY <1>1

LEMMA InitIInv == Init => IInv
<1> SUFFICES ASSUME Init PROVE IInv
  OBVIOUS
<1> USE DEF Init
<1>1. layers = << >> /\ values = << >> /\ Len(layers) = 0 /\ Len(values) = 0
  OBVIOUS
<1>2. layers \in Seq([Ident -> Entry]) /\ values \in Seq(Value)
  OBVIOUS
<1>3. access \in Seq(Access) /\ Len(access) = 0 /\ item \in Items
  <2>1. item \in Items
    BY ItemsTyped
  <2> QED BY <2>1
<1>4. TypeOK
  BY <1>1, <1>2, <1>3 DEF TypeOK, Depth
<1>5. HasInnermost(layers)
  BY <1>1 DEF HasInnermost
<1>6. LayersOfHandlers /\ LocalEntries /\ GlobalEntries
  BY <1>1 DEF LayersOfHandlers, LocalEntries, GlobalEntries, Depth
<1> QED BY <1>4, <1>5, <1>6 DEF IInv

\* The layers change and nothing is defined: what is named in them was named there.
LEMMA LayersStep ==
  ASSUME IInv, layers' \in Layers, HasInnermost(layers'),
         Len(layers') = nesting', nesting' \in Nat, fn' \in Nat,
         UNCHANGED <<globals, values, status>>, item' \in Items, access' = << >>,
         \A i \in 1..Len(layers'), x \in Ident :
           \/ layers'[i][x] = NoEntry
           \/ i \in 1..Len(layers) /\ layers'[i][x] = layers[i][x] /\ fn' = fn,
         nesting' # 0 => fn' # 0
  PROVE  IInv'
<1>1. TypeOK'
  <2>1. Len(values) \in Nat
    BY LenProperties DEF IInv, TypeOK
  <2>2. \A i \in 1..Len(layers'), x \in Ident : layers'[i][x].val \in 0..Len(values)
    BY <2>1 DEF IInv, TypeOK, Depth, NoEntry
  <2> QED BY <2>2, EmptyAccess DEF IInv, TypeOK, Depth, Layers
<1>2. LayersOfHandlers'
  BY DEF LayersOfHandlers, Depth
<1>3. LocalEntries'
  BY SMTT(30) DEF IInv, LocalEntries, Depth, Defined, NoEntry
<1>4. GlobalEntries'
  BY DEF IInv, GlobalEntries
<1> QED BY <1>1, <1>2, <1>3, <1>4 DEF IInv

LEMMA EnterStep ==
  ASSUME IInv, layers' = Append(layers, EmptyLayer), nesting' = nesting + 1,
         UNCHANGED <<globals, values, status>>, item' \in Items, access' = << >>,
         fn' \in Nat \ {0}, nesting # 0 => fn' = fn
  PROVE  IInv'
<1>1. layers \in Layers /\ HasInnermost(layers) /\ globals \in Bindings /\ Len(layers) = nesting
  <2>1. Len(values) \in Nat
    BY LenProperties DEF IInv, TypeOK
  <2> QED BY <2>1 DEF IInv, TypeOK, LayersOfHandlers, Layers, Bindings, Depth
<1>2. /\ layers' \in Layers /\ Len(layers') = nesting + 1 /\ nesting \in Nat
      /\ \A i \in 1..nesting : layers'[i] = layers[i]
  BY <1>1, Pushed
<1>3. HasInnermost(layers')
  BY <1>1, ScopesPushed
<1>4. layers'[nesting + 1] = EmptyLayer
  <2>1. EmptyLayer \in [Ident -> Entry]
    BY DEF EmptyLayer, NoEntry, Entry
  <2> QED BY <1>1, <2>1, AppendProperties DEF Layers
<1>5. ASSUME NEW i \in 1..Len(layers'), NEW x \in Ident
      PROVE  \/ layers'[i][x] = NoEntry
             \/ i \in 1..Len(layers) /\ layers'[i][x] = layers[i][x] /\ fn' = fn
  <2>1. i = nesting + 1 \/ (i \in 1..nesting /\ nesting # 0)
    BY <1>2
  <2>2. i = nesting + 1 => layers'[i][x] = NoEntry
    BY <1>4 DEF EmptyLayer
  <2> QED BY <1>1, <1>2, <2>1, <2>2
<1>6. Len(layers') = nesting' /\ nesting' \in Nat /\ fn' \in Nat /\ (nesting' # 0 => fn' # 0)
  BY <1>2
<1> QED BY <1>2, <1>3, <1>5, <1>6, LayersStep

LEMMA LeaveStep ==
  ASSUME IInv, NEW n \in 0..Depth, layers' = SubSeq(layers, 1, n), nesting' = n,
         UNCHANGED <<globals, values, fn, status>>, item' \in Items, access' = << >>
  PROVE  IInv'
<1>1. /\ layers \in Layers /\ HasInnermost(layers) /\ globals \in Bindings
      /\ Len(layers) = nesting /\ nesting \in Nat
  <2>1. Len(values) \in Nat
    BY LenProperties DEF IInv, TypeOK
  <2> QED BY <2>1 DEF IInv, TypeOK, LayersOfHandlers, Layers, Bindings, Depth
<1>2. n \in 0..Len(layers)
  BY DEF Depth
<1>3. layers' \in Layers /\ Len(layers') = n /\ \A i \in 1..n : layers'[i] = layers[i]
  BY <1>1, <1>2, Popped
<1>4. HasInnermost(layers')
  BY <1>1, <1>2, ScopesPopped
<1>5. ASSUME NEW i \in 1..Len(layers'), NEW x \in Ident
      PROVE  \/ layers'[i][x] = NoEntry
             \/ i \in 1..Len(layers) /\ layers'[i][x] = layers[i][x] /\ fn' = fn
  BY <1>1, <1>2, <1>3
<1>6. Len(layers') = nesting' /\ nesting' \in Nat /\ fn' \in Nat /\ (nesting' # 0 => fn' # 0)
  <2>1. n # 0 => nesting # 0
    BY <1>1, <1>2
  <2> QED BY <1>2, <1>3, <2>1, <1>1 DEF IInv, TypeOK, LayersOfHandlers
<1> QED BY <1>3, <1>4, <1>5, <1>6, LayersStep

\* A new value leaves the others as they are.
LEMMA Created ==
  ASSUME values \in Seq(Value), NEW v \in Value, values' = Append(values, v)
  PROVE  /\ values' \in Seq(Value) /\ Len(values) \in Nat /\ Len(values') = Len(values) + 1
         /\ \A i \in 1..Len(values) : values'[i] = values[i]
         /\ values'[Len(values) + 1] = v
<1>1. Len(values) \in Nat
  BY LenProperties
<1>2. /\ Append(values, v) \in Seq(Value) /\ Len(Append(values, v)) = Len(values) + 1
      /\ \A i \in 1..Len(values) : Append(values, v)[i] = values[i]
      /\ Append(values, v)[Len(values) + 1] = v
  BY AppendProperties
<1> QED BY <1>1, <1>2

LEMMA AddLocalStep ==
  ASSUME IInv, Depth # 0, NEW x \in Ident, NEW const \in BOOLEAN, NEW shape \in Shapes,
         AddLocal(x, const, shape), item' \in Items
  PROVE  IInv'
<1> DEFINE e == [kind |-> IF const THEN "const" ELSE "var", val |-> Len(values) + 1]
           v == NewValue(fn, const, shape)
<1>1. /\ layers \in Layers /\ HasInnermost(layers) /\ globals \in Bindings
      /\ Len(layers) = nesting /\ nesting \in Nat /\ Len(layers) # 0 /\ fn \in Nat
      /\ Len(values) \in Nat
  <2>1. Len(values) \in Nat
    BY LenProperties DEF IInv, TypeOK
  <2> QED BY <2>1 DEF IInv, TypeOK, LayersOfHandlers, Layers, Bindings, Depth
<1>2. v \in Value /\ e \in Entry
  BY <1>1 DEF NewValue, Value, Entry
<1>3. /\ values' \in Seq(Value) /\ Len(values') = Len(values) + 1
      /\ \A i \in 1..Len(values) : values'[i] = values[i]
      /\ values'[Len(values) + 1] = v
  <2> HIDE DEF v
  <2>1. values \in Seq(Value) /\ values' = Append(values, v)
    BY DEF IInv, TypeOK, AddLocal, v
  <2> QED BY <1>2, <2>1, Created
<1>4. layers' = Put(layers, x, e)
  BY DEF AddLocal, Depth, Put
<1>5. /\ layers' \in Layers /\ Len(layers') = Len(layers) /\ Len(layers) \in Nat \ {0}
      /\ \A i \in 1..(Len(layers) - 1) : layers'[i] = layers[i]
      /\ layers'[Len(layers)][x] = e
      /\ \A y \in Ident \ {x} : layers'[Len(layers)][y] = layers[Len(layers)][y]
  <2> HIDE DEF e
  <2>1. layers \in Layers /\ Len(layers) # 0 /\ e \in Entry
    BY <1>1, <1>2
  <2> QED BY ONLY <1>4, <2>1, x \in Ident, Changed
<1>6. HasInnermost(layers')
  <2>1. e.kind # "none"
    OBVIOUS
  <2> HIDE DEF e
  <2> QED BY <1>1, <1>2, <1>4, <2>1, ScopesChanged
<1>7. UNCHANGED <<globals, fn, nesting, status>> /\ access' = << >>
  BY DEF AddLocal
<1>8. \A i \in 1..Len(layers), y \in Ident :
        layers'[i][y] = layers[i][y] \/ layers'[i][y] = e
  <2> SUFFICES ASSUME NEW i \in 1..Len(layers), NEW y \in Ident
               PROVE  layers'[i][y] = layers[i][y] \/ layers'[i][y] = e
    OBVIOUS
  <2>1. i \in 1..(Len(layers) - 1) \/ i = Len(layers)
    BY <1>1
  <2> HIDE DEF e
  <2> QED BY <1>5, <2>1
<1>9. TypeOK'
  <2>1. \A i \in 1..Len(layers'), y \in Ident : layers'[i][y].val \in 0..Len(values')
    <3> SUFFICES ASSUME NEW i \in 1..Len(layers), NEW y \in Ident
                 PROVE  layers'[i][y].val \in 0..(Len(values) + 1)
      BY <1>3, <1>5
    <3>1. layers[i][y].val \in 0..Len(values)
      BY DEF IInv, TypeOK, Depth
    <3> QED BY <1>1, <1>8, <3>1
  <2>2. globals' \in [Ident -> 0..Len(values')]
    BY <1>1, <1>3, <1>7 DEF IInv, TypeOK
  <2> HIDE DEF v, e
  <2> QED BY <1>3, <1>5, <1>7, <2>1, <2>2, EmptyAccess DEF IInv, TypeOK, Depth, Layers
<1>10. LayersOfHandlers'
  BY <1>5, <1>7 DEF IInv, LayersOfHandlers, Depth
<1>11. LocalEntries'
  <2> SUFFICES ASSUME NEW i \in 1..Len(layers), NEW y \in Ident, layers'[i][y].kind # "none"
               PROVE  /\ layers'[i][y].val \in 1..Len(values')
                      /\ values'[layers'[i][y].val].owner = fn
                      /\ layers'[i][y].kind = "const" <=> values'[layers'[i][y].val].const
    BY <1>5, <1>7 DEF LocalEntries, Depth, Defined
  <2>1. CASE layers'[i][y] = layers[i][y]
    <3>1. /\ layers[i][y].val \in 1..Len(values)
          /\ values[layers[i][y].val].owner = fn
          /\ layers[i][y].kind = "const" <=> values[layers[i][y].val].const
      BY <2>1 DEF IInv, LocalEntries, Depth, Defined
    <3>2. values'[layers[i][y].val] = values[layers[i][y].val]
      BY <1>3, <3>1
    <3>3. layers[i][y].val \in 1..Len(values')
      BY <1>1, <1>3, <3>1
    <3> HIDE DEF v, e
    <3> QED BY <2>1, <3>1, <3>2, <3>3
  <2>2. CASE layers'[i][y] = e
    <3>1. e.val = Len(values) + 1 /\ e.kind = IF const THEN "const" ELSE "var"
      OBVIOUS
    <3>2. v.owner = fn /\ v.const = const
      BY DEF NewValue
    <3>3. Len(values) + 1 \in 1..Len(values')
      BY <1>1, <1>3
    <3>4. e.kind = "const" <=> const
      BY <3>1
    <3> HIDE DEF v, e
    <3>5. values'[e.val] = v
      BY <1>3, <3>1
    <3>6. layers'[i][y].val = e.val /\ layers'[i][y].kind = e.kind
      BY <2>2
    <3> QED BY <3>1, <3>2, <3>3, <3>4, <3>5, <3>6
  <2> QED BY <1>8, <2>1, <2>2
<1>12. GlobalEntries'
  <2> SUFFICES ASSUME NEW y \in Ident, globals[y] # 0 PROVE values'[globals[y]].owner = 0
    BY <1>7 DEF GlobalEntries
  <2>1. globals[y] \in 1..Len(values) /\ values[globals[y]].owner = 0
    BY <1>1 DEF IInv, GlobalEntries, TypeOK
  <2> HIDE DEF v
  <2> QED BY <1>3, <2>1
<1> HIDE DEF e, v
<1> QED BY <1>6, <1>9, <1>10, <1>11, <1>12 DEF IInv

\* A value that no layer names: a global variable, or a parameter whose name is taken.
LEMMA AddOtherStep ==
  ASSUME IInv, NEW owner \in Nat, NEW const \in BOOLEAN, NEW shape \in Shapes,
         values' = Append(values, NewValue(owner, const, shape)),
         UNCHANGED <<layers, fn, nesting, status>>, item' \in Items, access' = << >>,
         globals' \in [Ident -> 0..(Len(values) + 1)],
         \A y \in Ident : globals'[y] = globals[y] \/ (globals'[y] = Len(values) + 1 /\ owner = 0)
  PROVE  IInv'
<1> DEFINE v == NewValue(owner, const, shape)
<1>1. v \in Value /\ v.owner = owner
  BY DEF NewValue, Value
<1>2. /\ values' \in Seq(Value) /\ Len(values') = Len(values) + 1 /\ Len(values) \in Nat
      /\ \A i \in 1..Len(values) : values'[i] = values[i]
      /\ values'[Len(values) + 1] = v
  <2> HIDE DEF v
  <2>1. values \in Seq(Value) /\ values' = Append(values, v)
    BY DEF IInv, TypeOK, v
  <2> QED BY <1>1, <2>1, Created
<1> HIDE DEF v
<1>3. TypeOK'
  <2>1. \A i \in 1..Len(layers), y \in Ident : layers[i][y].val \in 0..Len(values')
    BY <1>2 DEF IInv, TypeOK, Depth
  <2>2. globals' \in [Ident -> 0..Len(values')]
    BY <1>2 DEF IInv, TypeOK
  <2> QED BY <1>2, <2>1, <2>2, EmptyAccess DEF IInv, TypeOK, Depth
<1>4. LayersOfHandlers' /\ HasInnermost(layers')
  BY DEF IInv, LayersOfHandlers, Depth
<1>5. LocalEntries'
  <2> SUFFICES ASSUME NEW i \in 1..Len(layers), NEW y \in Ident, layers[i][y].kind # "none"
               PROVE  /\ layers[i][y].val \in 1..Len(values')
                      /\ values'[layers[i][y].val].owner = fn
                      /\ layers[i][y].kind = "const" <=> values'[layers[i][y].val].const
    BY DEF LocalEntries, Depth, Defined
  <2>1. /\ layers[i][y].val \in 1..Len(values)
        /\ values[layers[i][y].val].owner = fn
        /\ layers[i][y].kind = "const" <=> values[layers[i][y].val].const
    BY DEF IInv, LocalEntries, Depth, Defined
  <2>2. values'[layers[i][y].val] = values[layers[i][y].val]
    BY <1>2, <2>1
  <2>3. layers[i][y].val \in 1..Len(values')
    BY <1>2, <2>1
  <2> QED BY <2>1, <2>2, <2>3
<1>6. GlobalEntries'
  <2> SUFFICES ASSUME NEW y \in Ident, globals'[y] # 0 PROVE values'[globals'[y]].owner = 0
    BY DEF GlobalEntries
  <2>1. CASE globals'[y] = globals[y]
    <3>1. globals[y] \in 1..Len(values) /\ values[globals[y]].owner = 0
      BY <1>2, <2>1 DEF IInv, GlobalEntries, TypeOK
    <3> QED BY <1>2, <2>1, <3>1
  <2>2. CASE globals'[y] = Len(values) + 1 /\ owner = 0
    BY <1>1, <1>2, <2>2
  <2> QED BY <2>1, <2>2
<1> QED BY <1>3, <1>4, <1>5, <1>6 DEF IInv

\* What the search finds: an alloca of this function, or a global variable.
LEMMA Resolved ==
  ASSUME IInv, NEW x \in Ident
  PROVE  /\ Resolve(x, Depth) \in 0..Len(values)
         /\ \/ /\ ValidLayer(x, Depth) = 0
               /\ Resolve(x, Depth) = globals[x]
               /\ Resolve(x, Depth) # 0 => values[Resolve(x, Depth)].owner = 0
            \/ /\ ValidLayer(x, Depth) \in 1..Depth
               /\ Resolve(x, Depth) \in 1..Len(values)
               /\ values[Resolve(x, Depth)].owner = fn /\ fn # 0
               /\ layers[ValidLayer(x, Depth)][x].kind = "const"
                    <=> values[Resolve(x, Depth)].const
<1>1. /\ HasInnermost(layers) /\ Len(layers) \in Nat /\ Len(values) \in Nat /\ Depth = Len(layers)
      /\ globals[x] \in 0..Len(values) /\ Depth = nesting
  <2>1. Len(values) \in Nat /\ Len(layers) \in Nat
    BY LenProperties DEF IInv, TypeOK
  <2> QED BY <2>1 DEF IInv, TypeOK, LayersOfHandlers, Depth
<1>2. ValidLayer(x, Depth) = Layer(layers, x, Depth)
  BY DEF ValidLayer, Layer, Defined, In
<1> DEFINE d == ValidLayer(x, Depth)
<1>3. \/ d = 0
      \/ d \in 1..Depth /\ Defined(x, d)
  <2>1. Depth \in 0..Len(layers)
    BY <1>1
  <2>2. \/ Layer(layers, x, Depth) = 0
        \/ /\ Layer(layers, x, Depth) \in 1..Depth
           /\ IsInnermost(layers, x, Depth, Layer(layers, x, Depth))
    BY <1>1, <2>1, LayerCases
  <2> QED BY <1>2, <2>2 DEF IsInnermost, In, Defined
<1>4. Resolve(x, Depth) = IF d = 0 THEN globals[x] ELSE layers[d][x].val
  BY DEF Resolve
<1> HIDE DEF d
<1>5. CASE d = 0
  BY <1>1, <1>4, <1>5 DEF IInv, GlobalEntries, d
<1>6. CASE d \in 1..Depth /\ Defined(x, d)
  <2>1. /\ layers[d][x].val \in 1..Len(values)
        /\ values[layers[d][x].val].owner = fn
        /\ layers[d][x].kind = "const" <=> values[layers[d][x].val].const
    BY <1>6 DEF IInv, LocalEntries
  <2>2. d # 0 /\ nesting # 0
    BY <1>1, <1>6
  <2>3. fn # 0
    BY <2>2 DEF IInv, LayersOfHandlers
  <2>4. Resolve(x, Depth) = layers[d][x].val
    BY <1>4, <2>2
  <2>5. Resolve(x, Depth) \in 0..Len(values)
    BY <1>1, <2>1, <2>4
  <2> QED BY <1>6, <2>1, <2>3, <2>4, <2>5 DEF d
<1> QED BY <1>3, <1>5, <1>6

LEMMA AccessStep ==
  ASSUME IInv, access' \in Seq(Access), item' \in Items,
         \A i \in 1..Len(access') : access'[i].val \in 1..Len(values),
         status' \in {"running", "crashed", "redefined", "undeclared", "const"},
         UNCHANGED <<layers, globals, values, fn, nesting>>
  PROVE  IInv'
<1>1. TypeOK'
  BY DEF IInv, TypeOK, Depth
<1>2. LayersOfHandlers' /\ HasInnermost(layers')
  BY DEF IInv, LayersOfHandlers, Depth
<1>3. LocalEntries' /\ GlobalEntries'
  BY DEF IInv, LocalEntries, GlobalEntries, Depth, Defined
<1> QED BY <1>1, <1>2, <1>3 DEF IInv

AccessedBy(code) == {code[i].val : i \in 1..Len(code)}
StoredBy(code) == {code[i].val : i \in {i \in 1..Len(code) : code[i].op = "store"}}

\* What the code emitted for an item accesses is the value found, and it stores to
\* that one exactly for an assignment.
LEMMA OneInstruction ==
  ASSUME NEW ins \in Access
  PROVE  /\ <<ins>> \in Seq(Access) /\ \A i \in 1..Len(<<ins>>) : <<ins>>[i].val = ins.val
         /\ AccessedBy(<<ins>>) = {ins.val}
         /\ StoredBy(<<ins>>) = IF ins.op = "store" THEN {ins.val} ELSE {}
<1>1. <<ins>> \in Seq(Access) /\ Len(<<ins>>) = 1 /\ <<ins>>[1] = ins
  OBVIOUS
<1> DEFINE code == <<ins>>
<1> HIDE DEF code
<1>2. code \in Seq(Access) /\ Len(code) = 1 /\ code[1] = ins
  BY <1>1 DEF code
<1>3. AccessedBy(code) = {ins.val}
  BY <1>2 DEF AccessedBy
<1>4. StoredBy(code) = IF ins.op = "store" THEN {ins.val} ELSE {}
  BY <1>2 DEF StoredBy
<1>5. \A i \in 1..Len(code) : code[i].val = ins.val
  BY <1>2
<1> QED BY <1>2, <1>3, <1>4, <1>5 DEF code

LEMMA TwoInstructions ==
  ASSUME NEW a \in Access, NEW b \in Access, a.val = b.val, a.op # "store", b.op = "store"
  PROVE  /\ <<a, b>> \in Seq(Access) /\ \A i \in 1..Len(<<a, b>>) : <<a, b>>[i].val = b.val
         /\ AccessedBy(<<a, b>>) = {b.val} /\ StoredBy(<<a, b>>) = {b.val}
<1> DEFINE code == <<a, b>>
<1>1. code \in Seq(Access) /\ Len(code) = 2 /\ code[1] = a /\ code[2] = b
  OBVIOUS
<1> HIDE DEF code
<1>2. \A i \in 1..Len(code) : i = 1 \/ i = 2
  BY <1>1
<1>3. 1 \in 1..Len(code) /\ 2 \in 1..Len(code)
  BY <1>1
<1>4. \A i \in 1..Len(code) : code[i].val = b.val
  BY <1>1, <1>2
<1>5. AccessedBy(code) = {b.val}
  BY <1>3, <1>4 DEF AccessedBy
<1>6. StoredBy(code) = {b.val}
  BY <1>1, <1>3, <1>4 DEF StoredBy
<1> QED BY <1>1, <1>4, <1>5, <1>6 DEF code

LEMMA ReadsTyped ==
  ASSUME IInv, NEW v \in 1..Len(values), NEW indexed \in BOOLEAN,
         NEW code \in {<<GetGlobal(v, indexed)>>, <<GetLocal(v, indexed)>>}
  PROVE  /\ code \in Seq(Access) /\ \A i \in 1..Len(code) : code[i].val \in 1..Len(values)
         /\ AccessedBy(code) = {v} /\ StoredBy(code) = {}
<1>1. values[v] \in Value /\ Len(values) \in Nat
  BY ElementOfSeq, LenProperties DEF IInv, TypeOK
<1>2. values[v].shape \in Shapes /\ v \in Nat
  BY <1>1 DEF Value
<1>3. SlotType(values[v].shape) \in {"i64", "ptr", "aggregate"}
  BY <1>2 DEF SlotType, Shapes
<1>4. /\ GetLocal(v, indexed) \in Access /\ GetLocal(v, indexed).val = v
      /\ GetLocal(v, indexed).op # "store"
  BY <1>2, <1>3 DEF GetLocal, Access
<1>5. /\ GetGlobal(v, indexed) \in Access /\ GetGlobal(v, indexed).val = v
      /\ GetGlobal(v, indexed).op # "store"
  BY <1>2, <1>3 DEF GetGlobal, Access
<1>6. PICK ins \in Access : code = <<ins>> /\ ins.val = v /\ ins.op # "store"
  BY <1>4, <1>5
<1>7. /\ <<ins>> \in Seq(Access) /\ \A i \in 1..Len(<<ins>>) : <<ins>>[i].val = ins.val
      /\ AccessedBy(<<ins>>) = {ins.val}
      /\ StoredBy(<<ins>>) = IF ins.op = "store" THEN {ins.val} ELSE {}
  BY OneInstruction
<1> QED BY <1>6, <1>7

LEMMA WritesTyped ==
  ASSUME IInv, NEW v \in 1..Len(values), NEW indexed \in BOOLEAN,
         NEW code \in {SetGlobal(v, indexed), <<SetLocal(v, indexed)>>}
  PROVE  /\ code \in Seq(Access) /\ \A i \in 1..Len(code) : code[i].val \in 1..Len(values)
         /\ AccessedBy(code) = {v} /\ StoredBy(code) = {v}
<1>1. values[v] \in Value /\ Len(values) \in Nat
  BY ElementOfSeq, LenProperties DEF IInv, TypeOK
<1>2. values[v].shape \in Shapes /\ v \in Nat
  BY <1>1 DEF Value
<1>3. SlotType(values[v].shape) \in {"i64", "ptr", "aggregate"}
  BY <1>2 DEF SlotType, Shapes
<1>4. \A via \in {"slot", "element", "pointee"} :
        Stored(v, via) \in Access /\ Stored(v, via).val = v /\ Stored(v, via).op = "store"
  BY <1>2 DEF Stored, Access
<1> DEFINE a == [op |-> "load", val |-> v, via |-> "slot", ty |-> SlotType(values[v].shape)]
           b == Stored(v, "slot")
<1>5. a \in Access /\ a.val = v /\ a.op = "load"
  BY <1>2, <1>3 DEF Access
<1>6. b \in Access /\ b.val = v /\ b.op = "store"
  BY <1>4
<1>7. \/ \E via \in {"slot", "element", "pointee"} : code = <<Stored(v, via)>>
      \/ code = <<a, b>>
  BY DEF SetLocal, SetGlobal
<1> HIDE DEF a, b
<1>8. CASE \E via \in {"slot", "element", "pointee"} : code = <<Stored(v, via)>>
  <2>1. PICK ins \in Access : code = <<ins>> /\ ins.val = v /\ ins.op = "store"
    BY <1>4, <1>8
  <2>2. /\ <<ins>> \in Seq(Access) /\ \A i \in 1..Len(<<ins>>) : <<ins>>[i].val = ins.val
        /\ AccessedBy(<<ins>>) = {ins.val}
        /\ StoredBy(<<ins>>) = IF ins.op = "store" THEN {ins.val} ELSE {}
    BY OneInstruction
  <2> QED BY <2>1, <2>2
<1>9. CASE code = <<a, b>>
  <2>1. /\ <<a, b>> \in Seq(Access) /\ \A i \in 1..Len(<<a, b>>) : <<a, b>>[i].val = b.val
        /\ AccessedBy(<<a, b>>) = {b.val} /\ StoredBy(<<a, b>>) = {b.val}
    BY <1>5, <1>6, TwoInstructions
  <2> QED BY <1>6, <1>9, <2>1
<1> QED BY <1>7, <1>8, <1>9

\* A program is rejected.
LEMMA LogErrorStep ==
  ASSUME IInv, NEW why \in {"redefined", "undeclared", "const"}, LogError(why), item' \in Items
  PROVE  IInv'
<1>1. /\ access' = << >> /\ status' = why
      /\ UNCHANGED <<layers, globals, values, fn, nesting>>
  BY DEF LogError
<1>2. /\ access' \in Seq(Access)
      /\ \A i \in 1..Len(access') : access'[i].val \in 1..Len(values)
  BY <1>1, EmptyAccess
<1> QED BY <1>1, <1>2, AccessStep

LEMMA StepIInv == IInv /\ [Next]_vars => IInv'
<1> SUFFICES ASSUME IInv, [Next]_vars PROVE IInv'
  OBVIOUS
<1>0. /\ fn \in Nat /\ nesting \in Nat /\ Depth = nesting /\ Len(values) \in Nat
      /\ access \in Seq(Access) /\ item \in Items
      /\ \A i \in 1..Len(access) : access[i].val \in 1..Len(values)
      /\ status \in {"running", "crashed", "redefined", "undeclared", "const"}
      /\ globals \in [Ident -> 0..Len(values)] /\ (nesting # 0 => fn # 0)
  <2>1. Len(values) \in Nat
    BY LenProperties DEF IInv, TypeOK
  <2> QED BY <2>1 DEF IInv, TypeOK, LayersOfHandlers
<1>1. CASE BeginFunc
  <2>1. fn' \in Nat \ {0} /\ nesting' = nesting + 1 /\ nesting = 0
    BY <1>0, <1>1 DEF BeginFunc
  <2>2. item' \in Items
    BY <1>1, ItemsTyped DEF BeginFunc
  <2> QED BY <1>1, <2>1, <2>2, EnterStep DEF BeginFunc
<1>2. CASE BeginBlock
  <2>1. fn' \in Nat \ {0} /\ nesting' = nesting + 1 /\ fn' = fn
    BY <1>0, <1>2 DEF BeginBlock
  <2>2. item' \in Items
    BY <1>2, ItemsTyped DEF BeginBlock
  <2> QED BY <1>2, <2>1, <2>2, EnterStep DEF BeginBlock
<1>3. CASE EndBlock
  <2>1. Depth - 1 \in 0..Depth
    BY <1>0, <1>3 DEF EndBlock
  <2>2. item' \in Items
    BY <1>3, ItemsTyped DEF EndBlock
  <2> QED BY <1>0, <1>3, <2>1, <2>2, LeaveStep DEF EndBlock, PopNamedValues
<1>4. CASE EndFunc
  <2>1. 0 \in 0..Depth /\ Depth - 2 = 0
    <3>1. nesting = 2
      BY <1>4 DEF EndFunc
    <3>2. Depth = 2
      BY <1>0, <3>1
    <3> HIDE DEF Depth
    <3> QED BY <3>2
  <2>2. item' \in Items
    BY <1>4, ItemsTyped DEF EndFunc
  <2> QED BY <1>4, <2>1, <2>2, LeaveStep DEF EndFunc, PopNamedValues
<1>5. ASSUME NEW x \in Ident, NEW shape \in {"scalar", "pointer"}, DefineParam(x, shape)
      PROVE  IInv'
  <2>1. shape \in Shapes /\ FALSE \in BOOLEAN /\ Depth # 0 /\ item' \in Items
    <3>1. item' \in Items
      BY <1>5, ItemsTyped DEF DefineParam
    <3>2. Depth # 0
      BY <1>0, <1>5 DEF DefineParam
    <3>3. shape \in Shapes
      BY DEF Shapes
    <3> QED BY <3>1, <3>2, <3>3
  <2>2. CASE AddUnspelled(shape)
    <3>1. /\ values' = Append(values, NewValue(fn, FALSE, shape))
          /\ UNCHANGED <<layers, globals, fn, nesting, status>> /\ access' = << >>
      BY <2>2 DEF AddUnspelled
    <3>2. globals' \in [Ident -> 0..(Len(values) + 1)] /\ \A y \in Ident : globals'[y] = globals[y]
      BY <1>0, <3>1
    <3> QED BY <1>0, <2>1, <3>1, <3>2, AddOtherStep
  <2>3. ASSUME NEW y \in ArgumentNames(x), AddLocal(y, FALSE, shape) PROVE IInv'
    <3>1. y \in Ident
      BY NumberedAssumption DEF ArgumentNames
    <3> QED BY <2>1, <2>3, <3>1, AddLocalStep
  <2> QED BY <1>5, <2>2, <2>3 DEF DefineParam
<1>6. ASSUME NEW x \in Ident, NEW const \in BOOLEAN, NEW shape \in {"scalar", "array"},
             DefineValue(x, const, shape)
      PROVE  IInv'
  <2>1. shape \in Shapes /\ item' \in Items
    BY <1>6, ItemsTyped DEF Shapes, DefineValue
  <2>2. CASE LogError("redefined")
    BY <2>1, <2>2, LogErrorStep
  <2>3. CASE AddGlobal(x, const, shape)
    <3>1. /\ globals' \in [Ident -> 0..(Len(values) + 1)]
          /\ \A y \in Ident : globals'[y] = globals[y] \/ globals'[y] = Len(values) + 1
      BY <1>0, <2>3 DEF AddGlobal
    <3>2. values' = Append(values, NewValue(0, const, shape)) /\ 0 \in Nat
      BY <2>3 DEF AddGlobal
    <3>3. UNCHANGED <<layers, fn, nesting, status>> /\ access' = << >>
      BY <2>3 DEF AddGlobal
    <3> QED BY <2>1, <3>1, <3>2, <3>3, AddOtherStep
  <2>4. CASE AddLocal(x, const, shape) /\ layers # << >>
    <3>1. Depth # 0
      <4>1. layers \in Seq([Ident -> Entry])
        BY DEF IInv, TypeOK
      <4> QED BY <2>4, <4>1, EmptySeq DEF Depth
    <3> QED BY <2>1, <2>4, <3>1, AddLocalStep
  <2> QED BY <1>6, <2>2, <2>3, <2>4 DEF DefineValue
<1>7. ASSUME NEW x \in Ident, NEW indexed \in BOOLEAN, GetValue(x, indexed) PROVE IInv'
  <2>1. item' \in Items
    BY <1>7, ItemsTyped DEF GetValue
  <2>2. CASE LogError("undeclared")
    BY <2>1, <2>2, LogErrorStep
  <2>3. CASE ~LogError("undeclared")
    <3> DEFINE v == Resolve(x, Depth)
    <3>1. v \in 1..Len(values)
      BY <1>0, <1>7, <2>3, Resolved DEF GetValue
    <3>2. access' \in {<<GetGlobal(v, indexed)>>, <<GetLocal(v, indexed)>>}
      BY <1>7, <2>3 DEF GetValue
    <3>3. status' \in {"crashed", status} /\ UNCHANGED <<layers, globals, values, fn, nesting>>
      BY <1>7, <2>3 DEF GetValue
    <3> HIDE DEF v
    <3>4. access' \in Seq(Access) /\ \A i \in 1..Len(access') : access'[i].val \in 1..Len(values)
      BY <3>1, <3>2, ReadsTyped
    <3>5. status' \in {"running", "crashed", "redefined", "undeclared", "const"}
      BY <1>0, <3>3
    <3> QED BY <2>1, <3>3, <3>4, <3>5, AccessStep
  <2> QED BY <2>2, <2>3
<1>8. ASSUME NEW x \in Ident, NEW indexed \in BOOLEAN, SetValue(x, indexed) PROVE IInv'
  <2>1. item' \in Items
    BY <1>8, ItemsTyped DEF SetValue
  <2>2. CASE LogError("undeclared") \/ LogError("const")
    BY <2>1, <2>2, LogErrorStep
  <2>3. CASE ~(LogError("undeclared") \/ LogError("const"))
    <3> DEFINE v == Resolve(x, Depth)
    <3>1. v \in 1..Len(values)
      BY <1>0, <1>8, <2>3, Resolved DEF SetValue
    <3>2. access' \in {SetGlobal(v, indexed), <<SetLocal(v, indexed)>>}
      BY <1>8, <2>3 DEF SetValue
    <3>3. UNCHANGED <<layers, globals, values, fn, nesting, status>>
      BY <1>8, <2>3 DEF SetValue
    <3> HIDE DEF v
    <3>4. access' \in Seq(Access) /\ \A i \in 1..Len(access') : access'[i].val \in 1..Len(values)
      BY <3>1, <3>2, WritesTyped
    <3> QED BY <1>0, <2>1, <3>3, <3>4, AccessStep
  <2> QED BY <2>2, <2>3
<1>9. CASE UNCHANGED vars
  BY <1>0, <1>9, AccessStep DEF vars
<1> QED BY <1>1, <1>2, <1>3, <1>4, <1>5, <1>6, <1>7, <1>8, <1>9 DEF Next, Exited

LEMMA Invariance == Spec => []IInv
<1>1. Init => IInv
  BY InitIInv
<1>2. IInv /\ [Next]_vars => IInv'
  BY StepIInv
<1> QED BY <1>1, <1>2, PTL DEF Spec

\* Every entry and every access names a value that was created, for any nesting
\* of blocks and any number of functions and definitions (defineValue, getValue
\* and setValue of code_gen_ctx.cpp).
THEOREM TypeCorrect == Spec => []TypeOK
BY Invariance, IInvImplies, PTL

\* The layers are those of the active calls of codeGenFunc and codeGenBlock, and
\* what they name belongs to the function being generated.
THEOREM LayersAreThisFunctions == Spec => []LayersOfThisFunction
BY Invariance, IInvImplies, PTL

-----------------------------------------------------------------------------
(* The refinement: the state functions under which LexicalScope is read *)

Consts == {v \in 1..Len(values) : values[v].const /\ values[v].owner # 0}
Rejected == IF status \in {"running", "crashed"} THEN "no" ELSE status

LEMMA ScopesAre == Scopes = ScopesOf(layers, globals) /\ Scopes' = ScopesOf(layers', globals')
<1>1. Scopes = ScopesOf(layers, globals)
  BY Zenon DEF Scopes, ScopesOf, ScopeAt, Found, Layer, In, Resolve, ValidLayer, Defined, Depth
<1>2. Scopes' = ScopesOf(layers', globals')
  BY Zenon DEF Scopes, ScopesOf, ScopeAt, Found, Layer, In, Resolve, ValidLayer, Defined, Depth
<1> QED BY <1>1, <1>2

LEMMA ScopeFacts ==
  ASSUME IInv
  PROVE  /\ layers \in Layers /\ HasInnermost(layers) /\ globals \in Bindings
         /\ Depth = Len(layers) /\ Depth \in Nat /\ Len(values) \in Nat
         /\ Scopes \in Seq(Scope) /\ Len(Scopes) = Depth + 1
         /\ \A x \in Ident : Scopes[Len(Scopes)].visible[x] = Resolve(x, Depth)
         /\ \A x \in Ident : x \in Scopes[Len(Scopes)].own
                               <=> IF Depth = 0 THEN globals[x] # 0 ELSE Defined(x, Depth)
<1>1. /\ layers \in Layers /\ HasInnermost(layers) /\ globals \in Bindings
      /\ Depth = Len(layers) /\ Len(values) \in Nat
  <2>1. Len(values) \in Nat
    BY LenProperties DEF IInv, TypeOK
  <2> QED BY <2>1 DEF IInv, TypeOK, Layers, Bindings, Depth
<1>2. /\ Scopes \in Seq(Scope) /\ Len(Scopes) = Len(layers) + 1 /\ Len(layers) \in Nat
  BY <1>1, ScopesAre, ScopesTyped
<1> DEFINE k == Len(Scopes)
<1>3. k = Depth + 1 /\ k - 1 = Depth /\ k \in 1..(Depth + 1) /\ (k = 1 <=> Depth = 0)
  BY <1>1, <1>2
<1>4. /\ Scopes[k].visible = [x \in Ident |-> Resolve(x, k - 1)]
      /\ k = 1 => Scopes[k].own = {x \in Ident : globals[x] # 0}
      /\ k # 1 => Scopes[k].own = {x \in Ident : Defined(x, k - 1)}
  <2> HIDE DEF k
  <2> QED BY <1>3 DEF Scopes
<1> HIDE DEF k
<1>5. ASSUME NEW x \in Ident PROVE Scopes[k].visible[x] = Resolve(x, Depth)
  <2>1. Scopes[k].visible[x] = Resolve(x, k - 1)
    BY <1>4
  <2> QED BY <1>3, <2>1
<1>6. ASSUME NEW x \in Ident
      PROVE  x \in Scopes[k].own <=> IF Depth = 0 THEN globals[x] # 0 ELSE Defined(x, Depth)
  <2>1. CASE k = 1
    BY <1>3, <1>4, <2>1
  <2>2. CASE k # 1
    <3>1. x \in Scopes[k].own <=> Defined(x, k - 1)
      BY <1>4, <2>2
    <3>2. Depth # 0 /\ Defined(x, k - 1) = Defined(x, Depth)
      BY <1>3, <2>2
    <3> QED BY <3>1, <3>2
  <2> QED BY <2>1, <2>2
<1> QED BY <1>1, <1>2, <1>5, <1>6 DEF k

LEMMA RefinesInit == Init => Lexical!Init
<1> SUFFICES ASSUME Init PROVE Lexical!Init
  OBVIOUS
<1>1. globals = [x \in Ident |-> 0] /\ layers = << >> /\ values = << >> /\ Len(values) = 0
  BY DEF Init
<1>2. globals \in Bindings /\ \A x \in Ident : globals[x] = 0
  BY <1>1 DEF Bindings
<1>3. ScopesOf(layers, globals)
        = <<[visible |-> globals, own |-> {y \in Ident : globals[y] # 0}]>>
  <2>1. PICK x \in Ident : TRUE
    BY IdentAssumption
  <2>2. 1 \in Nat \ {0}
    OBVIOUS
  <2>3. ScopesOf(<< >>, globals)
          = <<[visible |-> globals, own |-> {y \in Ident : globals[y] # 0}]>>
    BY <1>2, <2>1, <2>2, ScopesOfFile
  <2> QED BY <1>1, <2>3
<1>4. {y \in Ident : globals[y] # 0} = {}
  BY <1>2
<1>5. Scopes = <<[visible |-> [x \in Ident |-> 0], own |-> {}]>>
  BY <1>1, <1>3, <1>4, ScopesAre
<1>6. Consts = {}
  BY <1>1 DEF Consts
<1>7. access = << >> /\ item = << >> /\ status = "running"
  BY DEF Init
<1>8. Touched = {} /\ Assigned = {}
  <2>1. Len(access) = 0
    BY <1>7
  <2> QED BY <2>1 DEF Touched, Assigned
<1> QED BY <1>1, <1>5, <1>6, <1>7, <1>8 DEF Lexical!Init, Lexical!Unbound, Consts

LEMMA NothingTouched == ASSUME access' = << >> PROVE Touched' = {} /\ Assigned' = {}
<1>1. Len(access') = 0
  OBVIOUS
<1> QED BY <1>1 DEF Touched, Assigned

LEMMA RefinesNoAccess ==
  ASSUME access' = << >>, UNCHANGED status
  PROVE  Lexical!NoAccess
BY NothingTouched DEF Lexical!NoAccess

LEMMA RefinesOpen ==
  ASSUME IInv, layers' = Append(layers, EmptyLayer), item' = <<"open">>, access' = << >>,
         UNCHANGED <<globals, values, status>>
  PROVE  Lexical!Open
<1>1. Scopes' = Append(Scopes, [visible |-> Scopes[Len(Scopes)].visible, own |-> {}])
  <2>1. /\ layers \in Layers /\ HasInnermost(layers) /\ globals \in Bindings
        /\ Len(Scopes) = Len(layers) + 1
    BY ScopeFacts
  <2>2. ScopesOf(Append(layers, EmptyLayer), globals)
          = Append(ScopesOf(layers, globals),
                   [visible |-> ScopesOf(layers, globals)[Len(layers) + 1].visible, own |-> {}])
    BY <2>1, ScopesPushed
  <2> QED BY <2>1, <2>2, ScopesAre
<1>2. Lexical!NoAccess
  BY RefinesNoAccess
<1> QED BY <1>1, <1>2 DEF Lexical!Open, Lexical!Inner, Lexical!KeepPlaces

LEMMA ScopesLeft ==
  ASSUME IInv, NEW n \in 0..(Depth - 1), layers' = SubSeq(layers, 1, n), UNCHANGED globals
  PROVE  Scopes' = SubSeq(Scopes, 1, n + 1)
<1>1. /\ layers \in Layers /\ HasInnermost(layers) /\ globals \in Bindings
      /\ Depth = Len(layers) /\ Depth \in Nat
  BY ScopeFacts
<1>2. n \in 0..Len(layers)
  BY <1>1
<1> QED BY <1>1, <1>2, ScopesAre, ScopesPopped

LEMMA RefinesClose ==
  ASSUME IInv, EndBlock
  PROVE  Lexical!Close
<1>1. Len(Scopes) = Depth + 1 /\ Depth \in Nat /\ Depth > 2
  BY ScopeFacts DEF EndBlock, IInv, LayersOfHandlers
<1>2. Depth - 1 \in 0..(Depth - 1) /\ Depth - 1 + 1 = Len(Scopes) - 1 /\ Len(Scopes) > 1
  BY <1>1
<1>3. Scopes' = SubSeq(Scopes, 1, Depth - 1 + 1)
  BY <1>2, ScopesLeft DEF EndBlock, PopNamedValues
<1>4. Lexical!NoAccess
  BY RefinesNoAccess DEF EndBlock
<1> QED BY <1>2, <1>3, <1>4 DEF Lexical!Close, Lexical!KeepPlaces, EndBlock

LEMMA RefinesCloseFunction ==
  ASSUME IInv, EndFunc
  PROVE  Lexical!CloseFunction
<1>1. Depth = 2
  BY DEF EndFunc, IInv, LayersOfHandlers
<1>2. Scopes' = SubSeq(Scopes, 1, 1)
  <2>1. 0 \in 0..(Depth - 1) /\ Depth - 2 = 0 /\ 0 + 1 = 1
    BY <1>1
  <2>2. Scopes' = SubSeq(Scopes, 1, 0 + 1)
    BY <2>1, ScopesLeft DEF EndFunc, PopNamedValues
  <2> QED BY <2>1, <2>2
<1>3. Lexical!NoAccess
  BY RefinesNoAccess DEF EndFunc
<1> QED BY <1>2, <1>3 DEF Lexical!CloseFunction, Lexical!KeepPlaces, EndFunc

LEMMA RefinesReject ==
  ASSUME NEW why \in {"redefined", "undeclared", "const"}, LogError(why)
  PROVE  Lexical!Reject(why)
<1>1. UNCHANGED <<layers, globals, values>> /\ access' = << >> /\ status' = why
  BY DEF LogError
<1>2. Scopes' = Scopes
  BY <1>1, ScopesAre
<1>3. Touched' = {} /\ Assigned' = {}
  BY <1>1, NothingTouched
<1>4. Rejected' = why
  BY <1>1 DEF Rejected
<1> QED BY <1>1, <1>2, <1>3, <1>4
        DEF Lexical!Reject, Lexical!KeepScopes, Lexical!KeepPlaces, Rejected

LEMMA TouchedBy == Touched' = AccessedBy(access') /\ Assigned' = StoredBy(access')
BY DEF Touched, Assigned, AccessedBy, StoredBy

LEMMA RefinesUse ==
  ASSUME IInv, NEW x \in Ident, item' = <<"use", x>>, Resolve(x, Depth) # 0,
         UNCHANGED <<layers, globals, values>>, Rejected' = Rejected,
         AccessedBy(access') = {Resolve(x, Depth)}, StoredBy(access') = {}
  PROVE  Lexical!Use(x)
<1>1. Scopes[Len(Scopes)].visible[x] = Resolve(x, Depth)
  BY ScopeFacts
<1>2. Scopes' = Scopes
  BY ScopesAre
<1>3. Touched' = {Resolve(x, Depth)} /\ Assigned' = {}
  BY TouchedBy
<1> QED BY <1>1, <1>2, <1>3
    DEF Lexical!Use, Lexical!Inner, Lexical!Unbound, Lexical!KeepScopes, Lexical!KeepPlaces,
        Rejected

LEMMA RefinesAssign ==
  ASSUME IInv, NEW x \in Ident, item' = <<"assign", x>>, Resolve(x, Depth) # 0,
         Resolve(x, Depth) \notin Consts,
         UNCHANGED <<layers, globals, values>>, Rejected' = Rejected,
         AccessedBy(access') = {Resolve(x, Depth)}, StoredBy(access') = {Resolve(x, Depth)}
  PROVE  Lexical!Assign(x)
<1>1. Scopes[Len(Scopes)].visible[x] = Resolve(x, Depth)
  BY ScopeFacts
<1>2. Scopes' = Scopes
  BY ScopesAre
<1>3. Touched' = {Resolve(x, Depth)} /\ Assigned' = {Resolve(x, Depth)}
  BY TouchedBy
<1> QED BY <1>1, <1>2, <1>3
    DEF Lexical!Assign, Lexical!Inner, Lexical!Unbound, Lexical!KeepScopes, Lexical!KeepPlaces,
        Rejected, Consts

\* A new value adds a place, which is a constant when an alloca is declared one.
LEMMA RefinesPlace ==
  ASSUME IInv, NEW owner \in Nat, NEW const \in BOOLEAN, NEW shape \in Shapes,
         values' = Append(values, NewValue(owner, const, shape)),
         NEW c \in BOOLEAN, c <=> const /\ owner # 0
  PROVE  Lexical!NewPlace(c)
<1> DEFINE v == NewValue(owner, const, shape)
           n == Len(values)
<1>1. v \in Value /\ v.owner = owner /\ v.const = const
  BY DEF NewValue, Value
<1>2. /\ Len(values') = n + 1 /\ n \in Nat
      /\ \A i \in 1..n : values'[i] = values[i]
      /\ values'[n + 1] = v
  <2> HIDE DEF v
  <2>1. values \in Seq(Value) /\ values' = Append(values, v)
    BY DEF IInv, TypeOK, v
  <2> QED BY <1>1, <2>1, Created
<1> HIDE DEF v, n
<1>3. Consts' = IF c THEN Consts \cup {n + 1} ELSE Consts
  <2>1. Consts' = {i \in 1..(n + 1) : values'[i].const /\ values'[i].owner # 0}
    BY <1>2 DEF Consts
  <2>2. Consts = {i \in 1..n : values[i].const /\ values[i].owner # 0}
    BY DEF Consts, n
  <2>3. \A i \in 1..(n + 1) : i \in 1..n \/ i = n + 1
    BY <1>2
  <2>4. \A i \in 1..n : i \in 1..(n + 1)
    BY <1>2
  <2>5. n + 1 \in 1..(n + 1) /\ n + 1 \notin 1..n
    BY <1>2
  <2>6. CASE c
    <3>1. ASSUME NEW i PROVE i \in Consts' <=> i \in Consts \/ i = n + 1
      BY <1>1, <1>2, <2>1, <2>2, <2>3, <2>4, <2>5, <2>6
    <3> QED BY <2>6, <3>1
  <2>7. CASE ~c
    <3>1. ASSUME NEW i PROVE i \in Consts' <=> i \in Consts
      BY <1>1, <1>2, <2>1, <2>2, <2>3, <2>4, <2>5, <2>7
    <3> QED BY <2>7, <3>1
  <2> QED BY <2>6, <2>7
<1> QED BY <1>2, <1>3 DEF Lexical!NewPlace, Consts, n

LEMMA RefinesBind ==
  ASSUME NEW x \in Ident, NEW c \in BOOLEAN,
         Scopes' = Declared(Scopes, x, Len(values) + 1), Lexical!NewPlace(c)
  PROVE  Lexical!Bind(x, c)
BY DEF Lexical!Bind, Declared

LEMMA RefinesAddLocal ==
  ASSUME IInv, Depth # 0, NEW x \in Ident, NEW const \in BOOLEAN, NEW shape \in Shapes,
         AddLocal(x, const, shape)
  PROVE  Lexical!Bind(x, const) /\ Lexical!NoAccess
<1> DEFINE e == [kind |-> IF const THEN "const" ELSE "var", val |-> Len(values) + 1]
<1>1. /\ layers \in Layers /\ HasInnermost(layers) /\ globals \in Bindings
      /\ Len(layers) # 0 /\ Len(values) \in Nat
  BY ScopeFacts
<1>2. e \in Entry /\ e.kind # "none" /\ e.val = Len(values) + 1
  BY <1>1 DEF Entry
<1>3. /\ layers' = Put(layers, x, e)
      /\ UNCHANGED <<globals, status>> /\ access' = << >>
      /\ values' = Append(values, NewValue(fn, const, shape))
  BY DEF AddLocal, Depth, Put
<1>4. Scopes' = Declared(Scopes, x, Len(values) + 1)
  <2> HIDE DEF e
  <2>1. ScopesOf(Put(layers, x, e), globals) = Declared(ScopesOf(layers, globals), x, e.val)
    BY <1>1, <1>2, ScopesChanged
  <2> QED BY <1>2, <1>3, <2>1, ScopesAre
<1>5. Lexical!NewPlace(const)
  <2>1. fn \in Nat /\ fn # 0
    BY DEF IInv, TypeOK, LayersOfHandlers
  <2>2. const <=> const /\ fn # 0
    BY <2>1
  <2> QED BY <1>3, <2>1, <2>2, RefinesPlace
<1>6. Lexical!NoAccess
  BY <1>3, RefinesNoAccess
<1> QED BY <1>4, <1>5, <1>6, RefinesBind

LEMMA RefinesAddGlobal ==
  ASSUME IInv, layers = << >>, NEW x \in Ident, NEW const \in BOOLEAN, NEW shape \in Shapes,
         AddGlobal(x, const, shape)
  PROVE  Lexical!Bind(x, FALSE) /\ Lexical!NoAccess
<1>1. globals \in Bindings /\ Len(values) \in Nat
  BY ScopeFacts
<1>2. /\ layers' = << >>
      /\ globals' = Bind(globals, x, Len(values) + 1)
      /\ UNCHANGED status /\ access' = << >>
      /\ values' = Append(values, NewValue(0, const, shape))
  BY DEF AddGlobal, Bind
<1>3. Scopes' = Declared(Scopes, x, Len(values) + 1)
  <2> DEFINE v == Len(values) + 1
  <2>1. v \in Nat \ {0}
    BY <1>1
  <2> HIDE DEF v
  <2>2. ScopesOf(<< >>, Bind(globals, x, v)) = Declared(ScopesOf(<< >>, globals), x, v)
    BY <1>1, <2>1, ScopesOfFile
  <2> QED BY <1>2, <2>2, ScopesAre DEF v
<1>4. Lexical!NewPlace(FALSE)
  <2>1. 0 \in Nat /\ FALSE \in BOOLEAN /\ (FALSE <=> const /\ 0 # 0)
    OBVIOUS
  <2> QED BY <1>2, <2>1, RefinesPlace
<1>5. Lexical!NoAccess
  BY <1>2, RefinesNoAccess
<1> QED BY <1>3, <1>4, <1>5, RefinesBind

LEMMA RefinesUnspelled ==
  ASSUME IInv, NEW shape \in Shapes, AddUnspelled(shape)
  PROVE  Lexical!NewPlace(FALSE) /\ Lexical!KeepScopes /\ Lexical!NoAccess
<1>1. /\ values' = Append(values, NewValue(fn, FALSE, shape))
      /\ UNCHANGED <<layers, globals, status>> /\ access' = << >>
  BY DEF AddUnspelled
<1>2. Scopes' = Scopes
  BY <1>1, ScopesAre
<1>3. Lexical!NewPlace(FALSE)
  <2>1. fn \in Nat /\ FALSE \in BOOLEAN /\ (FALSE <=> FALSE /\ fn # 0)
    BY DEF IInv, TypeOK
  <2> QED BY <1>1, <2>1, RefinesPlace
<1>4. Lexical!NoAccess
  BY <1>1, RefinesNoAccess
<1> QED BY <1>2, <1>3, <1>4 DEF Lexical!KeepScopes

\* A parameter is declared as block scoping says, or it is a repeated one.
LEMMA RefinesParam ==
  ASSUME IInv, NEW x \in Ident, NEW shape \in {"scalar", "pointer"}, DefineParam(x, shape)
  PROVE  Lexical!Declare(x, FALSE) \/ RepeatedParam(x)
<1>1. nesting = 1 /\ Depth = 1 /\ item' = <<"declare", x, FALSE>>
  BY DEF DefineParam, IInv, LayersOfHandlers
<1>2. shape \in Shapes /\ FALSE \in BOOLEAN /\ Depth # 0
  BY <1>1 DEF Shapes
<1>3. /\ \A y \in Ident : y \in Scopes[Len(Scopes)].own <=> Defined(y, Depth)
      /\ Len(Scopes) = 2
  BY <1>1, ScopeFacts
<1>4. CASE ~Defined(x, Depth)
  <2>1. AddLocal(x, FALSE, shape)
    BY <1>4 DEF DefineParam, ArgumentNames
  <2>2. Lexical!Bind(x, FALSE) /\ Lexical!NoAccess
    BY <1>2, <2>1, RefinesAddLocal
  <2> DEFINE c == FALSE /\ Len(Scopes) > 1
  <2>3. c = FALSE
    OBVIOUS
  <2> HIDE DEF c
  <2>4. Lexical!Bind(x, c)
    BY <2>2, <2>3 DEF Lexical!Bind, Lexical!NewPlace
  <2> QED BY <1>1, <1>3, <1>4, <2>2, <2>4 DEF Lexical!Declare, Lexical!Inner, c
<1>5. CASE Defined(x, Depth)
  <2>1. x \in Lexical!Inner.own
    BY <1>3, <1>5 DEF Lexical!Inner
  <2>2. CASE AddUnspelled(shape)
    <3>1. Lexical!NewPlace(FALSE) /\ Lexical!KeepScopes /\ Lexical!NoAccess
      BY <1>2, <2>2, RefinesUnspelled
    <3> QED BY <1>1, <2>1, <3>1 DEF RepeatedParam
  <2>3. ASSUME NEW y \in ArgumentNames(x), AddLocal(y, FALSE, shape) PROVE RepeatedParam(x)
    <3>1. y \in Numbered[x] /\ ~Defined(y, Depth) /\ y \in Ident
      BY <1>5, NumberedAssumption DEF ArgumentNames
    <3>2. y \in Numbered[x] \ Lexical!Inner.own
      BY <1>3, <3>1 DEF Lexical!Inner
    <3>3. Lexical!Bind(y, FALSE) /\ Lexical!NoAccess
      BY <1>2, <2>3, <3>1, RefinesAddLocal
    <3> QED BY <1>1, <2>1, <3>2, <3>3 DEF RepeatedParam
  <2> QED BY <2>2, <2>3 DEF DefineParam
<1> QED BY <1>4, <1>5

LEMMA RefinesDeclare ==
  ASSUME IInv, NEW x \in Ident, NEW const \in BOOLEAN, NEW shape \in {"scalar", "array"},
         DefineValue(x, const, shape)
  PROVE  Lexical!Declare(x, const)
<1>1. item' = <<"declare", x, const>> /\ shape \in Shapes
  BY DEF DefineValue, Shapes
<1>2. /\ Len(Scopes) = Depth + 1 /\ Depth \in Nat
      /\ x \in Scopes[Len(Scopes)].own <=> IF Depth = 0 THEN globals[x] # 0 ELSE Defined(x, Depth)
  BY ScopeFacts
<1>3. layers = << >> <=> Depth = 0
  <2>1. layers \in Seq([Ident -> Entry])
    BY DEF IInv, TypeOK
  <2> QED BY <2>1, EmptySeq DEF Depth
<1>4. CASE x \in Scopes[Len(Scopes)].own
  <2>1. LogError("redefined")
    BY <1>2, <1>3, <1>4 DEF DefineValue
  <2>2. Lexical!Reject("redefined")
    BY <2>1, RefinesReject
  <2> QED BY <1>1, <1>4, <2>2 DEF Lexical!Declare, Lexical!Inner
<1>5. CASE x \notin Scopes[Len(Scopes)].own
  <2>1. Lexical!Bind(x, const /\ Len(Scopes) > 1) /\ Lexical!NoAccess
    <3>1. CASE Depth = 0
      <4>1. AddGlobal(x, const, shape) /\ layers = << >>
        BY <1>2, <1>3, <1>5, <3>1 DEF DefineValue
      <4>2. (const /\ Len(Scopes) > 1) = FALSE
        BY <1>2, <3>1
      <4>3. Lexical!Bind(x, FALSE) /\ Lexical!NoAccess
        BY ONLY IInv, x \in Ident, const \in BOOLEAN, <1>1, <4>1, RefinesAddGlobal
      <4> DEFINE c == const /\ Len(Scopes) > 1
      <4>4. c = FALSE
        BY <4>2
      <4> HIDE DEF c
      <4>5. Lexical!Bind(x, c)
        BY <4>3, <4>4 DEF Lexical!Bind, Lexical!NewPlace
      <4> QED BY <4>3, <4>5 DEF c
    <3>2. CASE Depth # 0
      <4>1. AddLocal(x, const, shape)
        BY <1>2, <1>3, <1>5, <3>2 DEF DefineValue
      <4>2. (const /\ Len(Scopes) > 1) = const
        BY <1>2, <3>2
      <4>3. Lexical!Bind(x, const) /\ Lexical!NoAccess
        BY <1>1, <3>2, <4>1, RefinesAddLocal
      <4> DEFINE c == const /\ Len(Scopes) > 1
      <4>4. c = const
        BY <4>2
      <4> HIDE DEF c
      <4>5. Lexical!Bind(x, c)
        BY <4>3, <4>4 DEF Lexical!Bind, Lexical!NewPlace
      <4> QED BY <4>3, <4>5 DEF c
    <3> QED BY <3>1, <3>2
  <2> QED BY <1>1, <1>5, <2>1 DEF Lexical!Declare, Lexical!Inner
<1> QED BY <1>4, <1>5

LEMMA RefinesGetValue ==
  ASSUME IInv, NEW x \in Ident, NEW indexed \in BOOLEAN, GetValue(x, indexed)
  PROVE  Lexical!Use(x)
<1> DEFINE v == Resolve(x, Depth)
<1>1. Running /\ item' = <<"use", x>>
  BY DEF GetValue
<1>2. Scopes[Len(Scopes)].visible[x] = v
  BY ScopeFacts
<1>3. CASE v = 0
  <2>1. LogError("undeclared")
    BY <1>3 DEF GetValue
  <2>2. Lexical!Reject("undeclared")
    BY <2>1, RefinesReject
  <2> QED BY <1>1, <1>2, <1>3, <2>2 DEF Lexical!Use, Lexical!Inner, Lexical!Unbound
<1>4. CASE v # 0
  <2>1. v \in 1..Len(values)
    BY <1>4, Resolved, ScopeFacts
  <2>2. /\ access' \in {<<GetGlobal(v, indexed)>>, <<GetLocal(v, indexed)>>}
        /\ status' \in {"crashed", status} /\ UNCHANGED <<layers, globals, values>>
    BY <1>4 DEF GetValue
  <2>3. Rejected' = Rejected
    BY <1>1, <2>2 DEF Rejected, Running
  <2> HIDE DEF v
  <2>4. AccessedBy(access') = {v} /\ StoredBy(access') = {}
    BY <2>1, <2>2, ReadsTyped
  <2> QED BY <1>1, <1>4, <2>2, <2>3, <2>4, RefinesUse DEF v
<1> QED BY <1>3, <1>4

LEMMA RefinesSetValue ==
  ASSUME IInv, NEW x \in Ident, NEW indexed \in BOOLEAN, SetValue(x, indexed)
  PROVE  Lexical!Assign(x)
<1> DEFINE v == Resolve(x, Depth)
           d == ValidLayer(x, Depth)
<1>1. item' = <<"assign", x>>
  BY DEF SetValue
<1>2. Scopes[Len(Scopes)].visible[x] = v
  BY ScopeFacts
<1>3. IsConstEntry(x) <=> d # 0 /\ layers[d][x].kind = "const"
  BY DEF IsConstEntry
<1>4. CASE v = 0
  <2>1. LogError("undeclared")
    BY <1>4 DEF SetValue
  <2>2. Lexical!Reject("undeclared")
    BY <2>1, RefinesReject
  <2> QED BY <1>1, <1>2, <1>4, <2>2 DEF Lexical!Assign, Lexical!Inner, Lexical!Unbound
<1>5. CASE v # 0
  <2>1. v \in 1..Len(values)
    BY <1>5, Resolved, ScopeFacts
  <2>2. v \in Consts <=> IsConstEntry(x)
    <3> HIDE DEF v, d
    <3>1. \/ d = 0 /\ values[v].owner = 0
          \/ /\ d # 0 /\ values[v].owner # 0
             /\ layers[d][x].kind = "const" <=> values[v].const
      BY <1>5, Resolved, ScopeFacts DEF v, d
    <3> QED BY <1>3, <2>1, <3>1 DEF Consts
  <2>3. CASE IsConstEntry(x)
    <3>1. LogError("const")
      BY <1>5, <2>3 DEF SetValue
    <3>2. Lexical!Reject("const")
      BY <3>1, RefinesReject
    <3> QED BY <1>1, <1>2, <2>2, <2>3, <3>2 DEF Lexical!Assign, Lexical!Inner, Consts
  <2>4. CASE ~IsConstEntry(x)
    <3>1. /\ access' \in {SetGlobal(v, indexed), <<SetLocal(v, indexed)>>}
          /\ UNCHANGED <<layers, globals, values, status>>
      BY <1>5, <2>4 DEF SetValue
    <3>2. Rejected' = Rejected
      BY <3>1 DEF Rejected
    <3> HIDE DEF v
    <3>3. AccessedBy(access') = {v} /\ StoredBy(access') = {v}
      BY <2>1, <3>1, WritesTyped
    <3> QED BY <1>1, <1>5, <2>2, <2>4, <3>1, <3>2, <3>3, RefinesAssign DEF v
  <2> QED BY <2>3, <2>4
<1> QED BY <1>4, <1>5

LEMMA RefinesNext ==
  IInv /\ [Next]_vars => [Lexical!Next \/ \E x \in Ident : RepeatedParam(x)]_(Lexical!scopeVars)
<1> SUFFICES ASSUME IInv, Next
             PROVE  \/ Lexical!Next
                    \/ \E x \in Ident : RepeatedParam(x)
                    \/ UNCHANGED Lexical!scopeVars
  <2>1. UNCHANGED vars => UNCHANGED Lexical!scopeVars
    <3> SUFFICES ASSUME UNCHANGED vars PROVE UNCHANGED Lexical!scopeVars
      OBVIOUS
    <3>1. Scopes' = Scopes
      BY ScopesAre DEF vars
    <3> QED BY <3>1 DEF vars, Lexical!scopeVars, Touched, Assigned
  <2> QED BY <2>1
<1>1. Running => Rejected = "no"
  BY DEF Running, Rejected
<1>2. CASE BeginFunc \/ BeginBlock
  <2>1. Lexical!Open /\ Running
    BY <1>2, RefinesOpen DEF BeginFunc, BeginBlock
  <2> QED BY <1>1, <2>1 DEF Lexical!Next, Rejected
<1>3. CASE EndBlock \/ EndFunc
  <2>1. (Lexical!Close \/ Lexical!CloseFunction) /\ Running
    BY <1>3, RefinesClose, RefinesCloseFunction DEF EndBlock, EndFunc
  <2> QED BY <1>1, <2>1 DEF Lexical!Next, Rejected
<1>4. ASSUME NEW x \in Ident, NEW shape \in {"scalar", "pointer"}, DefineParam(x, shape)
      PROVE  Lexical!Next \/ RepeatedParam(x)
  <2>1. Lexical!Declare(x, FALSE) \/ RepeatedParam(x)
    BY <1>4, RefinesParam
  <2>2. Running
    BY <1>4 DEF DefineParam
  <2> QED BY <1>1, <2>1, <2>2 DEF Lexical!Next, Rejected
<1>5. ASSUME NEW x \in Ident, NEW const \in BOOLEAN, NEW shape \in {"scalar", "array"},
             DefineValue(x, const, shape)
      PROVE  Lexical!Next
  <2>1. Lexical!Declare(x, const)
    BY <1>5, RefinesDeclare
  <2>2. Running
    BY <1>5 DEF DefineValue
  <2> QED BY <1>1, <2>1, <2>2 DEF Lexical!Next, Rejected
<1>6. ASSUME NEW x \in Ident, NEW indexed \in BOOLEAN, GetValue(x, indexed) \/ SetValue(x, indexed)
      PROVE  Lexical!Next
  <2>1. Lexical!Use(x) \/ Lexical!Assign(x)
    BY <1>6, RefinesGetValue, RefinesSetValue
  <2>2. Running
    BY <1>6 DEF GetValue, SetValue
  <2> QED BY <1>1, <2>1, <2>2 DEF Lexical!Next, Rejected
<1>7. CASE Exited
  <2>1. Scopes' = Scopes
    BY <1>7, ScopesAre DEF Exited, vars
  <2> QED BY <1>7, <2>1 DEF Exited, vars, Lexical!scopeVars, Touched, Assigned
<1> QED BY <1>2, <1>3, <1>4, <1>5, <1>6, <1>7 DEF Next

\* The search through the stack of maps gives every identifier the meaning block
\* scoping gives it: each handler of code_gen_ctx.cpp is the step of LexicalScope
\* for what the source says there, whatever the identifiers, the nesting and the
\* number of functions, but for the parameters that LLVM has to rename.
THEOREM SearchIsLexical == Spec => ImplementsLexicalScope
<1>1. Init => Lexical!Init
  BY RefinesInit
<1>2. IInv /\ [Next]_vars
        => [Lexical!Next \/ \E x \in Ident : RepeatedParam(x)]_(Lexical!scopeVars)
  BY RefinesNext
<1>3. Spec => []IInv
  BY Invariance
<1> QED BY <1>1, <1>2, <1>3, PTL DEF Spec, ImplementsLexicalScope

=============================================================================
