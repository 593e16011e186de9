------------------------- MODULE InitializersProofs -------------------------
(***************************************************************************)
(* Proofs about Initializers for every set of programs: whatever the sizes *)
(* and the lists of initial values, elements are initialized as the source *)
(* says, expressions are evaluated once and in order, names are those in   *)
(* scope, code does not stray into another function, and what is not       *)
(* well-formed is stopped.                                                 *)
(*                                                                         *)
(* Most of the invariant is about definitions that have been generated.    *)
(* It is stated with the instructions em and the global variables gs as    *)
(* parameters, and stays true when more of both are added.                 *)
(***************************************************************************)
EXTENDS Initializers, SequenceTheorems, TLAPS

Global == [array : BOOLEAN, elements : Seq(Int)]

-----------------------------------------------------------------------------
(* What is known of the j-th definition *)

\* The int64_t of getInitVals, and where it may come from.
RawSize(d, gs) ==
  IF ~IsArray(d) THEN 1
  ELSE IF d.size.kind = "number" THEN d.size.n ELSE gs[d.size.name].elements[1]
Sized(d, gs) ==
  IsArray(d) => \/ d.size.kind = "number"
                \/ /\ d.size.kind = "name" /\ d.size.name \in DOMAIN gs
                   /\ gs[d.size.name].elements[1] \in Int
CountIn(d, gs) == IF RawSize(d, gs) < 0 THEN 0 ELSE RawSize(d, gs)

\* Initial(j, i, v, em, gs) is IsInitial, and that the name read was defined.
Initial(j, i, v, em, gs) ==
  LET d == program[j]
      e == d.items[i]
  IN  IF i <= Len(d.items)
      THEN /\ e.kind = "number" => v = Const(e.n)
           /\ e.kind # "number" /\ d.scope = FileScope =>
                e.name \in DOMAIN gs /\ v = Const(gs[e.name].elements[1])
           /\ e.kind # "number" /\ d.scope # FileScope =>
                /\ v.kind = "reg" /\ v.n \in 1..Len(em)
                /\ em[v.n].def = j /\ em[v.n].item = i
                /\ em[v.n].op = e.kind /\ em[v.n].name = e.name
      ELSE v = Const(IF i <= Len(d.chars) THEN d.chars[i] ELSE 0)

GlobalMade(j, gs) ==
  LET d == program[j]
  IN  /\ d.name \in DOMAIN gs /\ gs[d.name].array = IsArray(d)
      /\ Len(gs[d.name].elements) = CountIn(d, gs)
      /\ \A i \in 1..CountIn(d, gs) : Initial(j, i, Const(gs[d.name].elements[i]), << >>, gs)

Stored(j, em) == {k \in 1..Len(em) : em[k].op = "store" /\ em[k].def = j}
LocalMade(j, em, gs) ==
  LET d == program[j]
  IN  /\ \A k \in Stored(j, em) : em[k].item \in 1..CountIn(d, gs)
      /\ \A i \in 1..CountIn(d, gs) : \E k \in Stored(j, em) :
           /\ em[k].in = d.scope /\ em[k].name = d.name
           /\ Initial(j, i, em[k].val, em, gs)
           /\ em[k].val.kind = "reg" => em[k].val.n < k
           /\ \A l \in Stored(j, em) : em[l].item = i => l = k

\* What IsWellFormed asks for, the number of elements counted in gs.
WellFormed(j, gs) ==
  LET d == program[j]
  IN  /\ ~DefinedBefore(j, d.scope, d.name)
      /\ IsArray(d) => ConstantAt(j, d.size)
      /\ \A i \in 1..Len(d.items) : i <= CountIn(d, gs) =>
           VisibleAt(j, d.items[i]) /\ (d.scope = FileScope => ConstantAt(j, d.items[i]))
      /\ d.size # NoExp /\ d.size.kind = "number" => d.size.n # 0

Past(j, em, gs) ==
  /\ Sized(program[j], gs)
  /\ WellFormed(j, gs)
  /\ IF program[j].scope = FileScope THEN GlobalMade(j, gs) ELSE LocalMade(j, em, gs)

-----------------------------------------------------------------------------
(* What is known of the instructions *)

Evaluates(i) == i.op # "store"
Before(i, k) == i.def < k.def \/ (i.def = k.def /\ i.item < k.item)

InOrder(em) ==
  \A k, l \in 1..Len(em) : k < l /\ Evaluates(em[k]) /\ Evaluates(em[l]) => Before(em[k], em[l])

\* A name is looked up in the layers of the function, then among the globals.
Resolved(i) ==
  i.op = "name" =>
    IF DefinedBefore(i.def, program[i.def].scope, i.name) THEN i.local
    ELSE ~i.local /\ DefinedBefore(i.def, FileScope, i.name)

AtHome(i) == i.in = program[i.def].scope

EmissionsIn(em, gs) ==
  /\ InOrder(em)
  /\ \A k \in 1..Len(em) :
       /\ em[k].def \in 1..at /\ em[k].def <= Len(program)
       /\ Resolved(em[k])
       /\ em[k].def # at => AtHome(em[k])
       /\ em[k].def # at /\ Evaluates(em[k]) => em[k].item <= CountIn(program[em[k].def], gs)

-----------------------------------------------------------------------------
(* The inductive invariant *)

Typed ==
  /\ TypeOK
  /\ program \in Programs
  /\ globals \in [DOMAIN globals -> Global]
  /\ (within # FileScope => inserting = within)

\* Functions are entered once: the definitions of the one entered, or of the last
\* one left, are not continued later.
Placed ==
  /\ within # FileScope =>
       (at <= Len(program) /\ Def.scope = within) \/ (at > 1 /\ program[at - 1].scope = within)
  /\ within = FileScope /\ 1 < at /\ at <= Len(program) /\ program[at - 1].scope # FileScope =>
       Def.scope # program[at - 1].scope

\* The names in the layers and in the module are those of the definitions before.
Scopes ==
  /\ \A x \in Names : IsGlobal(x) <=> DefinedBefore(at, FileScope, x)
  /\ within # FileScope => \A x \in Names : IsLocal(x) <=> DefinedBefore(at, within, x)
  /\ within = FileScope => locals = {}

\* A value in val_vec: what it is, and whether the source may have it there.
ValueMade(i, v, em, gs) ==
  LET d == program[at]
  IN  /\ i <= Len(d.items) =>
           /\ VisibleAt(at, d.items[i])
           /\ d.scope = FileScope => (IsConstantInt(v) <=> ConstantAt(at, d.items[i]))
      /\ i > Len(d.items) => IsConstantInt(v)
      /\ d.scope # FileScope \/ IsConstantInt(v) => Initial(at, i, v, em, gs)

\* The definition getInitVals is in.
Current ==
  status = "generating" /\ size # NoSize =>
    /\ at <= Len(program) /\ Def.scope = within
    /\ Sized(Def, globals) /\ size = RawSize(Def, globals)
    /\ IsArray(Def) => ConstantAt(at, Def.size)
    /\ \A i \in 1..Len(vals) : ValueMade(i, vals[i], emitted, globals)

\* Its instructions.  At file scope they betray themselves by a value.
Latest ==
  \A k \in 1..Len(emitted) : emitted[k].def = at =>
    /\ status # "done"
    /\ status = "generating" =>
         /\ size # NoSize
         /\ Evaluates(emitted[k]) /\ emitted[k].item <= Len(vals)
         /\ AtHome(emitted[k]) \/ (within = FileScope /\ ~Initializable)

Failed ==
  status \in {"rejected", "crashed"} =>
    /\ at <= Len(program)
    /\ ~WellFormed(at, globals) \/ (IsArray(Def) /\ within = FileScope /\ CountIn(Def, globals) = 0)

IInv ==
  /\ Typed /\ Placed /\ Scopes
  /\ \A j \in 1..(at - 1) : Past(j, emitted, globals)
  /\ EmissionsIn(emitted, globals) /\ Current /\ Latest /\ Failed

-----------------------------------------------------------------------------
(* Types of what a program is made of *)

LEMMA DefinitionTyped ==
  ASSUME TypeOK, NEW j \in 1..Len(program)
  PROVE  LET d == program[j]
         IN  /\ d.scope \in Functions \cup {FileScope} /\ d.name \in Names
             /\ d.size \in Expressions \cup {NoExp}
             /\ IsArray(d) => d.size \in Expressions
             /\ d.items \in Seq(Expressions) /\ d.chars \in Seq(Int)
<1>1. program[j] \in Definitions
  BY ElementOfSeq DEF TypeOK
<1> QED BY <1>1 DEF Definitions, IsArray

LEMMA ExpressionTyped ==
  ASSUME NEW e \in Expressions
  PROVE  e.kind \in {"number", "name", "call"} /\ e.n \in Int /\ e.name \in Names
BY DEF Expressions

LEMMA ItemTyped ==
  ASSUME TypeOK, NEW j \in 1..Len(program), NEW i \in 1..Len(program[j].items)
  PROVE  program[j].items[i] \in Expressions
BY DefinitionTyped, ElementOfSeq

LEMMA CountTyped ==
  ASSUME TypeOK, NEW j \in 1..Len(program), NEW gs, Sized(program[j], gs)
  PROVE  RawSize(program[j], gs) \in Int /\ CountIn(program[j], gs) \in Nat
<1>1. IsArray(program[j]) => program[j].size.n \in Int
  BY DefinitionTyped, ExpressionTyped
<1>2. RawSize(program[j], gs) \in Int
  BY <1>1 DEF RawSize, Sized
<1> QED BY <1>2 DEF CountIn

-----------------------------------------------------------------------------
(* What the invariant says of the properties *)

LEMMA PastDefinition ==
  ASSUME IInv, NEW j \in 1..(at - 1)
  PROVE  /\ j \in 1..Len(program) /\ j < at
         /\ Past(j, emitted, globals) /\ CountIn(program[j], globals) \in Nat
         /\ Count(program[j]) = CountIn(program[j], globals)
<1>1. at \in Nat /\ Len(program) \in Nat /\ at <= Len(program) + 1 /\ TypeOK
  BY LenProperties DEF IInv, Typed, TypeOK
<1>2. j \in 1..Len(program) /\ j < at
  BY <1>1
<1>3. Past(j, emitted, globals)
  BY DEF IInv
<1>4. CountIn(program[j], globals) \in Nat
  BY <1>1, <1>2, <1>3, CountTyped DEF Past
<1>5. Count(program[j]) = CountIn(program[j], globals)
  BY DEF Count, CountIn, RawSize
<1> QED BY <1>2, <1>3, <1>4, <1>5

LEMMA IInvInitialised == IInv => ElementsInitialised
<1> SUFFICES ASSUME IInv, NEW j \in 1..(at - 1)
             PROVE  LET d == program[j]
                    IN  IF d.scope = FileScope
                        THEN /\ Len(globals[d.name].elements) = Count(d)
                             /\ \A i \in 1..Count(d) : IsInitial(j, i, Const(globals[d.name].elements[i]))
                        ELSE /\ \A k \in StoresOf(j) : emitted[k].item \in 1..Count(d)
                             /\ \A i \in 1..Count(d) : \E k \in StoresOf(j) :
                                  /\ emitted[k].in = d.scope /\ emitted[k].name = d.name
                                  /\ IsInitial(j, i, emitted[k].val)
                                  /\ emitted[k].val.kind = "reg" => emitted[k].val.n < k
                                  /\ \A l \in StoresOf(j) : emitted[l].item = i => l = k
  BY DEF ElementsInitialised
<1>1. /\ j \in 1..Len(program) /\ Past(j, emitted, globals)
      /\ Count(program[j]) = CountIn(program[j], globals) /\ CountIn(program[j], globals) \in Nat
  BY PastDefinition
<1>2. program[j].items \in Seq(Expressions) /\ Len(program[j].items) \in Nat
  BY <1>1, DefinitionTyped, LenProperties DEF IInv, Typed
<1>3. ASSUME NEW i \in 1..Count(program[j])
      PROVE  i <= Len(program[j].items) <=> (program[j].items # << >> /\ i <= Len(program[j].items))
  BY <1>1, <1>2, <1>3, EmptySeq
<1>4. CASE program[j].scope = FileScope
  <2>1. GlobalMade(j, globals)
    BY <1>1, <1>4 DEF Past
  <2>2. ASSUME NEW i \in 1..Count(program[j]), NEW v, IsConstantInt(v),
               Initial(j, i, v, << >>, globals)
        PROVE  IsInitial(j, i, v)
    BY <1>3, <1>4, <2>2 DEF Initial, IsInitial
  <2>3. \A n : IsConstantInt(Const(n))
    BY DEF IsConstantInt, Const
  <2> QED BY <1>1, <1>4, <2>1, <2>2, <2>3 DEF GlobalMade
<1>5. CASE program[j].scope # FileScope
  <2>1. LocalMade(j, emitted, globals)
    BY <1>1, <1>5 DEF Past
  <2>2. ASSUME NEW i \in 1..Count(program[j]), NEW v, Initial(j, i, v, emitted, globals)
        PROVE  IsInitial(j, i, v)
    BY <1>3, <1>5, <2>2 DEF Initial, IsInitial
  <2>3. Stored(j, emitted) = StoresOf(j)
    BY DEF Stored, StoresOf
  <2> QED BY <1>1, <1>5, <2>1, <2>2, <2>3 DEF LocalMade
<1> QED BY <1>4, <1>5

LEMMA IInvEvaluated == IInv => EvaluatedOnceInOrder
<1> SUFFICES ASSUME IInv PROVE EvaluatedOnceInOrder
  OBVIOUS
<1>1. ASSUME NEW k \in Evaluations, emitted[k].def < at
      PROVE  emitted[k].item <= Count(program[emitted[k].def])
  <2>1. k \in 1..Len(emitted) /\ Evaluates(emitted[k])
    BY DEF Evaluations, Evaluates
  <2>2. emitted[k].def \in 1..at /\ at \in Nat
    BY <2>1 DEF IInv, EmissionsIn, Typed, TypeOK
  <2>3. emitted[k].def \in 1..(at - 1) /\ emitted[k].def # at
    BY <1>1, <2>2
  <2> QED BY <2>1, <2>3, PastDefinition DEF IInv, EmissionsIn
<1>2. ASSUME NEW k \in Evaluations, NEW l \in Evaluations, k < l
      PROVE  Before(emitted[k], emitted[l])
  BY <1>2 DEF IInv, EmissionsIn, InOrder, Evaluations, Evaluates
<1> QED BY <1>1, <1>2 DEF EvaluatedOnceInOrder, Before

LEMMA IInvResolved == IInv => NamesReadAreInScope
BY DEF IInv, EmissionsIn, Resolved, NamesReadAreInScope, Evaluations

LEMMA IInvAtHome == IInv => FileScopeLeavesNothing
BY DEF IInv, EmissionsIn, AtHome, Latest, FileScopeLeavesNothing

LEMMA IInvWellFormed == IInv => OnlyWellFormedPasses
<1> SUFFICES ASSUME IInv PROVE OnlyWellFormedPasses
  OBVIOUS
<1>1. ASSUME NEW j \in 1..Len(program)
      PROVE  WellFormed(j, globals) <=> IsWellFormed(j)
  BY DEF WellFormed, IsWellFormed, Count, CountIn, RawSize
<1>2. \A j \in 1..(at - 1) : IsWellFormed(j)
  BY <1>1, PastDefinition DEF Past
<1>3. ASSUME status \in {"rejected", "crashed"}
      PROVE  ~IsWellFormed(at) \/ (IsArray(Def) /\ within = FileScope /\ Count(Def) = 0)
  <2>1. at \in 1..Len(program)
    BY <1>3 DEF IInv, Failed, Typed, TypeOK
  <2>2. Count(Def) = CountIn(Def, globals)
    BY DEF Count, CountIn, RawSize
  <2> QED BY <1>1, <1>3, <2>1, <2>2 DEF IInv, Failed, Def
<1> QED BY <1>2, <1>3 DEF OnlyWellFormedPasses

-----------------------------------------------------------------------------
(* More instructions and more global variables *)

\* fm has the instructions of em, then others, of definition a.
Longer(em, fm, a) ==
  /\ em \in Seq(Instructions) /\ fm \in Seq(Instructions) /\ Len(em) <= Len(fm)
  /\ \A k \in 1..Len(em) : fm[k] = em[k]
  /\ \A k \in 1..Len(fm) : k > Len(em) => fm[k].def = a

\* hs has the variables of gs.
More(gs, hs) == DOMAIN gs \subseteq DOMAIN hs /\ \A x \in DOMAIN gs : hs[x] = gs[x]

LEMMA LongerSame == ASSUME NEW em \in Seq(Instructions), NEW a PROVE Longer(em, em, a)
BY LenProperties DEF Longer

LEMMA LongerAppend ==
  ASSUME NEW em \in Seq(Instructions), NEW i \in Instructions
  PROVE  /\ Longer(em, Append(em, i), i.def)
         /\ Append(em, i) \in Seq(Instructions)
         /\ Len(Append(em, i)) = Len(em) + 1 /\ Append(em, i)[Len(em) + 1] = i
         /\ \A k \in 1..Len(em) : Append(em, i)[k] = em[k]
         /\ \A k \in 1..Len(Append(em, i)) : k \in 1..Len(em) \/ k = Len(em) + 1
<1>1. Len(em) \in Nat
  BY LenProperties
<1> QED BY <1>1 DEF Longer

LEMMA LongerConcat ==
  ASSUME NEW em \in Seq(Instructions), NEW st \in Seq(Instructions), NEW a,
         \A k \in 1..Len(st) : st[k].def = a
  PROVE  Longer(em, em \o st, a)
<1>1. Len(em) \in Nat /\ Len(st) \in Nat
  BY LenProperties
<1>2. /\ em \o st \in Seq(Instructions) /\ Len(em \o st) = Len(em) + Len(st)
      /\ \A k \in 1..(Len(em) + Len(st)) :
           (em \o st)[k] = IF k <= Len(em) THEN em[k] ELSE st[k - Len(em)]
  BY ConcatProperties
<1>3. ASSUME NEW k \in 1..Len(em \o st), k > Len(em)
      PROVE  (em \o st)[k].def = a
  <2>1. k - Len(em) \in 1..Len(st)
    BY <1>1, <1>2, <1>3
  <2> QED BY <1>1, <1>2, <1>3, <2>1
<1> QED BY <1>1, <1>2, <1>3 DEF Longer

LEMMA InitialStays ==
  ASSUME NEW j, NEW i, NEW v, NEW em, NEW fm, NEW gs, NEW hs, NEW a,
         Longer(em, fm, a), More(gs, hs), Initial(j, i, v, em, gs)
  PROVE  Initial(j, i, v, fm, hs)
<1>1. Len(em) \in Nat /\ Len(fm) \in Nat /\ Len(em) <= Len(fm)
  BY LenProperties DEF Longer
<1>2. v.n \in 1..Len(em) => v.n \in 1..Len(fm) /\ fm[v.n] = em[v.n]
  BY <1>1 DEF Longer
<1> QED BY <1>2 DEF Initial, More

LEMMA SizeStays ==
  ASSUME NEW d, NEW gs, NEW hs, More(gs, hs), Sized(d, gs)
  PROVE  Sized(d, hs) /\ RawSize(d, hs) = RawSize(d, gs) /\ CountIn(d, hs) = CountIn(d, gs)
BY DEF Sized, RawSize, CountIn, More

\* What is known of a definition stays true.
LEMMA PastStays ==
  ASSUME NEW j, NEW em, NEW fm, NEW gs, NEW hs, NEW a,
         Longer(em, fm, a), j # a, More(gs, hs), Past(j, em, gs)
  PROVE  Past(j, fm, hs)
<1> DEFINE d == program[j]
<1>1. Sized(d, hs) /\ RawSize(d, hs) = RawSize(d, gs) /\ CountIn(d, hs) = CountIn(d, gs)
  BY SizeStays DEF Past
<1>2. WellFormed(j, hs)
  BY <1>1 DEF Past, WellFormed
<1>3. CASE d.scope = FileScope
  <2>1. GlobalMade(j, gs) /\ Longer(<< >>, << >>, a)
    BY <1>3, LongerSame, EmptySeq DEF Past
  <2>2. \A i \in 1..CountIn(d, hs) : Initial(j, i, Const(hs[d.name].elements[i]), << >>, hs)
    BY <1>1, <2>1, InitialStays DEF GlobalMade, More
  <2> QED BY <1>1, <1>2, <1>3, <2>1, <2>2 DEF Past, GlobalMade, More
<1>4. CASE d.scope # FileScope
  <2>1. LocalMade(j, em, gs)
    BY <1>4 DEF Past
  <2>2. Len(em) \in Nat /\ Len(fm) \in Nat /\ Len(em) <= Len(fm)
    BY LenProperties DEF Longer
  <2>3. Stored(j, fm) = Stored(j, em) /\ \A k \in Stored(j, em) : fm[k] = em[k]
    BY <2>2 DEF Longer, Stored
  <2>4. \A i, v : Initial(j, i, v, em, gs) => Initial(j, i, v, fm, hs)
    BY InitialStays
  <2>5. LocalMade(j, fm, hs)
    BY <1>1, <2>1, <2>3, <2>4 DEF LocalMade
  <2> QED BY <1>1, <1>2, <1>4, <2>5 DEF Past
<1> QED BY <1>3, <1>4

LEMMA PastNext ==
  ASSUME NEW j, NEW em, NEW gs, program' = program
  PROVE  Past(j, em, gs)' <=> Past(j, em, gs)
<1>1. Sized(program[j], gs)' <=> Sized(program[j], gs)
  BY DEF Sized, IsArray
<1>2. CountIn(program[j], gs)' = CountIn(program[j], gs)
  BY DEF CountIn, RawSize, IsArray
<1>3. WellFormed(j, gs)' <=> WellFormed(j, gs)
  BY <1>2 DEF WellFormed, DefinedBefore, ConstantAt, VisibleAt, ScalarBefore, IsArray
<1>4. \A i, v, ms : Initial(j, i, v, ms, gs)' <=> Initial(j, i, v, ms, gs)
  BY DEF Initial
<1>5. GlobalMade(j, gs)' <=> GlobalMade(j, gs)
  BY <1>2, <1>4 DEF GlobalMade, IsArray
<1>6. LocalMade(j, em, gs)' <=> LocalMade(j, em, gs)
  BY <1>2, <1>4 DEF LocalMade, Stored
<1> QED BY <1>1, <1>3, <1>5, <1>6 DEF Past

-----------------------------------------------------------------------------
(* Names, values and instructions of one expression *)

LEMMA Basics ==
  ASSUME IInv
  PROVE  /\ TypeOK /\ emitted \in Seq(Instructions) /\ vals \in Seq(Values)
         /\ at \in Nat \ {0} /\ Len(program) \in Nat /\ at <= Len(program) + 1
         /\ Len(emitted) \in Nat /\ Len(vals) \in Nat /\ size \in Int
         /\ at <= Len(program) => at \in 1..Len(program)
BY LenProperties DEF IInv, Typed, TypeOK

LEMMA InstructionTyped ==
  ASSUME IInv, NEW k \in 1..Len(emitted)
  PROVE  /\ emitted[k] \in Instructions /\ emitted[k].item \in Nat
         /\ emitted[k].def \in 1..at /\ emitted[k].def \in 1..Len(program)
<1>1. emitted[k] \in Instructions
  BY Basics, ElementOfSeq
<1>2. emitted[k].def \in 1..at /\ emitted[k].def <= Len(program)
  BY DEF IInv, EmissionsIn
<1> QED BY <1>1, <1>2, Basics DEF Instructions

\* A global variable is that of a definition before, and a scalar has one element.
LEMMA GlobalKnown ==
  ASSUME IInv, NEW x \in Names
  PROVE  /\ ScalarBefore(at, x) <=> IsGlobal(x) /\ ~globals[x].array
         /\ IsGlobal(x) => globals[x].array \in BOOLEAN
         /\ IsGlobal(x) /\ ~globals[x].array => globals[x].elements[1] \in Int
<1>1. ASSUME NEW j \in 1..(at - 1), program[j].scope = FileScope, program[j].name = x
      PROVE  /\ IsGlobal(x) /\ globals[x].array = IsArray(program[j])
             /\ ~IsArray(program[j]) => Len(globals[x].elements) = 1
  <2>1. GlobalMade(j, globals)
    BY <1>1, PastDefinition DEF Past
  <2>2. x \in DOMAIN globals /\ globals[x].array = IsArray(program[j])
    BY <1>1, <2>1, Zenon DEF GlobalMade
  <2>3. Len(globals[x].elements) = CountIn(program[j], globals)
    BY <1>1, <2>1 DEF GlobalMade
  <2>4. ~IsArray(program[j]) => CountIn(program[j], globals) = 1
    BY DEF CountIn, RawSize
  <2> QED BY <2>2, <2>3, <2>4, Zenon DEF IsGlobal
<1>2. IsGlobal(x) <=> DefinedBefore(at, FileScope, x)
  BY DEF IInv, Scopes
<1>3. IsGlobal(x) => globals[x] \in Global
  BY DEF IInv, Typed, IsGlobal
<1>4. ASSUME IsGlobal(x), ~globals[x].array PROVE globals[x].elements[1] \in Int
  <2>1. Len(globals[x].elements) = 1
    BY <1>1, <1>2, <1>4 DEF DefinedBefore
  <2> QED BY <1>3, <1>4, <2>1, ElementOfSeq DEF Global
<1> QED BY <1>1, <1>2, <1>3, <1>4 DEF DefinedBefore, ScalarBefore, Global

\* A name is looked up where block scoping looks it up.
LEMMA NamesKnown ==
  ASSUME IInv, InDefinition, NEW x \in Names
  PROVE  /\ IsLocal(x) <=> within # FileScope /\ DefinedBefore(at, Def.scope, x)
         /\ IsGlobal(x) <=> DefinedBefore(at, FileScope, x)
BY DEF IInv, Scopes, InDefinition, IsLocal

LEMMA Visible ==
  ASSUME IInv, InDefinition, NEW e \in Expressions
  PROVE  ~Unknown(e) <=> VisibleAt(at, e)
<1>1. e.name \in Names
  BY ExpressionTyped
<1>2. Def.scope = within
  BY DEF InDefinition
<1> QED BY <1>1, <1>2, NamesKnown DEF Unknown, VisibleAt, Def

\* What codeGenExp returns for it.
LEMMA ValueKnown ==
  ASSUME IInv, InDefinition, NEW e \in Expressions, ~Unknown(e)
  PROVE  /\ ValueOf(e) \in Values
         /\ e.kind = "number" => ValueOf(e) = Const(e.n)
         /\ e.kind # "number" /\ within # FileScope => ValueOf(e) = Reg(Len(emitted) + 1)
         /\ within = FileScope =>
              /\ IsConstantInt(ValueOf(e)) <=> ConstantAt(at, e)
              /\ IsConstantInt(ValueOf(e)) /\ e.kind # "number" =>
                   /\ e.kind = "name" /\ e.name \in DOMAIN globals /\ ~globals[e.name].array
                   /\ globals[e.name].elements[1] \in Int
                   /\ ValueOf(e) = Const(globals[e.name].elements[1])
         /\ within # FileScope => (IsConstantInt(ValueOf(e)) <=> e.kind = "number")
<1>1. e.kind \in {"number", "name", "call"} /\ e.n \in Int /\ e.name \in Names
  BY ExpressionTyped
<1>2. \A n : IsConstantInt(Const(n)) /\ ~IsConstantInt(Reg(n)) /\ ~IsConstantInt(Aggregate)
  BY DEF IsConstantInt, Const, Reg, Aggregate
<1>3. \A n \in Int : Const(n) \in Values /\ Reg(n) \in Values /\ Aggregate \in Values
  BY DEF Values, Const, Reg, Aggregate
<1>4. Len(emitted) + 1 \in Int /\ Def.scope = within
  BY Basics DEF InDefinition
<1>5. CASE e.kind = "number"
  BY <1>1, <1>2, <1>3, <1>5 DEF ValueOf, ConstantAt
<1>6. CASE e.kind # "number" /\ NeedsInstruction(e)
  <2>1. ValueOf(e) = Reg(Len(emitted) + 1)
    BY <1>6 DEF ValueOf
  <2>2. within = FileScope => ~ConstantAt(at, e)
    BY <1>1, <1>6 DEF NeedsInstruction, ConstantAt
  <2> QED BY <1>2, <1>3, <1>4, <1>6, <2>1, <2>2
<1>7. CASE e.kind # "number" /\ ~NeedsInstruction(e)
  <2>1. e.kind = "name" /\ within = FileScope
    BY <1>1, <1>7 DEF NeedsInstruction
  <2>2. IsGlobal(e.name)
    BY <2>1 DEF Unknown, IsLocal, IInv, Scopes
  <2>3. ConstantAt(at, e) <=> ~globals[e.name].array
    BY <1>1, <1>4, <2>1, <2>2, GlobalKnown DEF ConstantAt, Def
  <2>4. ValueOf(e) = IF globals[e.name].array THEN Aggregate
                     ELSE Const(globals[e.name].elements[1])
    BY <1>7 DEF ValueOf
  <2> QED BY <1>1, <1>2, <1>3, <1>7, <2>1, <2>2, <2>3, <2>4, GlobalKnown DEF IsGlobal
<1> QED BY <1>5, <1>6, <1>7

\* The instruction emitted for it.
LEMMA InstructionKnown ==
  ASSUME IInv, InDefinition, NEW e \in Expressions, ~Unknown(e), NeedsInstruction(e),
         inserting # FileScope, NEW item \in Nat
  PROVE  LET i == Instruction(e.kind, item, e.name, IsLocal(e.name), Const(0))
         IN  /\ i \in Instructions /\ i.def = at /\ i.item = item
             /\ i.op = e.kind /\ i.name = e.name
             /\ Evaluates(i) /\ Resolved(i) /\ (within # FileScope => AtHome(i))
             /\ Generated(e, item) = Append(emitted, i)
<1> DEFINE i == Instruction(e.kind, item, e.name, IsLocal(e.name), Const(0))
<1>1. e.kind \in {"name", "call"} /\ e.name \in Names
  BY ExpressionTyped DEF NeedsInstruction
<1>2. inserting \in Functions /\ (within # FileScope => inserting = within) /\ Def.scope = within
  BY DEF IInv, Typed, TypeOK, InDefinition
<1>3. i.def = at /\ i.item = item /\ i.op = e.kind /\ i.name = e.name /\ i.in = inserting
      /\ i.local = IsLocal(e.name)
  BY DEF Instruction
<1>4. i \in Instructions
  <2>1. Const(0) \in Values /\ IsLocal(e.name) \in BOOLEAN
    BY DEF Const, Values, IsLocal
  <2> QED BY <1>1, <1>2, <2>1, Basics DEF Instruction, Instructions
<1>5. Resolved(i)
  <2>1. CASE e.kind = "call"
    BY <1>3, <2>1 DEF Resolved
  <2>2. CASE e.kind = "name"
    <3>1. within # FileScope
      BY <2>2 DEF NeedsInstruction
    <3>2. IsLocal(e.name) \/ IsGlobal(e.name)
      BY <2>2 DEF Unknown
    <3> QED BY <1>1, <1>2, <1>3, <3>1, <3>2, NamesKnown DEF Resolved, Def
  <2> QED BY <1>1, <2>1, <2>2
<1>6. Evaluates(i)
  BY <1>1, <1>3 DEF Evaluates
<1>7. within # FileScope => AtHome(i)
  BY <1>2, <1>3 DEF AtHome, Def
<1>8. Generated(e, item) = Append(emitted, i)
  BY DEF Generated
<1> QED BY <1>3, <1>4, <1>5, <1>6, <1>7, <1>8

-----------------------------------------------------------------------------
(* Steps within a definition *)

AllPast == \A j \in 1..(at - 1) : Past(j, emitted, globals)

LEMMA PastContinues ==
  ASSUME IInv, program' = program, at' = at, globals' = globals, Longer(emitted, emitted', at)
  PROVE  AllPast'
<1>1. More(globals, globals')
  BY DEF More
<1>2. at \in Nat
  BY Basics
<1>3. ASSUME NEW j \in 1..(at - 1) PROVE Past(j, emitted', globals')
  <2>1. j # at /\ Past(j, emitted, globals)
    BY <1>2 DEF IInv
  <2> QED BY <1>1, <2>1, PastStays
<1> QED BY <1>3, PastNext DEF AllPast

LEMMA EmitsNothing ==
  ASSUME IInv, UNCHANGED <<program, at, globals, emitted>>
  PROVE  AllPast' /\ EmissionsIn(emitted, globals)'
<1>1. AllPast'
  BY Basics, LongerSame, PastContinues
<1>2. EmissionsIn(emitted, globals)'
  BY DEF IInv, EmissionsIn, InOrder, Resolved, DefinedBefore, AtHome
<1> QED BY <1>1, <1>2

\* One more instruction of the definition, behind those it has.
LEMMA EmitsOne ==
  ASSUME IInv, UNCHANGED <<program, at, globals>>, at <= Len(program),
         NEW i \in Instructions, i.def = at, Evaluates(i), Resolved(i),
         emitted' = Append(emitted, i),
         \A k \in 1..Len(emitted) : emitted[k].def = at => emitted[k].item < i.item
  PROVE  AllPast' /\ EmissionsIn(emitted, globals)'
<1>1. emitted \in Seq(Instructions) /\ Len(emitted) \in Nat /\ at \in Nat \ {0}
  BY Basics
<1>2. /\ Longer(emitted, emitted', at) /\ Len(emitted') = Len(emitted) + 1
      /\ emitted'[Len(emitted) + 1] = i
      /\ \A k \in 1..Len(emitted) : emitted'[k] = emitted[k]
      /\ \A k \in 1..Len(emitted') : k \in 1..Len(emitted) \/ k = Len(emitted) + 1
  BY <1>1, LongerAppend
<1>3. AllPast'
  BY <1>2, PastContinues
<1>4. ASSUME NEW k \in 1..Len(emitted)
      PROVE  emitted[k].def \in 1..at /\ emitted[k].item \in Nat
  BY InstructionTyped
<1>5. i.item \in Nat
  BY DEF Instructions
<1>6. InOrder(emitted')
  <2>1. ASSUME NEW k \in 1..Len(emitted), Evaluates(emitted[k]) PROVE Before(emitted[k], i)
    BY <1>1, <1>4 DEF Before
  <2>2. InOrder(emitted)
    BY DEF IInv, EmissionsIn
  <2> QED BY <1>1, <1>2, <2>1, <2>2, SMTT(30) DEF InOrder
<1>7. ASSUME NEW k \in 1..Len(emitted')
      PROVE  /\ emitted'[k].def \in 1..at /\ emitted'[k].def <= Len(program)
             /\ Resolved(emitted'[k])
             /\ emitted'[k].def # at => AtHome(emitted'[k])
             /\ emitted'[k].def # at /\ Evaluates(emitted'[k]) =>
                  emitted'[k].item <= CountIn(program[emitted'[k].def], globals)
  <2>1. CASE k = Len(emitted) + 1
    BY <1>1, <1>2, <2>1
  <2>2. CASE k \in 1..Len(emitted)
    BY <1>2, <2>2 DEF IInv, EmissionsIn
  <2> QED BY <1>2, <2>1, <2>2
<1>8. EmissionsIn(emitted, globals)'
  BY <1>6, <1>7, ZenonT(60) DEF EmissionsIn, InOrder, Resolved, DefinedBefore, AtHome
<1> QED BY <1>3, <1>8

\* EnterFunction and LeaveFunction
LEMMA EnterIInv == ASSUME IInv, EnterFunction PROVE IInv'
<1>1. /\ status = "generating" /\ within = FileScope /\ at <= Len(program) /\ Def.scope # FileScope
      /\ within' = Def.scope /\ inserting' = Def.scope
      /\ UNCHANGED <<program, locals, at, size, vals, emitted, globals, status>>
  BY DEF EnterFunction
<1>2. at \in 1..Len(program) /\ at \in Nat \ {0} /\ Len(program) \in Nat
  BY <1>1, Basics
<1>3. Def.scope \in Functions
  BY <1>1, <1>2, DefinitionTyped DEF IInv, Typed, Def
<1>4. Typed'
  BY <1>1, <1>3 DEF IInv, Typed, TypeOK
<1>5. Placed'
  BY <1>1 DEF Placed, Def
<1>6. size = NoSize
  BY <1>1 DEF IInv, Current
<1>7. ~\E i \in 1..(at - 1) : program[i].scope = Def.scope
  <2> SUFFICES ASSUME NEW i \in 1..(at - 1), program[i].scope = Def.scope PROVE FALSE
    OBVIOUS
  <2>1. i \in 1..Len(program) /\ at - 1 \in i..at /\ 1 < at
    BY <1>2
  <2>2. program[at - 1].scope = Def.scope
    BY <1>1, <1>2, <2>1, ProgramsAssumption DEF IInv, Typed, Def
  <2> QED BY <1>1, <1>2, <2>1, <2>2 DEF IInv, Placed
<1>8. Scopes'
  BY <1>1, <1>7 DEF IInv, Scopes, IsLocal, IsGlobal, DefinedBefore
<1>9. AllPast' /\ EmissionsIn(emitted, globals)'
  BY <1>1, EmitsNothing
<1>10. Current' /\ Latest' /\ Failed'
  BY <1>1, <1>6 DEF IInv, Current, Latest, Failed
<1> QED BY <1>4, <1>5, <1>8, <1>9, <1>10 DEF IInv, AllPast

\* The definitions of the function left are behind it.
LEMMA LeaveIInv == ASSUME IInv, LeaveFunction PROVE IInv'
<1>1. /\ status = "generating" /\ within # FileScope
      /\ at <= Len(program) => Def.scope # within
      /\ within' = FileScope /\ locals' = {}
      /\ UNCHANGED <<program, inserting, at, size, vals, emitted, globals, status>>
  BY DEF LeaveFunction
<1>2. Typed'
  BY <1>1 DEF IInv, Typed, TypeOK
<1>3. Placed'
  BY <1>1 DEF IInv, Placed, Def
<1>4. Scopes'
  BY <1>1 DEF IInv, Scopes, IsGlobal, DefinedBefore
<1>5. size = NoSize
  BY <1>1 DEF IInv, Current
<1>6. AllPast' /\ EmissionsIn(emitted, globals)'
  BY <1>1, EmitsNothing
<1>7. Current' /\ Latest' /\ Failed'
  BY <1>1, <1>5 DEF IInv, Current, Latest, Failed
<1> QED BY <1>2, <1>3, <1>4, <1>6, <1>7 DEF IInv, AllPast

\* What a step within a definition leaves as it is.
LEMMA InDefinitionStays ==
  ASSUME IInv, UNCHANGED <<place, at, globals>>,
         size' \in Int, vals' \in Seq(Values), emitted' \in Seq(Instructions),
         vals' = << >> \/ Len(vals') <= size',
         status' \in {"generating", "done", "rejected", "crashed"}
  PROVE  Typed' /\ Placed' /\ Scopes'
<1>1. UNCHANGED <<program, within, inserting, locals, at, globals>>
  BY DEF place
<1>2. Typed'
  BY <1>1 DEF IInv, Typed, TypeOK
<1>3. Placed'
  BY <1>1 DEF IInv, Placed, Def
<1>4. Scopes'
  BY <1>1 DEF IInv, Scopes, IsLocal, IsGlobal, DefinedBefore
<1> QED BY <1>2, <1>3, <1>4

LEMMA ScalarSizeIInv == ASSUME IInv, ScalarSize PROVE IInv'
<1>1. /\ InDefinition /\ size = NoSize /\ ~IsArray(Def) /\ size' = 1
      /\ UNCHANGED <<place, at, vals, emitted, globals, status>>
      /\ UNCHANGED <<program, within>>
  BY DEF ScalarSize, place
<1>2. vals = << >>
  BY <1>1, Basics, EmptySeq DEF TypeOK, NoSize
<1>3. Typed' /\ Placed' /\ Scopes'
  BY <1>1, <1>2, Basics, InDefinitionStays DEF TypeOK
<1>4. AllPast' /\ EmissionsIn(emitted, globals)'
  BY <1>1, EmitsNothing
<1>5. Current'
  BY <1>1, <1>2, EmptySeq DEF Current, InDefinition, Def, Sized, RawSize
<1>6. Latest' /\ Failed'
  BY <1>1 DEF IInv, Latest, Failed, InDefinition
<1> QED BY <1>3, <1>4, <1>5, <1>6 DEF IInv, AllPast

\* A definition that is not well-formed is stopped at.
LEMMA FailIInv ==
  ASSUME IInv, InDefinition, NEW how \in {"rejected", "crashed"}, Fail(how),
         AllPast', EmissionsIn(emitted, globals)', emitted' \in Seq(Instructions),
         ~WellFormed(at, globals) \/ (IsArray(Def) /\ within = FileScope /\ CountIn(Def, globals) = 0)
  PROVE  IInv'
<1>1. status' = how /\ UNCHANGED <<place, at, size, vals, globals>>
      /\ UNCHANGED <<program, within>>
  BY DEF Fail, place
<1>2. Typed' /\ Placed' /\ Scopes'
  BY <1>1, Basics, InDefinitionStays DEF TypeOK
<1>3. Current' /\ Latest'
  BY <1>1 DEF Current, Latest
<1>4. WellFormed(at, globals)' <=> WellFormed(at, globals)
  BY <1>1 DEF WellFormed, DefinedBefore, ConstantAt, VisibleAt, ScalarBefore
<1>5. Failed'
  BY <1>1, <1>4 DEF Failed, InDefinition, Def
<1> QED BY <1>2, <1>3, <1>5 DEF IInv, AllPast

\* The array size: an instruction for it is the first of the definition.
LEMMA ArraySizeIInv == ASSUME IInv, ArraySize PROVE IInv'
<1> DEFINE e == Def.size
           v == ValueOf(e)
<1>1. /\ InDefinition /\ size = NoSize /\ IsArray(Def) /\ ~Unknown(e)
      /\ status = "generating" /\ at <= Len(program) /\ Def.scope = within
      /\ emitted' = Generated(e, 0) /\ UNCHANGED <<place, at, vals, globals>>
      /\ UNCHANGED <<program, within>>
  BY DEF ArraySize, InDefinition, Fail, place
<1>2. at \in 1..Len(program) /\ e \in Expressions /\ vals = << >>
  BY <1>1, Basics, DefinitionTyped, EmptySeq DEF Def, TypeOK, NoSize
<1>3. \A k \in 1..Len(emitted) : emitted[k].def # at
  BY <1>1 DEF IInv, Latest
<1>4. /\ AllPast' /\ EmissionsIn(emitted, globals)' /\ emitted' \in Seq(Instructions)
      /\ ~NeedsInstruction(e) => emitted' = emitted
  <2>1. CASE NeedsInstruction(e) /\ inserting # FileScope
    <3> DEFINE i == Instruction(e.kind, 0, e.name, IsLocal(e.name), Const(0))
    <3>1. /\ i \in Instructions /\ i.def = at /\ Evaluates(i) /\ Resolved(i)
          /\ emitted' = Append(emitted, i)
      BY <1>1, <1>2, <2>1, InstructionKnown
    <3>2. emitted' \in Seq(Instructions)
      BY <3>1, Basics, LongerAppend
    <3> HIDE DEF i
    <3> QED BY <1>1, <1>3, <2>1, <3>1, <3>2, EmitsOne
  <2>2. CASE ~(NeedsInstruction(e) /\ inserting # FileScope)
    <3>1. emitted' = emitted
      BY <1>1, <2>2 DEF Generated
    <3> QED BY <1>1, <3>1, EmitsNothing, Basics
  <2> QED BY <2>1, <2>2
<1>5. CASE IsConstantInt(v) /\ v.n # 0 /\ size' = v.n /\ UNCHANGED status
  <2>1. ~NeedsInstruction(e)
    <3>1. NeedsInstruction(e) => e.kind # "number"
      BY DEF NeedsInstruction
    <3>2. NeedsInstruction(e) => v = Reg(Len(emitted) + 1)
      BY <3>1 DEF ValueOf
    <3> QED BY <1>5, <3>2 DEF IsConstantInt, Reg
  <2>2. ConstantAt(at, e)
    BY <1>1, <1>2, <1>5, ValueKnown DEF ConstantAt
  <2>3. Sized(Def, globals) /\ v.n = RawSize(Def, globals)
    BY <1>1, <1>2, <1>5, ValueKnown DEF Sized, RawSize, Const
  <2>4. v.n \in Int
    BY <1>1, <1>2, ValueKnown DEF Values
  <2>5. Typed' /\ Placed' /\ Scopes'
    BY <1>1, <1>2, <1>4, <1>5, <2>4, Basics, InDefinitionStays DEF TypeOK
  <2>6. Current'
    <3>1. (Def.scope = within)' /\ Def' = Def /\ vals' = << >> /\ at' = at /\ globals' = globals
      BY <1>1, <1>2 DEF Def
    <3>2. ConstantAt(at, Def.size)'
      BY <1>1, <2>2, <3>1 DEF ConstantAt, ScalarBefore, Def
    <3> QED BY <1>1, <1>5, <2>3, <3>1, <3>2, EmptySeq DEF Current
  <2>7. Latest' /\ Failed'
    BY <1>1, <1>3, <1>4, <1>5, <2>1 DEF Latest, Failed
  <2> QED BY <1>4, <2>5, <2>6, <2>7 DEF IInv, AllPast
<1>6. CASE IsConstantInt(v) /\ v.n = 0 /\ Fail("rejected")
  <2>1. CASE e.kind = "number"
    <3>1. e.n = 0
      BY <1>1, <1>2, <1>6, <2>1, ValueKnown DEF Const
    <3>2. ~WellFormed(at, globals)
      BY <1>1, <2>1, <3>1 DEF WellFormed, Def, IsArray
    <3> QED BY <1>1, <1>4, <1>6, <3>2, FailIInv
  <2>2. CASE e.kind # "number"
    <3>1. within = FileScope /\ v = Const(globals[e.name].elements[1])
      BY <1>1, <1>2, <1>6, <2>2, ValueKnown
    <3>2. CountIn(Def, globals) = 0
      BY <1>1, <1>6, <2>2, <3>1 DEF CountIn, RawSize, Const
    <3> QED BY <1>1, <1>4, <1>6, <3>1, <3>2, FailIInv
  <2> QED BY <2>1, <2>2
<1>7. CASE ~IsConstantInt(v) /\ Fail("crashed")
  <2>1. ~ConstantAt(at, e)
    <3>1. within = FileScope \/ e.kind # "number"
      BY <1>1, <1>2, <1>7, ValueKnown
    <3>2. within # FileScope /\ e.kind # "number" => ~ConstantAt(at, e)
      BY <1>1 DEF ConstantAt, Def
    <3>3. within = FileScope => ~ConstantAt(at, e)
      BY <1>1, <1>2, <1>7, ValueKnown
    <3> QED BY <3>1, <3>2, <3>3
  <2>2. ~WellFormed(at, globals)
    BY <1>1, <2>1 DEF WellFormed, Def
  <2> QED BY <1>1, <1>4, <1>7, <2>2, FailIInv
<1> QED BY <1>5, <1>6, <1>7 DEF ArraySize

LEMMA ValueStays ==
  ASSUME NEW i, NEW v, NEW em, NEW fm, NEW gs, NEW a, Longer(em, fm, a), ValueMade(i, v, em, gs)
  PROVE  ValueMade(i, v, fm, gs)
<1>1. More(gs, gs)
  BY DEF More
<1>2. Initial(at, i, v, em, gs) => Initial(at, i, v, fm, gs)
  BY <1>1, InitialStays
<1> QED BY <1>2 DEF ValueMade

LEMMA ValueNext ==
  ASSUME NEW i, NEW v, NEW em, NEW gs, UNCHANGED <<program, at>>
  PROVE  ValueMade(i, v, em, gs)' <=> ValueMade(i, v, em, gs)
BY DEF ValueMade, Initial, DefinedBefore, ConstantAt, VisibleAt, ScalarBefore

\* One more value, made by at most one more instruction.
LEMMA AddIInv ==
  ASSUME IInv, MoreElements, NEW v \in Values, AddElement(v),
         AllPast', EmissionsIn(emitted, globals)', Longer(emitted, emitted', at),
         ValueMade(Len(vals) + 1, v, emitted', globals),
         \A k \in 1..Len(emitted') : k > Len(emitted) =>
           /\ Evaluates(emitted'[k]) /\ emitted'[k].item <= Len(vals) + 1
           /\ AtHome(emitted'[k]) \/ (within = FileScope /\ ~IsConstantInt(v))
  PROVE  IInv'
<1>1. /\ InDefinition /\ status = "generating" /\ size # NoSize /\ Len(vals) < size
      /\ at <= Len(program) /\ Def.scope = within
      /\ vals' = Append(vals, v) /\ UNCHANGED <<place, at, size, globals, status>>
      /\ UNCHANGED <<program, within>>
  BY DEF MoreElements, InDefinition, AddElement, place
<1>2. /\ vals' \in Seq(Values) /\ Len(vals') = Len(vals) + 1
      /\ vals'[Len(vals) + 1] = v /\ \A i \in 1..Len(vals) : vals'[i] = vals[i]
      /\ \A i \in 1..Len(vals') : i \in 1..Len(vals) \/ i = Len(vals) + 1
  BY <1>1, Basics
<1>3. emitted' \in Seq(Instructions) /\ Len(emitted) \in Nat
  BY Basics DEF Longer
<1>4. Typed' /\ Placed' /\ Scopes'
  BY <1>1, <1>2, <1>3, Basics, InDefinitionStays DEF IInv, Typed, TypeOK
<1>5. ASSUME NEW i \in 1..Len(vals') PROVE ValueMade(i, vals'[i], emitted', globals)
  BY <1>1, <1>2, ValueStays DEF IInv, Current
<1>6. Current'
  <2>1. (\A i \in 1..Len(vals) : ValueMade(i, vals[i], emitted, globals))'
    BY <1>1, <1>5, ValueNext
  <2>2. ConstantAt(at, Def.size)' <=> ConstantAt(at, Def.size)
    BY <1>1 DEF ConstantAt, ScalarBefore, Def
  <2> QED BY <1>1, <2>1, <2>2 DEF IInv, Current, Def
<1>7. Latest'
  <2>1. ~Initializable => ~Initializable'
    BY <1>2, Basics DEF Initializable
  <2>2. ~IsConstantInt(v) => ~Initializable'
    BY <1>2, Basics DEF Initializable
  <2>3. ASSUME NEW k \in 1..Len(emitted'), emitted'[k].def = at
        PROVE  /\ Evaluates(emitted'[k]) /\ emitted'[k].item <= Len(vals')
               /\ AtHome(emitted'[k]) \/ (within = FileScope /\ ~Initializable')
    <3>1. CASE k > Len(emitted)
      BY <1>2, <2>2, <3>1
    <3>2. CASE k \in 1..Len(emitted)
      <4>1. emitted'[k] = emitted[k]
        BY <3>2 DEF Longer
      <4>2. emitted[k].item \in Nat
        BY <3>2, InstructionTyped
      <4> QED BY <1>1, <1>2, <2>1, <2>3, <3>2, <4>1, <4>2, Basics DEF IInv, Latest
    <3> QED BY <1>3, <3>1, <3>2
  <2> QED BY <1>1, <2>3 DEF Latest, AtHome
<1>8. Failed'
  BY <1>1 DEF Failed
<1> QED BY <1>4, <1>6, <1>7, <1>8 DEF IInv, AllPast

LEMMA AddConstantIInv ==
  ASSUME IInv, MoreElements, NEW n \in Int, AddElement(Const(n)), UNCHANGED emitted,
         Len(Def.items) < Len(vals) + 1,
         n = IF Len(vals) + 1 <= Len(Def.chars) THEN Def.chars[Len(vals) + 1] ELSE 0
  PROVE  IInv'
<1>1. UNCHANGED <<program, at, globals>> /\ at \in 1..Len(program)
  BY Basics DEF AddElement, place, MoreElements, InDefinition
<1>2. AllPast' /\ EmissionsIn(emitted, globals)' /\ Longer(emitted, emitted', at)
  BY <1>1, EmitsNothing, Basics, LongerSame
<1>3. Const(n) \in Values /\ IsConstantInt(Const(n))
  BY DEF Const, Values, IsConstantInt
<1>4. Len(Def.items) \in Nat
  BY <1>1, Basics, DefinitionTyped, LenProperties DEF Def
<1>5. ValueMade(Len(vals) + 1, Const(n), emitted', globals)
  BY <1>3, <1>4, Basics DEF ValueMade, Initial, Def
<1>6. \A k \in 1..Len(emitted') : ~(k > Len(emitted))
  BY Basics
<1> QED BY <1>2, <1>3, <1>5, <1>6, AddIInv

LEMMA AddZeroIInv == ASSUME IInv, AddZero PROVE IInv'
<1>1. MoreElements /\ Len(vals) >= ExpSize(Def) /\ AddElement(Const(0)) /\ UNCHANGED emitted
  BY DEF AddZero
<1>2. at \in 1..Len(program)
  BY <1>1, Basics DEF MoreElements, InDefinition
<1>3. Len(Def.items) \in Nat /\ Len(Def.chars) \in Nat
  BY <1>2, Basics, DefinitionTyped, LenProperties DEF Def
<1>4. Len(Def.items) < Len(vals) + 1 /\ ~(Len(vals) + 1 <= Len(Def.chars))
  BY <1>1, <1>3, Basics DEF ExpSize
<1> QED BY <1>1, <1>4, AddConstantIInv

LEMMA AddCharIInv == ASSUME IInv, AddChar PROVE IInv'
<1>1. /\ MoreElements /\ Len(vals) < ExpSize(Def) /\ Def.items = << >>
      /\ AddElement(Const(Def.chars[Len(vals) + 1])) /\ UNCHANGED emitted
  BY DEF AddChar
<1>2. at \in 1..Len(program)
  BY <1>1, Basics DEF MoreElements, InDefinition
<1>3. Def.chars \in Seq(Int) /\ Len(Def.items) = 0 /\ Len(Def.chars) \in Nat
  BY <1>1, <1>2, Basics, DefinitionTyped, LenProperties, EmptySeq DEF Def
<1>4. Len(vals) + 1 \in 1..Len(Def.chars)
  BY <1>1, <1>3, Basics DEF ExpSize
<1>5. Def.chars[Len(vals) + 1] \in Int
  BY <1>3, <1>4, ElementOfSeq
<1> QED BY <1>1, <1>3, <1>4, <1>5, Basics, AddConstantIInv

LEMMA AddExpressionIInv == ASSUME IInv, AddExpression PROVE IInv'
<1> DEFINE e == NextItem
           v == ValueOf(e)
           n == Len(vals) + 1
<1>1. /\ MoreElements /\ n <= Len(Def.items) /\ ~Unknown(e) /\ AddElement(v)
      /\ emitted' = Generated(e, n)
      /\ InDefinition /\ status = "generating" /\ at \in 1..Len(program) /\ Def.scope = within
      /\ UNCHANGED <<program, at, globals>>
  <2>1. InDefinition /\ MoreElements /\ Len(vals) < Len(Def.items)
    BY DEF AddExpression, MoreElements
  <2>2. at \in 1..Len(program)
    BY <2>1, Basics DEF InDefinition
  <2>3. Len(Def.items) \in Nat
    BY <2>2, Basics, DefinitionTyped, LenProperties DEF Def
  <2> QED BY <2>1, <2>2, <2>3, Basics DEF AddExpression, InDefinition, AddElement, place
<1>2. n \in Nat /\ e \in Expressions /\ e = program[at].items[n] /\ v \in Values
  <2>1. n \in 1..Len(program[at].items)
    BY <1>1, Basics DEF Def
  <2>2. e \in Expressions
    BY <1>1, <2>1, Basics, ItemTyped DEF NextItem, Def
  <2> QED BY <1>1, <2>1, <2>2, ValueKnown DEF NextItem, Def
<1>3. \A k \in 1..Len(emitted) : emitted[k].def = at => emitted[k].item < n
  BY <1>1, InstructionTyped, Basics DEF IInv, Latest
<1>4. VisibleAt(at, e) /\ (within = FileScope => (IsConstantInt(v) <=> ConstantAt(at, e)))
  BY <1>1, <1>2, Visible, ValueKnown
<1>5. CASE NeedsInstruction(e) /\ inserting # FileScope
  <2> DEFINE i == Instruction(e.kind, n, e.name, IsLocal(e.name), Const(0))
  <2>1. /\ i \in Instructions /\ i.def = at /\ i.item = n /\ i.op = e.kind /\ i.name = e.name
        /\ Evaluates(i) /\ Resolved(i) /\ (within # FileScope => AtHome(i))
        /\ emitted' = Append(emitted, i)
    BY <1>1, <1>2, <1>5, InstructionKnown
  <2> HIDE DEF i
  <2>2. /\ Longer(emitted, emitted', at) /\ Len(emitted') = Len(emitted) + 1
        /\ emitted'[Len(emitted) + 1] = i
    BY <2>1, Basics, LongerAppend
  <2>3. AllPast' /\ EmissionsIn(emitted, globals)'
    BY <1>1, <1>3, <2>1, EmitsOne
  <2>4. within = FileScope => ~IsConstantInt(v)
    BY <1>4, <1>5, ExpressionTyped DEF NeedsInstruction, ConstantAt
  <2>5. ASSUME within # FileScope \/ IsConstantInt(v) PROVE Initial(at, n, v, emitted', globals)
    <3>1. within # FileScope /\ e.kind # "number"
      BY <1>5, <2>4, <2>5 DEF NeedsInstruction
    <3>2. v = Reg(Len(emitted) + 1)
      BY <1>1, <1>2, <3>1, ValueKnown
    <3>3. v.kind = "reg" /\ v.n = Len(emitted) + 1
      BY <3>2 DEF Reg
    <3> QED BY <1>1, <1>2, <2>1, <2>2, <3>1, <3>3, Basics DEF Initial, Def
  <2>6. ValueMade(n, v, emitted', globals)
    BY <1>1, <1>2, <1>4, <2>5 DEF ValueMade, Def
  <2>7. ASSUME NEW k \in 1..Len(emitted'), k > Len(emitted) PROVE emitted'[k] = i
    BY <2>2, <2>7, Basics
  <2> QED BY <1>1, <1>2, <2>1, <2>2, <2>3, <2>4, <2>6, <2>7, AddIInv
<1>6. CASE ~(NeedsInstruction(e) /\ inserting # FileScope)
  <2>1. emitted' = emitted
    BY <1>1, <1>6 DEF Generated
  <2>2. AllPast' /\ EmissionsIn(emitted, globals)' /\ Longer(emitted, emitted', at)
    BY <1>1, <2>1, EmitsNothing, LongerSame, Basics
  <2>3. within # FileScope => e.kind = "number"
    BY <1>2, <1>6, ExpressionTyped DEF NeedsInstruction, IInv, Typed
  <2>4. within # FileScope \/ IsConstantInt(v) => Initial(at, n, v, emitted', globals)
    <3>1. e.kind = "number" => v = Const(e.n)
      BY <1>1, <1>2, ValueKnown
    <3>2. CASE e.kind = "number"
      BY <1>1, <1>2, <3>1, <3>2 DEF Initial, Def
    <3>3. CASE e.kind # "number" /\ within = FileScope /\ IsConstantInt(v)
      <4>1. e.name \in DOMAIN globals /\ v = Const(globals[e.name].elements[1])
        BY <1>1, <1>2, <3>3, ValueKnown
      <4> QED BY <1>1, <1>2, <3>3, <4>1 DEF Initial, Def
    <3> QED BY <2>3, <3>2, <3>3
  <2>5. ValueMade(n, v, emitted', globals)
    BY <1>1, <1>2, <1>4, <2>4 DEF ValueMade, Def
  <2>6. \A k \in 1..Len(emitted') : ~(k > Len(emitted))
    BY <2>1, Basics
  <2> QED BY <1>1, <1>2, <2>2, <2>5, <2>6, AddIInv
<1> QED BY <1>5, <1>6

\* How many values there are, and what they say of the source.
LEMMA CountKnown ==
  ASSUME IInv, InDefinition, size # NoSize
  PROVE  /\ size \in Int /\ CountIn(Def, globals) = IF size < 0 THEN 0 ELSE size
         /\ Len(vals) <= CountIn(Def, globals)
         /\ Len(vals) >= size => Len(vals) = CountIn(Def, globals)
<1>1. size = RawSize(Def, globals)
  BY DEF IInv, Current, InDefinition
<1>2. Len(vals) = 0 \/ Len(vals) <= size
  BY Basics, EmptySeq DEF TypeOK
<1> QED BY <1>1, <1>2, Basics DEF CountIn

LEMMA UndefinedNameIInv == ASSUME IInv, UndefinedName PROVE IInv'
<1>1. Fail("rejected") /\ UNCHANGED emitted
  BY DEF UndefinedName
<1>2. AllPast' /\ EmissionsIn(emitted, globals)' /\ emitted' \in Seq(Instructions)
  BY <1>1, EmitsNothing, Basics DEF Fail, place
<1>3. CASE InDefinition /\ IsArray(Def) /\ Unknown(Def.size)
  <2>1. Def.scope = within /\ at \in 1..Len(program)
    BY <1>3, Basics DEF InDefinition
  <2>2. Def.size.kind = "name" /\ Def.size.name \in Names /\ ~IsGlobal(Def.size.name)
    BY <1>3, <2>1, Basics, DefinitionTyped, ExpressionTyped DEF Unknown, Def
  <2>3. ~ConstantAt(at, Def.size)
    BY <2>2, GlobalKnown DEF ConstantAt
  <2>4. ~WellFormed(at, globals)
    BY <1>3, <2>3 DEF WellFormed, Def
  <2> QED BY <1>1, <1>2, <1>3, <2>4, FailIInv
<1>4. CASE MoreElements /\ Len(vals) < Len(Def.items) /\ Unknown(NextItem)
  <2> DEFINE n == Len(vals) + 1
  <2>1. InDefinition /\ size # NoSize /\ Len(vals) < size /\ at \in 1..Len(program)
    BY <1>4, Basics DEF MoreElements, InDefinition
  <2>2. Len(Def.items) \in Nat
    BY <2>1, Basics, DefinitionTyped, LenProperties DEF Def
  <2>3. n \in 1..Len(program[at].items) /\ n <= CountIn(program[at], globals)
    BY <1>4, <2>1, <2>2, Basics, CountKnown DEF Def
  <2>4. program[at].items[n] \in Expressions /\ NextItem = program[at].items[n]
    BY <2>1, <2>3, Basics, ItemTyped DEF NextItem, Def
  <2>5. ~VisibleAt(at, program[at].items[n])
    BY <1>4, <2>1, <2>4, Visible
  <2>6. ~WellFormed(at, globals)
    BY <2>3, <2>5 DEF WellFormed
  <2> QED BY <1>1, <1>2, <2>1, <2>6, FailIInv
<1> QED BY <1>3, <1>4 DEF UndefinedName

LEMMA RedefinedIInv == ASSUME IInv, Redefined PROVE IInv'
<1>1. Fail("rejected") /\ UNCHANGED emitted /\ Taken /\ InDefinition /\ Def.scope = within
  BY DEF Redefined, Complete, InDefinition
<1>2. AllPast' /\ EmissionsIn(emitted, globals)' /\ emitted' \in Seq(Instructions)
  BY <1>1, EmitsNothing, Basics DEF Fail, place
<1>3. Def.name \in Names
  BY <1>1, Basics, DefinitionTyped DEF InDefinition, Def
<1>4. ~WellFormed(at, globals)
  BY <1>1, <1>3, NamesKnown DEF Taken, WellFormed, Def
<1> QED BY <1>1, <1>2, <1>4, FailIInv

LEMMA DefineGlobalCrashesIInv == ASSUME IInv, DefineGlobalCrashes PROVE IInv'
<1>1. /\ Fail("crashed") /\ UNCHANGED emitted
      /\ InDefinition /\ Def.scope = within /\ within = FileScope /\ size # NoSize
      /\ status = "generating" /\ at \in 1..Len(program)
      /\ ~Initializable \/ size < 0
  BY Basics DEF DefineGlobalCrashes, Complete, InDefinition
<1>2. AllPast' /\ EmissionsIn(emitted, globals)' /\ emitted' \in Seq(Instructions)
  BY <1>1, EmitsNothing, Basics DEF Fail, place
<1>3. CASE ~Initializable
  <2>1. PICK i \in 1..Len(vals) : ~IsConstantInt(vals[i])
    BY <1>3 DEF Initializable
  <2>2. ValueMade(i, vals[i], emitted, globals)
    BY <1>1, <2>1 DEF IInv, Current
  <2>3. i \in 1..Len(program[at].items) /\ ~ConstantAt(at, program[at].items[i])
    <3>1. Len(program[at].items) \in Nat
      BY <1>1, Basics, DefinitionTyped, LenProperties
    <3> QED BY <1>1, <2>1, <2>2, <3>1 DEF ValueMade, Def
  <2>4. i <= CountIn(program[at], globals)
    BY <1>1, CountKnown, Basics DEF Def
  <2>5. ~WellFormed(at, globals)
    BY <1>1, <2>3, <2>4 DEF WellFormed, Def
  <2> QED BY <1>1, <1>2, <2>5, FailIInv
<1>4. CASE size < 0
  <2>1. IsArray(Def) /\ CountIn(Def, globals) = 0
    BY <1>1, <1>4, CountKnown, Basics DEF IInv, Current, RawSize
  <2> QED BY <1>1, <1>2, <2>1, FailIInv
<1> QED BY <1>1, <1>3, <1>4

-----------------------------------------------------------------------------
(* Steps to the next definition *)

\* A definition that is complete and not a redefinition is well-formed.
LEMMA CompleteKnown ==
  ASSUME IInv, Complete
  PROVE  /\ InDefinition /\ status = "generating" /\ at \in 1..Len(program)
         /\ program[at].scope = within /\ size # NoSize
         /\ Sized(program[at], globals) /\ Len(vals) = CountIn(program[at], globals)
         /\ \A i \in 1..Len(vals) : ValueMade(i, vals[i], emitted, globals)
         /\ ~Taken /\ (within = FileScope => Initializable) => WellFormed(at, globals)
<1>1. /\ InDefinition /\ status = "generating" /\ at \in 1..Len(program)
      /\ program[at].scope = within /\ size # NoSize /\ Len(vals) >= size
  BY Basics DEF Complete, InDefinition, Def
<1>2. Sized(program[at], globals) /\ Len(vals) = CountIn(program[at], globals)
  BY <1>1, CountKnown DEF IInv, Current, Def
<1>3. \A i \in 1..Len(vals) : ValueMade(i, vals[i], emitted, globals)
  BY <1>1 DEF IInv, Current
<1>4. ASSUME ~Taken, within = FileScope => Initializable PROVE WellFormed(at, globals)
  <2>1. program[at].name \in Names
    BY <1>1, Basics, DefinitionTyped
  <2>2. ~DefinedBefore(at, program[at].scope, program[at].name)
    BY <1>1, <1>4, <2>1, NamesKnown DEF Taken, Def
  <2>3. IsArray(program[at]) => ConstantAt(at, program[at].size)
    BY <1>1 DEF IInv, Current, Def
  <2>4. ASSUME NEW i \in 1..Len(program[at].items), i <= CountIn(program[at], globals)
        PROVE  /\ VisibleAt(at, program[at].items[i])
               /\ program[at].scope = FileScope => ConstantAt(at, program[at].items[i])
    <3>1. i \in 1..Len(vals) /\ i <= Len(program[at].items)
      BY <1>1, <1>2, <2>4, Basics, DefinitionTyped, LenProperties
    <3>2. ValueMade(i, vals[i], emitted, globals)
      BY <1>3, <3>1
    <3> QED BY <1>1, <1>4, <3>1, <3>2 DEF ValueMade, Initializable
  <2>5. program[at].size.kind = "number" /\ IsArray(program[at]) => program[at].size.n # 0
    BY <1>1 DEF IInv, Current, RawSize, Def, NoSize
  <2> QED BY <2>2, <2>3, <2>4, <2>5 DEF WellFormed, IsArray
<1> QED BY <1>1, <1>2, <1>3, <1>4

\* The definition is done when its stores or its initializer are there.
LEMMA NextIInv ==
  ASSUME IInv, Complete, NextDefinition, UNCHANGED <<program, within, inserting>>,
         ~Taken, within = FileScope => Initializable,
         locals' \subseteq Names, Scopes',
         globals' \in [DOMAIN globals' -> Global], DOMAIN globals' \subseteq Names,
         More(globals, globals'), Longer(emitted, emitted', at),
         \A k \in 1..Len(emitted') : k > Len(emitted) => ~Evaluates(emitted'[k]) /\ AtHome(emitted'[k]),
         IF within = FileScope THEN GlobalMade(at, globals') ELSE LocalMade(at, emitted', globals')
  PROVE  IInv'
<1>1. /\ InDefinition /\ status = "generating" /\ at \in 1..Len(program)
      /\ program[at].scope = within /\ size # NoSize
      /\ Sized(program[at], globals) /\ Len(vals) = CountIn(program[at], globals)
      /\ WellFormed(at, globals)
  BY CompleteKnown
<1>2. /\ at' = at + 1 /\ size' = NoSize /\ vals' = << >> /\ status' = status
      /\ program' = program /\ within' = within /\ inserting' = inserting
  BY DEF NextDefinition
<1>3. emitted' \in Seq(Instructions) /\ Len(emitted) \in Nat /\ Len(emitted') \in Nat
  BY Basics, LenProperties DEF Longer
<1>4. Typed'
  <2>1. \A x \in DOMAIN globals' : globals'[x].array \in BOOLEAN /\ globals'[x].elements \in Seq(Int)
    BY DEF Global
  <2>2. << >> \in Seq(Values) /\ NoSize \in Int /\ at + 1 \in 1..(Len(program) + 1)
    BY <1>1, Basics, EmptySeq DEF NoSize
  <2>3. TypeOK'
    BY <1>2, <1>3, <2>1, <2>2, Basics DEF TypeOK
  <2> QED BY <1>2, <2>3 DEF IInv, Typed
<1>5. Placed'
  <2>1. at' > 1 /\ at' - 1 = at
    BY <1>1, <1>2, Basics
  <2> QED BY <1>1, <1>2, <2>1 DEF Placed
<1>6. \A j \in 1..at : Sized(program[j], globals) /\ Past(j, emitted', globals')
  <2>1. ASSUME NEW j \in 1..(at - 1) PROVE Sized(program[j], globals) /\ Past(j, emitted', globals')
    <3>1. j # at /\ Past(j, emitted, globals)
      BY Basics DEF IInv
    <3> QED BY <3>1, PastStays DEF Past
  <2>2. Past(at, emitted', globals')
    <3>1. Sized(program[at], globals') /\ CountIn(program[at], globals') = CountIn(program[at], globals)
      BY <1>1, SizeStays
    <3>2. WellFormed(at, globals')
      BY <1>1, <3>1 DEF WellFormed
    <3> QED BY <1>1, <3>1, <3>2 DEF Past
  <2>3. at \in Nat \ {0} /\ Sized(program[at], globals)
    BY <1>1, Basics
  <2>4. \A j \in 1..at : j = at \/ j \in 1..(at - 1)
    BY <2>3
  <2> QED BY <2>1, <2>2, <2>3, <2>4
<1>7. AllPast'
  <2>1. at' - 1 = at
    BY <1>2, Basics
  <2> QED BY <1>2, <1>6, <2>1, PastNext DEF AllPast
<1>8. ASSUME NEW k \in 1..Len(emitted')
      PROVE  /\ emitted'[k].def \in 1..at /\ emitted'[k].def <= Len(program)
             /\ Resolved(emitted'[k]) /\ AtHome(emitted'[k])
             /\ Evaluates(emitted'[k]) =>
                  emitted'[k].item <= CountIn(program[emitted'[k].def], globals')
  <2>1. CASE k > Len(emitted)
    <3>1. emitted'[k].def = at /\ ~Evaluates(emitted'[k]) /\ AtHome(emitted'[k])
      BY <2>1 DEF Longer
    <3> QED BY <1>1, <3>1, Basics DEF Evaluates, Resolved
  <2>2. CASE k \in 1..Len(emitted)
    <3>1. emitted'[k] = emitted[k]
      BY <2>2 DEF Longer
    <3>2. emitted[k].def \in 1..at /\ emitted[k].def \in 1..Len(program) /\ Resolved(emitted[k])
      BY <2>2, InstructionTyped DEF IInv, EmissionsIn
    <3>3. AtHome(emitted[k])
      BY <1>1, <2>2 DEF IInv, EmissionsIn, Latest
    <3>4. Evaluates(emitted[k]) => emitted[k].item <= CountIn(program[emitted[k].def], globals)
      BY <1>1, <2>2 DEF IInv, EmissionsIn, Latest
    <3>5. CountIn(program[emitted[k].def], globals') = CountIn(program[emitted[k].def], globals)
      BY <1>6, <3>2, SizeStays
    <3> QED BY <3>1, <3>2, <3>3, <3>4, <3>5, Basics
  <2> QED BY <1>3, <2>1, <2>2
<1>9. InOrder(emitted')
  <2>1. ASSUME NEW k \in 1..Len(emitted'), Evaluates(emitted'[k])
        PROVE  k \in 1..Len(emitted) /\ emitted'[k] = emitted[k]
    BY <1>3, <2>1 DEF Longer
  <2>2. InOrder(emitted)
    BY DEF IInv, EmissionsIn
  <2> QED BY <2>1, <2>2 DEF InOrder
<1>10. EmissionsIn(emitted, globals)'
  <2>1. \A k \in 1..Len(emitted') : emitted'[k].def \in 1..at'
    BY <1>2, <1>8, Basics
  <2> QED BY <1>2, <1>8, <1>9, <2>1 DEF EmissionsIn, InOrder, Resolved, DefinedBefore, AtHome
<1>11. Current' /\ Latest' /\ Failed'
  <2>1. \A k \in 1..Len(emitted') : emitted'[k].def # at'
    BY <1>2, <1>8, Basics
  <2> QED BY <1>1, <1>2, <2>1 DEF Current, Latest, Failed
<1> QED BY <1>4, <1>5, <1>7, <1>10, <1>11 DEF IInv, AllPast

\* What DefinedBefore says one definition later.
LEMMA DefinedNext ==
  ASSUME IInv, NEW s, NEW x, at' = at + 1, program' = program
  PROVE  DefinedBefore(at, s, x)' <=>
           DefinedBefore(at, s, x) \/ (program[at].scope = s /\ program[at].name = x)
<1>1. at \in Nat \ {0} /\ at' - 1 = at
  BY Basics
<1>2. \A i : i \in 1..at <=> i \in 1..(at - 1) \/ i = at
  BY <1>1
<1> QED BY <1>1, <1>2 DEF DefinedBefore

LEMMA DefineLocalIInv == ASSUME IInv, DefineLocal PROVE IInv'
<1>1. /\ Complete /\ within # FileScope /\ ~IsLocal(Def.name) /\ NextDefinition
      /\ locals' = locals \cup {Def.name} /\ emitted' = emitted \o Stores
      /\ UNCHANGED <<program, within, inserting, globals>> /\ at' = at + 1
  BY DEF DefineLocal, NextDefinition
<1>2. /\ InDefinition /\ status = "generating" /\ at \in 1..Len(program)
      /\ program[at].scope = within /\ Len(vals) = CountIn(program[at], globals)
      /\ \A i \in 1..Len(vals) : ValueMade(i, vals[i], emitted, globals)
  BY <1>1, CompleteKnown
<1>3. program[at].name \in Names /\ Def.name = program[at].name
  BY <1>2, Basics, DefinitionTyped DEF Def
<1>4. inserting = within /\ within \in Functions
  BY <1>1, Basics DEF IInv, Typed, TypeOK
<1> DEFINE S == Stores
<1>5. /\ Len(S) = Len(vals)
      /\ \A i \in 1..Len(vals) :
           /\ S[i].op = "store" /\ S[i].def = at /\ S[i].item = i /\ S[i].in = within
           /\ S[i].name = program[at].name /\ S[i].val = vals[i]
  BY <1>3, <1>4, Basics DEF Stores, Instruction
<1>6. S \in Seq(Instructions)
  <2>1. ASSUME NEW i \in 1..Len(vals)
        PROVE  Instruction("store", i, Def.name, TRUE, vals[i]) \in Instructions
    <3>1. vals[i] \in Values /\ i \in Nat
      BY Basics, ElementOfSeq
    <3> QED BY <1>3, <1>4, <3>1, Basics DEF Instruction, Instructions
  <2>2. S \in [1..Len(vals) -> Instructions]
    BY <2>1 DEF Stores
  <2> HIDE DEF S
  <2> QED BY <2>2, Basics
<1> HIDE DEF S
<1>7. emitted' = emitted \o S /\ Len(emitted) \in Nat /\ Len(vals) \in Nat
  BY <1>1, Basics DEF S
<1>8. /\ Len(emitted') = Len(emitted) + Len(vals)
      /\ \A k \in 1..Len(emitted) : emitted'[k] = emitted[k]
      /\ \A k \in 1..Len(emitted') : k > Len(emitted) =>
           k - Len(emitted) \in 1..Len(vals) /\ emitted'[k] = S[k - Len(emitted)]
      /\ \A i \in 1..Len(vals) :
           Len(emitted) + i \in 1..Len(emitted') /\ emitted'[Len(emitted) + i] = S[i]
  <2>1. emitted \in Seq(Instructions)
    BY Basics
  <2>2. /\ Len(emitted \o S) = Len(emitted) + Len(S)
        /\ \A k \in 1..(Len(emitted) + Len(S)) :
             (emitted \o S)[k] = IF k <= Len(emitted) THEN emitted[k] ELSE S[k - Len(emitted)]
    BY <1>6, <2>1, ConcatProperties
  <2>3. Len(S) = Len(vals)
    BY <1>5
  <2>4. /\ Len(emitted') = Len(emitted) + Len(vals)
        /\ \A k \in 1..(Len(emitted) + Len(vals)) :
             emitted'[k] = IF k <= Len(emitted) THEN emitted[k] ELSE S[k - Len(emitted)]
    BY <1>7, <2>2, <2>3
  <2> QED BY <1>7, <2>4
<1>9. Longer(emitted, emitted', at)
  BY <1>5, <1>6, <1>7, Basics, LongerConcat
<1>10. ASSUME NEW k \in 1..Len(emitted'), k > Len(emitted)
       PROVE  ~Evaluates(emitted'[k]) /\ AtHome(emitted'[k])
  BY <1>2, <1>5, <1>8, <1>10 DEF Evaluates, AtHome
<1>11. LocalMade(at, emitted', globals)
  <2>1. ASSUME NEW k \in Stored(at, emitted')
        PROVE  \E i \in 1..Len(vals) : k = Len(emitted) + i /\ emitted'[k] = S[i]
    <3>1. k \in 1..Len(emitted') /\ emitted'[k].op = "store" /\ emitted'[k].def = at
      BY DEF Stored
    <3>2. ~(k \in 1..Len(emitted))
      BY <1>2, <1>8, <3>1 DEF IInv, Latest, Evaluates
    <3>3. k - Len(emitted) \in 1..Len(vals) /\ emitted'[k] = S[k - Len(emitted)]
      BY <1>7, <1>8, <3>1, <3>2
    <3> QED BY <1>7, <3>1, <3>3
  <2>2. \A k \in Stored(at, emitted') : emitted'[k].item \in 1..Len(vals)
    BY <1>5, <2>1
  <2>3. ASSUME NEW i \in 1..Len(vals)
        PROVE  LET k == Len(emitted) + i
               IN  /\ k \in Stored(at, emitted')
                   /\ emitted'[k].in = within /\ emitted'[k].name = program[at].name
                   /\ Initial(at, i, emitted'[k].val, emitted', globals)
                   /\ emitted'[k].val.kind = "reg" => emitted'[k].val.n < k
                   /\ \A l \in Stored(at, emitted') : emitted'[l].item = i => l = k
    <3> DEFINE k == Len(emitted) + i
    <3>1. k \in Stored(at, emitted') /\ emitted'[k] = S[i]
      BY <1>5, <1>8 DEF Stored
    <3>2. Initial(at, i, vals[i], emitted, globals) /\ vals[i] \in Values
      BY <1>1, <1>2, Basics, ElementOfSeq DEF ValueMade
    <3>3. Initial(at, i, vals[i], emitted', globals)
      BY <1>9, <3>2, InitialStays DEF More
    <3>4. vals[i].kind = "reg" => vals[i].n \in 1..Len(emitted)
      BY <1>1, <1>2, <3>2 DEF Initial, Const
    <3>5. \A l \in Stored(at, emitted') : emitted'[l].item = i => l = k
      BY <1>5, <2>1
    <3>6. vals[i].kind = "reg" => vals[i].n < k
      BY <1>7, <3>4
    <3> QED BY <1>5, <3>1, <3>3, <3>5, <3>6
  <2> QED BY <1>2, <2>2, <2>3 DEF LocalMade
<1>12. Scopes'
  <2>1. \A x \in Names : (IsGlobal(x) <=> DefinedBefore(at, FileScope, x))'
    BY <1>1, <1>2, DefinedNext DEF IInv, Scopes, IsGlobal
  <2>2. \A x \in Names : (IsLocal(x) <=> DefinedBefore(at, within, x))'
    <3> SUFFICES ASSUME NEW x \in Names PROVE (IsLocal(x) <=> DefinedBefore(at, within, x))'
      OBVIOUS
    <3>1. IsLocal(x)' <=> IsLocal(x) \/ x = program[at].name
      BY <1>1, <1>3 DEF IsLocal
    <3>2. DefinedBefore(at, within, x)' <=> DefinedBefore(at, within, x) \/ program[at].name = x
      BY <1>1, <1>2, DefinedNext DEF DefinedBefore
    <3>3. IsLocal(x) <=> DefinedBefore(at, within, x)
      BY <1>1 DEF IInv, Scopes
    <3> QED BY <3>1, <3>2, <3>3
  <2> QED BY <1>1, <2>1, <2>2 DEF Scopes
<1>13. ~Taken
  BY <1>1 DEF Taken
<1>14. locals' \subseteq Names /\ More(globals, globals') /\ DOMAIN globals' \subseteq Names
       /\ globals' \in [DOMAIN globals' -> Global]
  BY <1>1, <1>3 DEF IInv, Typed, TypeOK, More
<1>15. LocalMade(at, emitted', globals')
  BY <1>1, <1>11
<1> QED BY <1>1, <1>9, <1>10, <1>12, <1>13, <1>14, <1>15, NextIInv

LEMMA DefineGlobalIInv == ASSUME IInv, DefineGlobal PROVE IInv'
<1> DEFINE x == Def.name
           g == Variable(IsArray(Def), vals)
<1>1. /\ Complete /\ within = FileScope /\ ~IsGlobal(x) /\ Initializable /\ NextDefinition
      /\ globals' = [y \in DOMAIN globals \cup {x} |-> IF y = x THEN g ELSE globals[y]]
      /\ UNCHANGED <<program, within, inserting, locals, emitted>> /\ at' = at + 1
  BY DEF DefineGlobal, NextDefinition, place
<1>2. /\ InDefinition /\ status = "generating" /\ at \in 1..Len(program)
      /\ program[at].scope = within /\ Len(vals) = CountIn(program[at], globals)
      /\ Sized(program[at], globals)
      /\ \A i \in 1..Len(vals) : ValueMade(i, vals[i], emitted, globals)
  BY <1>1, CompleteKnown
<1>3. x \in Names /\ x = program[at].name
  BY <1>2, Basics, DefinitionTyped DEF Def
<1>4. \A i \in 1..Len(vals) : vals[i].n \in Int /\ vals[i] = Const(vals[i].n)
  <2> SUFFICES ASSUME NEW i \in 1..Len(vals)
               PROVE  vals[i].n \in Int /\ vals[i] = Const(vals[i].n)
    OBVIOUS
  <2>1. vals[i] \in Values /\ vals[i].kind = "const"
    BY <1>1, Basics, ElementOfSeq DEF Initializable, IsConstantInt
  <2> QED BY <2>1 DEF Values, Const
<1>5. /\ g \in Global /\ Len(g.elements) = Len(vals)
      /\ \A i \in 1..Len(vals) : g.elements[i] = vals[i].n
  BY <1>4, Basics DEF Variable, Global, IsArray
<1>6. g.array = IsArray(program[at])
  BY Zenon DEF Variable, Def
<1> HIDE DEF g
<1>7. /\ DOMAIN globals' = DOMAIN globals \cup {x} /\ globals'[x] = g
      /\ \A y \in DOMAIN globals : globals'[y] = globals[y]
  BY <1>1 DEF IsGlobal
<1>8. More(globals, globals')
  BY <1>7 DEF More
<1>9. GlobalMade(at, globals')
  <2>1. CountIn(program[at], globals') = Len(vals)
    BY <1>2, <1>8, SizeStays
  <2>2. ASSUME NEW i \in 1..Len(vals) PROVE Initial(at, i, Const(g.elements[i]), << >>, globals')
    <3>1. Initial(at, i, vals[i], emitted, globals)
      BY <1>1, <1>2 DEF ValueMade, Initializable
    <3>2. Initial(at, i, vals[i], emitted, globals')
      BY <1>8, <3>1, InitialStays, LongerSame, Basics
    <3>3. Initial(at, i, vals[i], << >>, globals')
      BY <1>1, <1>2, <3>2 DEF Initial
    <3> QED BY <1>4, <1>5, <3>3
  <2>3. x \in DOMAIN globals' /\ globals'[x].array = IsArray(program[at])
    BY <1>6, <1>7, Zenon
  <2>4. Len(globals'[x].elements) = CountIn(program[at], globals')
    BY <1>5, <1>7, <2>1
  <2>5. \A i \in 1..CountIn(program[at], globals') :
          Initial(at, i, Const(globals'[x].elements[i]), << >>, globals')
    BY <1>7, <2>1, <2>2
  <2> QED BY <1>3, <2>3, <2>4, <2>5, Zenon DEF GlobalMade
<1>10. /\ DOMAIN globals' \subseteq Names /\ locals' \subseteq Names
       /\ globals' \in [DOMAIN globals' -> Global]
  BY <1>1, <1>3, <1>5, <1>7 DEF IInv, Typed, TypeOK
<1>11. Scopes'
  <2>1. \A y \in Names : (IsGlobal(y) <=> DefinedBefore(at, FileScope, y))'
    <3> SUFFICES ASSUME NEW y \in Names PROVE (IsGlobal(y) <=> DefinedBefore(at, FileScope, y))'
      OBVIOUS
    <3>1. IsGlobal(y)' <=> IsGlobal(y) \/ y = x
      BY <1>7 DEF IsGlobal
    <3>2. DefinedBefore(at, FileScope, y)' <=> DefinedBefore(at, FileScope, y) \/ y = x
      BY <1>1, <1>2, <1>3, DefinedNext
    <3> QED BY <3>1, <3>2 DEF IInv, Scopes
  <2> QED BY <1>1, <2>1 DEF IInv, Scopes
<1>12. Longer(emitted, emitted', at) /\ ~Taken
       /\ \A k \in 1..Len(emitted') : ~(k > Len(emitted))
  BY <1>1, Basics, LongerSame DEF Taken
<1> QED BY <1>1, <1>8, <1>9, <1>10, <1>11, <1>12, NextIInv


\* A file ends where all of its definitions have been generated.
LEMMA EndIInv == ASSUME IInv, End PROVE IInv'
<1>1. /\ status = "generating" /\ within = FileScope /\ at > Len(program)
      /\ status' = "done" /\ UNCHANGED <<place, at, size, vals, globals, emitted>>
      /\ UNCHANGED <<program, within>>
  BY DEF End, Fail, place
<1>2. Typed' /\ Placed' /\ Scopes'
  BY <1>1, Basics, InDefinitionStays DEF TypeOK
<1>3. AllPast' /\ EmissionsIn(emitted, globals)'
  BY <1>1, EmitsNothing
<1>4. Current' /\ Failed'
  BY <1>1 DEF Current, Failed
<1>5. \A k \in 1..Len(emitted) : emitted[k].def # at
  BY <1>1, Basics DEF IInv, EmissionsIn
<1>6. Latest'
  BY <1>1, <1>5 DEF Latest
<1> QED BY <1>2, <1>3, <1>4, <1>6 DEF IInv, AllPast

\* Nothing has happened to anything that is stuck.
LEMMA StutterIInv == ASSUME IInv, UNCHANGED vars PROVE IInv'
<1>1. UNCHANGED <<program, at, within, inserting, size, vals, emitted, locals, globals, status>>
  BY DEF vars, place
<1>2. Typed' /\ Placed' /\ Scopes'
  BY <1>1 DEF IInv, Typed, TypeOK, Placed, Def, Scopes, IsLocal, IsGlobal, DefinedBefore
<1>3. AllPast' /\ EmissionsIn(emitted, globals)'
  BY <1>1, EmitsNothing
<1>4. Current'
  BY <1>1 DEF IInv, Current, Def, Sized, RawSize, ConstantAt, ScalarBefore, IsArray, ValueMade,
              VisibleAt, DefinedBefore, Initial
<1>5. Latest'
  BY <1>1 DEF IInv, Latest, AtHome, Initializable
<1>6. WellFormed(at, globals)' <=> WellFormed(at, globals)
  BY <1>1 DEF WellFormed, DefinedBefore, ConstantAt, VisibleAt, ScalarBefore
<1>7. Failed'
  BY <1>1, <1>6 DEF IInv, Failed, Def
<1> QED BY <1>2, <1>3, <1>4, <1>5, <1>7 DEF IInv, AllPast

-----------------------------------------------------------------------------
(* The invariant holds *)

LEMMA InitIInv == Init => IInv
<1> SUFFICES ASSUME Init PROVE IInv
  OBVIOUS
<1>1. /\ program \in Programs
      /\ at = 1 /\ within = FileScope /\ inserting = FileScope
      /\ size = NoSize /\ vals = << >> /\ emitted = << >>
      /\ locals = {} /\ globals = << >> /\ status = "generating"
  BY DEF Init
<1>2. program \in Seq(Definitions) /\ Len(program) \in Nat
  BY <1>1, ProgramsAssumption, LenProperties
<1>3. /\ DOMAIN globals = {} /\ Len(emitted) = 0
      /\ vals \in Seq(Values) /\ emitted \in Seq(Instructions)
  BY <1>1
<1>4. globals = [x \in {} |-> x]
  BY <1>1
<1>5. globals \in [DOMAIN globals -> Global]
  BY <1>3, <1>4
<1>6. Typed
  BY <1>1, <1>2, <1>3, <1>5 DEF Typed, TypeOK, NoSize
<1>7. Placed
  BY <1>1 DEF Placed
<1>8. Scopes
  BY <1>1, <1>3 DEF Scopes, IsGlobal, DefinedBefore
<1>9. EmissionsIn(emitted, globals) /\ Latest
  BY <1>3 DEF EmissionsIn, InOrder, Latest
<1>10. Current /\ Failed
  BY <1>1 DEF Current, Failed
<1> QED BY <1>1, <1>6, <1>7, <1>8, <1>9, <1>10 DEF IInv

LEMMA StepIInv == IInv /\ [Next]_vars => IInv'
<1> SUFFICES ASSUME IInv, [Next]_vars PROVE IInv'
  OBVIOUS
<1>1. CASE EnterFunction BY <1>1, EnterIInv
<1>2. CASE LeaveFunction BY <1>2, LeaveIInv
<1>3. CASE ScalarSize BY <1>3, ScalarSizeIInv
<1>4. CASE ArraySize BY <1>4, ArraySizeIInv
<1>5. CASE AddZero BY <1>5, AddZeroIInv
<1>6. CASE AddChar BY <1>6, AddCharIInv
<1>7. CASE AddExpression BY <1>7, AddExpressionIInv
<1>8. CASE UndefinedName BY <1>8, UndefinedNameIInv
<1>9. CASE DefineLocal BY <1>9, DefineLocalIInv
<1>10. CASE DefineGlobal BY <1>10, DefineGlobalIInv
<1>11. CASE DefineGlobalCrashes BY <1>11, DefineGlobalCrashesIInv
<1>12. CASE Redefined BY <1>12, RedefinedIInv
<1>13. CASE End BY <1>13, EndIInv
<1>14. CASE UNCHANGED vars BY <1>14, StutterIInv
<1> QED
  BY <1>1, <1>2, <1>3, <1>4, <1>5, <1>6, <1>7, <1>8, <1>9, <1>10, <1>11, <1>12, <1>13, <1>14
  DEF Next, Step, Finished

LEMMA Invariance == Spec => []IInv
BY InitIInv, StepIInv, PTL DEF Spec

-----------------------------------------------------------------------------
(* Theorems *)

\* The variables have their types, and getInitVals never returns more values
\* than the array has elements (code_gen.cpp).
THEOREM TypeCorrect == Spec => []TypeOK
<1>1. IInv => TypeOK
  BY DEF IInv, Typed
<1> QED BY <1>1, Invariance, PTL

\* getInitVals, createDefineValueInst and defineGlobalValue give every element
\* of every variable the value the source has for it, exactly once.
THEOREM ElementsAreInitialised == Spec => []ElementsInitialised
BY IInvInitialised, Invariance, PTL

\* The loop of getInitVals evaluates initial values in the order of the source,
\* none twice and none there is no element for.
THEOREM EvaluationIsInOrder == Spec => []EvaluatedOnceInOrder
BY IInvEvaluated, Invariance, PTL

\* getValue finds, for a name in an initial value, the definition of the
\* function that is before it, or else the one of file scope.
THEOREM NamesAreResolved == Spec => []NamesReadAreInScope
BY IInvResolved, Invariance, PTL

\* The insert block left behind by codeGenFunc does no harm: no file that is
\* generated to its end has code of a global's initial value in a function.
THEOREM NothingStrays == Spec => []FileScopeLeavesNothing
BY IInvAtHome, Invariance, PTL

\* The checks of codeGenConstDef, codeGenVarDef, getInitVals and of the layers
\* stop exactly the definitions that are not well-formed, but for arrays at
\* file scope without elements.
THEOREM WellFormedPass == Spec => []OnlyWellFormedPasses
BY IInvWellFormed, Invariance, PTL

=============================================================================
