--------------------------- MODULE SymbolsProofs ---------------------------
(***************************************************************************)
(* Proofs about Symbols for every choice of names, numbers of parameters   *)
(* and bounds: the types, that no call binds to the wrong function even in *)
(* a program that uses one name for a function and a variable, and that    *)
(* the symbol table is a plain table of functions in every other program.  *)
(***************************************************************************)
EXTENDS Symbols, SequenceTheorems, TLAPS

Function == [written : Name, arity : Nat]
Written(i, x) == i \in 1..Len(functions) /\ functions[i].written = x

-----------------------------------------------------------------------------
(* The inductive invariant *)

\* The symbol table knows a function by the name the source gives it, and then
\* there is no other of that name; of a free name there is none.
TableKnows ==
  \A x \in Name :
    /\ IsFunction(x) => \A i : Written(i, x) <=> i = symtab[x].index
    /\ symtab[x] = Free => \A i : ~Written(i, x)
    /\ symtab[x].kind = "none" => symtab[x] = Free

\* What an active or an emitted call was bound to is what its name still denotes.
BoundIn(c, table, fs) ==
  /\ c.name \in FuncName /\ c.args \in Arities
  /\ table[c.name].kind = "function" /\ c.callee = table[c.name].index
  /\ fs[c.callee].arity = c.args
Bound(c) == BoundIn(c, symtab, functions)

CallsBound ==
  /\ \A i \in 1..Len(pending) : Bound(pending[i])
  /\ \A i \in 1..Len(calls) : Bound(calls[i])

\* A call in whose arguments there is another one is waiting for that argument.
Waiting == \A i \in 1..(Len(pending) - 1) : pending[i].left > 0

IInv == TypeOK /\ TableKnows /\ CallsBound /\ Waiting

Pending == [name : Name, args : Nat, callee : 1..Len(functions), left : Nat]
Call == [name : Name, args : Nat, callee : 1..Len(functions)]
Statuses == {"running", "crashed", "redefined function", "redefined global",
             "unknown function", "arguments number"}

LEMMA BoundToSource == IInv => CallsBindToSource
<1> SUFFICES ASSUME IInv, NEW i \in 1..Len(calls)
             PROVE  /\ functions[calls[i].callee].written = calls[i].name
                    /\ functions[calls[i].callee].arity = calls[i].args
                    /\ \A k \in 1..Len(functions) :
                         functions[k].written = calls[i].name => k = calls[i].callee
  BY DEF CallsBindToSource
<1> DEFINE c == calls[i]
<1>1. BoundIn(c, symtab, functions)
  BY DEF IInv, CallsBound, Bound
<1>2. c.name \in Name /\ IsFunction(c.name)
  BY <1>1 DEF BoundIn, Name, IsFunction
<1>3. \A k : Written(k, c.name) <=> k = symtab[c.name].index
  BY <1>2 DEF IInv, TableKnows
<1> QED BY <1>1, <1>3 DEF BoundIn, Written

-----------------------------------------------------------------------------
(* The initial state *)

LEMMA LibraryTyped ==
  /\ StandardLibrary \in Seq(Function)
  /\ Len(StandardLibrary) = 12
  /\ \A i \in 1..12 : StandardLibrary[i].written \in Name
<1>1. Len(StandardLibrary) = 12
  BY DEF StandardLibrary
<1>2. \A i \in 1..12 : StandardLibrary[i].written \in Name
  BY <1>1 DEF Name
<1> DEFINE W == {"getint", "putint", "getch", "putch", "putarray", "getarray", "print", "scan",
                 "printStr", "plusStrStr", "mulStrNum", "plusStrNum"}
           R == [written : W, arity : Nat]
<1>3. StandardLibrary \in Seq(R)
  <2>1. /\ LibraryFunction("getint", 0) \in R /\ LibraryFunction("putint", 1) \in R
        /\ LibraryFunction("getch", 0) \in R /\ LibraryFunction("putch", 1) \in R
        /\ LibraryFunction("putarray", 2) \in R /\ LibraryFunction("getarray", 1) \in R
        /\ LibraryFunction("print", 2) \in R /\ LibraryFunction("scan", 1) \in R
        /\ LibraryFunction("printStr", 2) \in R /\ LibraryFunction("plusStrStr", 5) \in R
        /\ LibraryFunction("mulStrNum", 4) \in R /\ LibraryFunction("plusStrNum", 4) \in R
    BY DEF LibraryFunction
  <2> HIDE DEF R
  <2> QED BY <2>1 DEF StandardLibrary
<1>4. \A i \in 1..12 : StandardLibrary[i] \in R
  <2> HIDE DEF R
  <2> QED BY <1>1, <1>3, ElementOfSeq
<1>5. \A i \in 1..12 : StandardLibrary[i] \in Function
  <2> HIDE DEF W
  <2> QED BY <1>2, <1>4 DEF Function
<1>6. DOMAIN StandardLibrary = 1..12 /\ StandardLibrary = [i \in 1..12 |-> StandardLibrary[i]]
  BY <1>1, <1>3, LenProperties
<1>7. StandardLibrary \in [1..12 -> Function]
  BY <1>5, <1>6
<1>8. StandardLibrary \in Seq(Function)
  BY <1>7, SeqDef
<1> QED BY <1>1, <1>2, <1>8

LEMMA LibraryNamesDiffer ==
  ASSUME NEW i \in 1..12, NEW k \in 1..12, StandardLibrary[i].written = StandardLibrary[k].written
  PROVE  i = k
<1> DEFINE w == [n \in 1..12 |-> StandardLibrary[n].written]
<1>1. /\ w[1] = "getint" /\ w[2] = "putint" /\ w[3] = "getch" /\ w[4] = "putch"
      /\ w[5] = "putarray" /\ w[6] = "getarray" /\ w[7] = "print" /\ w[8] = "scan"
      /\ w[9] = "printStr" /\ w[10] = "plusStrStr" /\ w[11] = "mulStrNum"
      /\ w[12] = "plusStrNum"
  BY DEF StandardLibrary, LibraryFunction
<1>2. w[i] = w[k]
  OBVIOUS
<1> HIDE DEF w
<1> QED BY <1>1, <1>2

LEMMA InitIInv == Init => IInv
<1> SUFFICES ASSUME Init PROVE IInv
  OBVIOUS
<1>1. /\ functions = StandardLibrary /\ Len(functions) = 12 /\ functions \in Seq(Function)
      /\ current = 0 /\ pending = << >> /\ calls = << >> /\ status = "running"
      /\ Len(pending) = 0 /\ Len(calls) = 0
  BY LibraryTyped DEF Init
<1>2. ASSUME NEW x \in Name, NEW i \in 1..12, functions[i].written = x
      PROVE  symtab[x] = [kind |-> "function", index |-> i]
  <2>1. \A k \in 1..12 : functions[k].written = x => k = i
    BY <1>1, <1>2, LibraryNamesDiffer
  <2>2. (CHOOSE k \in 1..12 : functions[k].written = x) = i
    BY <1>2, <2>1
  <2> QED BY <1>1, <1>2, <2>2 DEF Init
<1>3. ASSUME NEW x \in Name, \A i \in 1..12 : functions[i].written # x
      PROVE  symtab[x] = Free
  BY <1>1, <1>3 DEF Init
<1>4. \A x \in Name : IsFunction(x) => \E i \in 1..12 : functions[i].written = x
  BY <1>3 DEF IsFunction, Free
<1>5. TableKnows
  <2> SUFFICES ASSUME NEW x \in Name
               PROVE  /\ IsFunction(x) => \A i : Written(i, x) <=> i = symtab[x].index
                      /\ symtab[x] = Free => \A i : ~Written(i, x)
                      /\ symtab[x].kind = "none" => symtab[x] = Free
    BY DEF TableKnows
  <2>1. CASE \E i \in 1..12 : functions[i].written = x
    <3>1. PICK i \in 1..12 : functions[i].written = x
      BY <2>1
    <3>2. symtab[x].index = i /\ symtab[x] # Free /\ symtab[x].kind = "function"
      BY <1>2, <3>1 DEF Free
    <3>3. \A k : Written(k, x) => symtab[x].index = k
      BY <1>1, <1>2 DEF Written
    <3> QED BY <1>1, <3>1, <3>2, <3>3 DEF Written
  <2>2. CASE \A i \in 1..12 : functions[i].written # x
    BY <1>1, <1>3, <1>4, <2>2 DEF Written
  <2> QED BY <2>1, <2>2
<1>6. symtab \in [Name -> Symbol] /\ \A x \in Name : IsFunction(x) => symtab[x].index \in 1..12
  <2>1. \A x \in Name : symtab[x] \in Symbol /\ (IsFunction(x) => symtab[x].index \in 1..12)
    <3> SUFFICES ASSUME NEW x \in Name
                 PROVE  symtab[x] \in Symbol /\ (IsFunction(x) => symtab[x].index \in 1..12)
      OBVIOUS
    <3>1. CASE \E i \in 1..12 : functions[i].written = x
      <4>1. PICK i \in 1..12 : symtab[x] = [kind |-> "function", index |-> i]
        BY <1>2, <3>1
      <4> QED BY <4>1 DEF Symbol
    <3>2. CASE \A i \in 1..12 : functions[i].written # x
      <4>1. symtab[x] = Free
        BY <1>3, <3>2
      <4> QED BY <4>1 DEF Symbol, Free, IsFunction
    <3> QED BY <3>1, <3>2
  <2>2. symtab = [x \in Name |-> symtab[x]]
    BY Zenon DEF Init
  <2> QED BY <2>1, <2>2
<1>7. TypeOK
  BY <1>1, <1>6 DEF TypeOK, Function, Statuses
<1>8. CallsBound /\ Waiting
  BY <1>1 DEF CallsBound, Waiting
<1> QED BY <1>5, <1>7, <1>8 DEF IInv

-----------------------------------------------------------------------------
(* The steps *)

LEMMA Typed ==
  ASSUME IInv
  PROVE  /\ symtab \in [Name -> Symbol] /\ current \in 0..Len(functions) /\ status \in Statuses
         /\ pending \in Seq(Pending) /\ calls \in Seq(Call) /\ functions \in Seq(Function)
BY DEF IInv, TypeOK, Statuses, Pending, Call, Function

\* Functions are never renamed nor forgotten, and neither is what a call is bound to.
LEMMA BoundKept ==
  ASSUME IInv, NEW c, BoundIn(c, symtab, functions), NEW table, NEW fs,
         \A x \in Name : IsFunction(x) => table[x] = symtab[x],
         \A i \in 1..Len(functions) : fs[i] = functions[i]
  PROVE  BoundIn(c, table, fs)
<1>1. c.name \in Name /\ IsFunction(c.name)
  BY DEF BoundIn, Name, IsFunction
<1>2. symtab[c.name].index \in 1..Len(functions)
  BY <1>1 DEF IInv, TypeOK
<1> QED BY <1>1, <1>2 DEF BoundIn

\* A definition: of a function under the name x, or of a variable.
LEMMA DefineStep ==
  ASSUME IInv, functions' \in Seq(Function), symtab' \in [Name -> Symbol],
         Len(functions') \in Nat, Len(functions) \in Nat, Len(functions) <= Len(functions'),
         \A i \in 1..Len(functions) : functions'[i] = functions[i],
         \A x \in Name : IsFunction(x) => symtab'[x] = symtab[x],
         \A x \in Name : IsFunction(x)' => symtab'[x].index \in 1..Len(functions'),
         current' \in 0..Len(functions'), status' \in Statuses,
         UNCHANGED <<pending, calls>>, TableKnows'
  PROVE  IInv'
<1>1. 1..Len(functions) \subseteq 1..Len(functions')
  OBVIOUS
<1>2. pending' \in Seq([name : Name, args : Nat, callee : 1..Len(functions'), left : Nat])
  <2> DEFINE P == [name : Name, args : Nat, callee : 1..Len(functions'), left : Nat]
  <2>1. Pending \subseteq P
    BY <1>1 DEF Pending
  <2>2. pending \in Seq(Pending)
    BY DEF IInv, TypeOK, Pending
  <2> HIDE DEF P
  <2>3. pending \in Seq(P)
    <3>1. Len(pending) \in Nat /\ pending \in [1..Len(pending) -> Pending]
      BY <2>2, LenProperties
    <3>2. pending \in [1..Len(pending) -> P]
      BY <2>1, <3>1
    <3> QED BY <3>1, <3>2, SeqDef
  <2> QED BY <2>3 DEF P
<1>3. calls' \in Seq([name : Name, args : Nat, callee : 1..Len(functions')])
  <2> DEFINE P == [name : Name, args : Nat, callee : 1..Len(functions')]
  <2>1. Call \subseteq P
    BY <1>1 DEF Call
  <2>2. calls \in Seq(Call)
    BY DEF IInv, TypeOK, Call
  <2> HIDE DEF P
  <2>3. calls \in Seq(P)
    <3>1. Len(calls) \in Nat /\ calls \in [1..Len(calls) -> Call]
      BY <2>2, LenProperties
    <3>2. calls \in [1..Len(calls) -> P]
      BY <2>1, <3>1
    <3> QED BY <3>1, <3>2, SeqDef
  <2> QED BY <2>3 DEF P
<1>4. TypeOK'
  BY <1>2, <1>3 DEF TypeOK, Function, Statuses
<1>5. CallsBound'
  <2>1. \A i \in 1..Len(pending) : BoundIn(pending[i], symtab', functions')
    BY BoundKept DEF IInv, CallsBound, Bound
  <2>2. \A i \in 1..Len(calls) : BoundIn(calls[i], symtab', functions')
    BY BoundKept DEF IInv, CallsBound, Bound
  <2> QED BY <2>1, <2>2 DEF CallsBound, Bound
<1>6. Waiting'
  BY DEF IInv, Waiting
<1> QED BY <1>4, <1>5, <1>6 DEF IInv

\* A step of calls, or one that stops.
LEMMA CallStep ==
  ASSUME IInv, UNCHANGED <<symtab, functions>>, current' \in 0..Len(functions),
         pending' \in Seq(Pending), calls' \in Seq(Call), status' \in Statuses,
         \A i \in 1..Len(pending') : Bound(pending'[i]),
         \A i \in 1..Len(calls') : Bound(calls'[i]),
         \A i \in 1..(Len(pending') - 1) : pending'[i].left > 0
  PROVE  IInv'
<1>1. TypeOK'
  BY DEF IInv, TypeOK, Pending, Call, Statuses, IsFunction
<1>2. TableKnows'
  BY DEF IInv, TableKnows, IsFunction, Written, Free
<1>3. CallsBound' /\ Waiting'
  BY DEF CallsBound, Bound, Waiting
<1> QED BY <1>1, <1>2, <1>3 DEF IInv

LEMMA NewFunctionStep ==
  ASSUME IInv, NEW x \in FuncName, NEW n \in Arities, ~IsFunction(x), NewFunction(x, n)
  PROVE  IInv'
<1> DEFINE m == Len(functions) + 1
           f == [written |-> x, arity |-> n]
<1>1. f \in Function /\ x \in Name
  BY AritiesAssumption DEF Function, Name
<1>2. /\ functions' \in Seq(Function) /\ Len(functions) \in Nat /\ Len(functions') = m
      /\ \A i \in 1..Len(functions) : functions'[i] = functions[i]
      /\ functions'[m] = f
  <2>1. functions \in Seq(Function) /\ functions' = Append(functions, f)
    BY DEF IInv, TypeOK, Function, NewFunction
  <2>2. Len(functions) \in Nat
    BY <2>1, LenProperties
  <2> HIDE DEF f
  <2> QED BY <1>1, <2>1, <2>2, AppendProperties
<1> HIDE DEF f
<1>3. /\ symtab[x] = Free =>
           symtab' = [symtab EXCEPT ![x] = [kind |-> "function", index |-> m]]
      /\ symtab[x] # Free => symtab' = symtab
      /\ current' = m /\ UNCHANGED <<pending, calls, status>>
  BY DEF NewFunction, Entered
<1>0. /\ Len(functions) \in Nat /\ Len(functions') \in Nat /\ m \in 0..Len(functions')
      /\ Len(functions) <= Len(functions')
  <2>1. Len(functions) \in Nat /\ Len(functions') = Len(functions) + 1
    BY <1>2
  <2> QED BY <2>1
<1>4. symtab \in [Name -> Symbol] /\ m \in Nat
  BY <1>0, Typed
<1>5. symtab' \in [Name -> Symbol]
  BY <1>1, <1>3, <1>4 DEF Symbol
<1>6. \A y \in Name : symtab'[y] = symtab[y] \/ (y = x /\ symtab[x] = Free /\
                        symtab'[y] = [kind |-> "function", index |-> m])
  BY <1>1, <1>3, <1>4
<1>7. \A y \in Name : IsFunction(y) => symtab'[y] = symtab[y]
  BY <1>6 DEF IsFunction, Free
<1>8. \A y \in Name : symtab'[y].kind = "function" => symtab'[y].index \in 1..m
  <2> SUFFICES ASSUME NEW y \in Name, symtab'[y].kind = "function"
               PROVE  symtab'[y].index \in 1..m
    OBVIOUS
  <2>1. CASE symtab'[y] = symtab[y]
    <3>1. symtab[y].index \in 1..Len(functions)
      BY <2>1 DEF IInv, TypeOK, IsFunction
    <3> QED BY <1>2, <2>1, <3>1
  <2>2. CASE symtab'[y] = [kind |-> "function", index |-> m]
    BY <1>2, <2>2
  <2> QED BY <1>6, <2>1, <2>2
<1>9. ASSUME NEW y \in Name
      PROVE  /\ symtab'[y].kind = "function"
                  => \A i : i \in 1..m /\ functions'[i].written = y <=> i = symtab'[y].index
             /\ symtab'[y] = Free => \A i : ~(i \in 1..m /\ functions'[i].written = y)
             /\ symtab'[y].kind = "none" => symtab'[y] = Free
  <2>1. \A i : i \in 1..m <=> i \in 1..Len(functions) \/ i = m
    BY <1>2
  <2>2. functions'[m].written = x
    BY <1>2 DEF f
  <2>3. \A i \in 1..Len(functions) : functions'[i].written = functions[i].written
    BY <1>2
  <2>4. m \notin 1..Len(functions)
    BY <1>2
  <2>5. CASE y = x /\ symtab[x] = Free
    <3>1. \A i \in 1..Len(functions) : functions[i].written # x
      BY <1>1, <2>5 DEF IInv, TableKnows, Written
    <3>2. symtab'[y] = [kind |-> "function", index |-> m]
      BY <1>1, <1>3, <1>4, <2>5
    <3> HIDE DEF m
    <3> QED BY <2>1, <2>2, <2>3, <2>5, <3>1, <3>2 DEF Free
  <2>6. CASE y = x /\ symtab[x] # Free
    <3>1. /\ symtab'[y] = symtab[y] /\ symtab[y] # Free /\ symtab[y].kind # "function"
          /\ symtab[y].kind # "none"
      BY <1>3, <2>6 DEF IsFunction, IInv, TableKnows
    <3> QED BY <3>1
  <2>7. CASE y # x
    <3>1. symtab'[y] = symtab[y]
      BY <1>6, <2>7
    <3>2. \A i : i \in 1..m /\ functions'[i].written = y <=> Written(i, y)
      BY <2>1, <2>2, <2>3, <2>7 DEF Written
    <3> HIDE DEF m
    <3> QED BY <3>1, <3>2 DEF IInv, TableKnows, IsFunction
  <2> QED BY <2>5, <2>6, <2>7
<1>10. TableKnows'
  BY <1>2, <1>9 DEF TableKnows, IsFunction, Written, Free
<1>11. /\ current' \in 0..Len(functions') /\ status' \in Statuses
       /\ Len(functions) <= Len(functions') /\ Len(functions') \in Nat
  <2>1. status \in Statuses
    BY Typed
  <2> QED BY <1>0, <1>3, <2>1
<1> HIDE DEF m
<1>12. \A y \in Name : IsFunction(y)' => symtab'[y].index \in 1..Len(functions')
  BY <1>2, <1>8 DEF IsFunction
<1> QED BY <1>2, <1>3, <1>5, <1>7, <1>10, <1>11, <1>12, DefineStep

\* A variable takes a name that was free, and no function's.
LEMMA DefineGlobalStep ==
  ASSUME IInv, NEW x \in VarName, symtab' = Entered(x, "variable", 0),
         status' \in Statuses, UNCHANGED <<functions, current, pending, calls>>
  PROVE  IInv'
<1> DEFINE v == [kind |-> "variable", index |-> 0]
<1>1. x \in Name /\ v \in Symbol /\ v.kind = "variable" /\ v # Free
  BY DEF Name, Symbol, Free
<1>2. symtab \in [Name -> Symbol] /\ functions \in Seq(Function) /\ current \in 0..Len(functions)
  BY Typed
<1>3. symtab' \in {symtab, [symtab EXCEPT ![x] = v]}
  BY DEF Entered
<1>4. symtab[x] # Free => symtab' = symtab
  BY DEF Entered
<1> HIDE DEF v
<1>5. symtab' \in [Name -> Symbol]
  BY <1>1, <1>2, <1>3
<1>6. \A y \in Name : symtab'[y] = symtab[y] \/ (symtab[y] = Free /\ symtab'[y] = v)
  BY <1>1, <1>2, <1>3, <1>4
<1>7. Len(functions) \in Nat
  BY <1>2, LenProperties
<1>8. \A y \in Name : symtab'[y].kind = "function" => IsFunction(y) /\ symtab'[y] = symtab[y]
  BY <1>1, <1>6 DEF IsFunction
<1>9. \A y \in Name : IsFunction(y) => symtab'[y] = symtab[y]
  BY <1>6 DEF IsFunction, Free
<1>10. \A y \in Name : symtab'[y] = Free => symtab[y] = Free
  BY <1>1, <1>6
<1>11. TableKnows'
  <2>1. \A y \in Name : symtab'[y].kind = "none" => symtab'[y] = Free
    BY <1>1, <1>6 DEF IInv, TableKnows
  <2> QED BY <1>8, <1>10, <2>1 DEF IInv, TableKnows, IsFunction, Written, Free
<1>12. \A y \in Name : IsFunction(y)' => symtab'[y].index \in 1..Len(functions')
  BY <1>8 DEF IInv, TypeOK, IsFunction
<1>13. /\ functions' \in Seq(Function) /\ current' \in 0..Len(functions')
       /\ Len(functions) <= Len(functions') /\ Len(functions') \in Nat
       /\ \A i \in 1..Len(functions) : functions'[i] = functions[i]
  <2>1. functions' = functions /\ current' = current
    OBVIOUS
  <2>2. Len(functions) <= Len(functions')
    BY <1>7, <2>1
  <2>3. Len(functions') \in Nat
    BY <1>7, <2>1
  <2> QED BY <1>2, <2>1, <2>2, <2>3
<1> QED BY <1>5, <1>7, <1>9, <1>11, <1>12, <1>13, DefineStep

\* One argument less: everything but the number left stays.
LEMMA OneArgumentLess ==
  ASSUME NEW stk \in Seq(Pending), stk # << >> => stk[Len(stk)].left > 0
  PROVE  /\ ArgumentDone(stk) \in Seq(Pending) /\ Len(ArgumentDone(stk)) = Len(stk)
         /\ \A i \in 1..Len(stk) :
              /\ ArgumentDone(stk)[i].name = stk[i].name
              /\ ArgumentDone(stk)[i].args = stk[i].args
              /\ ArgumentDone(stk)[i].callee = stk[i].callee
         /\ \A i \in 1..(Len(stk) - 1) : ArgumentDone(stk)[i] = stk[i]
<1>1. CASE stk = << >>
  BY <1>1 DEF ArgumentDone
<1>2. CASE stk # << >>
  <2> DEFINE n == Len(stk)
             p == [name |-> stk[n].name, args |-> stk[n].args, callee |-> stk[n].callee,
                   left |-> stk[n].left - 1]
             ms == [stk EXCEPT ![n] = p]
  <2>1. n \in Nat \ {0} /\ n \in 1..n
    <3>1. Len(stk) \in Nat /\ Len(stk) # 0
      BY <1>2, LenProperties, EmptySeq
    <3> QED BY <3>1
  <2>2. stk[n] \in Pending
    BY <2>1, ElementOfSeq
  <2>3. /\ p \in Pending /\ p.name = stk[n].name /\ p.args = stk[n].args
        /\ p.callee = stk[n].callee
    BY <1>2, <2>2 DEF Pending
  <2> HIDE DEF p
  <2>4. /\ ms \in Seq(Pending) /\ Len(ms) = n
        /\ \A i \in 1..n : ms[i] = IF i = n THEN p ELSE stk[i]
    BY <2>1, <2>3, ExceptSeq
  <2>5. ArgumentDone(stk) = ms
    BY <1>2 DEF ArgumentDone, p
  <2> HIDE DEF ms, n
  <2>6. \A i \in 1..(n - 1) : i \in 1..n /\ i # n
    BY <2>1
  <2>7. \A i \in 1..n : ms[i].name = stk[i].name /\ ms[i].args = stk[i].args
                          /\ ms[i].callee = stk[i].callee
    BY <2>3, <2>4
  <2>8. \A i \in 1..(n - 1) : ms[i] = stk[i]
    BY <2>4, <2>6
  <2> QED BY <2>4, <2>5, <2>7, <2>8 DEF n
<1> QED BY <1>1, <1>2

\* What is left of a sequence without its last element.
LEMMA FrontOf ==
  ASSUME NEW S, NEW s \in Seq(S), s # << >>
  PROVE  /\ SubSeq(s, 1, Len(s) - 1) \in Seq(S)
         /\ Len(SubSeq(s, 1, Len(s) - 1)) = Len(s) - 1
         /\ \A i \in 1..(Len(s) - 1) : SubSeq(s, 1, Len(s) - 1)[i] = s[i]
<1> DEFINE k == Len(s)
           n == k - 1
<1>1. k \in Nat \ {0}
  <2>1. Len(s) \in Nat /\ Len(s) # 0
    BY LenProperties, EmptySeq
  <2> QED BY <2>1
<1>2. n \in Int /\ 1 \in Int /\ n \in Nat /\ \A i \in 1..n : i \in 1..Len(s)
  BY <1>1
<1>3. \A i \in 1..n : s[i] \in S
  BY <1>2, ElementOfSeq
<1> HIDE DEF n, k
<1>4. /\ SubSeq(s, 1, n) \in Seq(S)
      /\ Len(SubSeq(s, 1, n)) = IF 1 <= n THEN n - 1 + 1 ELSE 0
      /\ \A i \in 1..(n - 1 + 1) : SubSeq(s, 1, n)[i] = s[1 + i - 1]
  BY <1>2, <1>3, SubSeqProperties
<1>5. (IF 1 <= n THEN n - 1 + 1 ELSE 0) = n /\ n - 1 + 1 = n /\ \A i \in 1..n : 1 + i - 1 = i
  BY <1>2
<1>6. \A i \in 1..n : SubSeq(s, 1, n)[i] = s[i]
  BY <1>4, <1>5
<1> QED BY <1>4, <1>5, <1>6 DEF n, k

LEMMA BeginCallStep ==
  ASSUME IInv, NEW x \in FuncName, NEW n \in Arities, BeginCall(x, n)
  PROVE  IInv'
<1>1. /\ symtab \in [Name -> Symbol] /\ current \in 0..Len(functions) /\ status \in Statuses
      /\ pending \in Seq(Pending) /\ calls \in Seq(Call)
  BY Typed
<1>2. CASE LogError("unknown function") \/ LogError("arguments number")
  BY <1>1, <1>2, CallStep DEF LogError, Statuses, IInv, CallsBound, Waiting
<1>3. CASE ~(LogError("unknown function") \/ LogError("arguments number"))
  <2> DEFINE c == [name |-> x, args |-> n, callee |-> symtab[x].index, left |-> n]
             k == Len(pending)
  <2>1. /\ IsFunction(x) /\ functions[symtab[x].index].arity = n
        /\ pending' = Append(pending, c)
        /\ UNCHANGED <<symtab, functions, current, calls, status>>
        /\ pending # << >> => pending[Len(pending)].left > 0
    BY <1>3 DEF BeginCall, ArgumentsAgree, Innermost
  <2>2. x \in Name /\ symtab[x].index \in 1..Len(functions)
    BY <2>1 DEF IInv, TypeOK, Name
  <2>3. c \in Pending /\ BoundIn(c, symtab, functions)
    BY <2>1, <2>2, AritiesAssumption DEF Pending, BoundIn, IsFunction
  <2> HIDE DEF c
  <2>4. /\ pending' \in Seq(Pending) /\ Len(pending') = Len(pending) + 1
        /\ \A i \in 1..Len(pending) : pending'[i] = pending[i]
        /\ pending'[Len(pending) + 1] = c
    BY <1>1, <2>1, <2>3, AppendProperties
  <2>5. k \in Nat /\ (k # 0 => pending # << >>)
    <3>1. Len(pending) \in Nat
      BY <1>1, LenProperties
    <3> QED BY <3>1
  <2>6. ASSUME NEW i \in 1..Len(pending') PROVE Bound(pending'[i])
    <3>1. i \in 1..k \/ i = k + 1
      BY <2>4, <2>5
    <3>2. i \in 1..k => BoundIn(pending[i], symtab, functions)
      BY DEF IInv, CallsBound, Bound
    <3> QED BY <2>3, <2>4, <3>1, <3>2 DEF Bound
  <2>7. ASSUME NEW i \in 1..(Len(pending') - 1) PROVE pending'[i].left > 0
    <3>1. i \in 1..k /\ (i \in 1..(k - 1) \/ i = k)
      BY <2>4, <2>5
    <3>2. pending'[i] = pending[i]
      BY <2>4, <3>1
    <3>3. i \in 1..(k - 1) => pending[i].left > 0
      BY DEF IInv, Waiting
    <3>4. i = k => pending[i].left > 0
      BY <2>1, <2>5, <3>1
    <3> QED BY <3>1, <3>2, <3>3, <3>4
  <2>8. \A i \in 1..Len(calls') : Bound(calls'[i])
    BY <2>1 DEF IInv, CallsBound
  <2>9. current' \in 0..Len(functions) /\ calls' \in Seq(Call) /\ status' \in Statuses
    BY <1>1, <2>1
  <2> QED BY <2>1, <2>4, <2>6, <2>7, <2>8, <2>9, CallStep
<1> QED BY <1>2, <1>3

LEMMA PlainArgumentStep == ASSUME IInv, PlainArgument PROVE IInv'
<1>1. /\ current \in 0..Len(functions) /\ status \in Statuses
      /\ pending \in Seq(Pending) /\ calls \in Seq(Call)
  BY Typed
<1>2. /\ pending # << >> => pending[Len(pending)].left > 0
      /\ pending' = ArgumentDone(pending)
      /\ UNCHANGED <<symtab, functions, current, calls, status>>
  BY DEF PlainArgument, Innermost
<1>3. /\ pending' \in Seq(Pending) /\ Len(pending') = Len(pending)
      /\ \A i \in 1..Len(pending) :
           /\ pending'[i].name = pending[i].name
           /\ pending'[i].args = pending[i].args
           /\ pending'[i].callee = pending[i].callee
      /\ \A i \in 1..(Len(pending) - 1) : pending'[i] = pending[i]
  BY <1>1, <1>2, OneArgumentLess
<1>4. ASSUME NEW i \in 1..Len(pending') PROVE Bound(pending'[i])
  <2>1. BoundIn(pending[i], symtab, functions)
    BY <1>3 DEF IInv, CallsBound, Bound
  <2> QED BY <1>3, <2>1 DEF Bound, BoundIn
<1>5. ASSUME NEW i \in 1..(Len(pending') - 1) PROVE pending'[i].left > 0
  BY <1>3 DEF IInv, Waiting
<1>6. \A i \in 1..Len(calls') : Bound(calls'[i])
  BY <1>2 DEF IInv, CallsBound
<1> QED BY <1>1, <1>2, <1>3, <1>4, <1>5, <1>6, CallStep

LEMMA EndCallStep == ASSUME IInv, EndCall PROVE IInv'
<1> DEFINE k == Len(pending)
           c == pending[k]
           d == [name |-> c.name, args |-> c.args, callee |-> c.callee]
           rest == SubSeq(pending, 1, k - 1)
<1>1. /\ current \in 0..Len(functions) /\ status \in Statuses
      /\ pending \in Seq(Pending) /\ calls \in Seq(Call)
  BY Typed
<1>2. /\ pending # << >> /\ calls' = Append(calls, d) /\ pending' = ArgumentDone(rest)
      /\ status' \in {"crashed", status} /\ UNCHANGED <<symtab, functions, current>>
  BY DEF EndCall, Innermost
<1>3. k \in Nat \ {0} /\ k \in 1..k
  <2>1. Len(pending) \in Nat /\ Len(pending) # 0
    BY <1>1, <1>2, LenProperties, EmptySeq
  <2> QED BY <2>1
<1>4. c \in Pending /\ BoundIn(c, symtab, functions)
  <2>1. c \in Pending
    BY <1>1, <1>3, ElementOfSeq
  <2> QED BY <1>3, <2>1 DEF IInv, CallsBound, Bound
<1>5. d \in Call /\ BoundIn(d, symtab, functions)
  BY <1>4 DEF Pending, Call, BoundIn
<1>6. /\ rest \in Seq(Pending) /\ Len(rest) = k - 1
      /\ \A i \in 1..(k - 1) : rest[i] = pending[i]
  BY <1>1, <1>2, FrontOf
<1> HIDE DEF rest, d, c
<1>7. rest # << >> => rest[Len(rest)].left > 0
  <2> SUFFICES ASSUME rest # << >> PROVE rest[Len(rest)].left > 0
    OBVIOUS
  <2>1. Len(rest) # 0
    BY <1>6, EmptySeq
  <2>2. k - 1 \in 1..(k - 1)
    BY <1>3, <1>6, <2>1
  <2>3. pending[k - 1].left > 0
    BY <2>2 DEF IInv, Waiting
  <2> QED BY <1>6, <2>2, <2>3
<1>8. /\ pending' \in Seq(Pending) /\ Len(pending') = k - 1
      /\ \A i \in 1..(k - 1) :
           /\ pending'[i].name = rest[i].name
           /\ pending'[i].args = rest[i].args
           /\ pending'[i].callee = rest[i].callee
      /\ \A i \in 1..(k - 1 - 1) : pending'[i] = rest[i]
  BY <1>2, <1>6, <1>7, OneArgumentLess
<1>9. ASSUME NEW i \in 1..Len(pending') PROVE Bound(pending'[i])
  <2>1. i \in 1..(k - 1) /\ i \in 1..k
    BY <1>3, <1>8
  <2>2. BoundIn(pending[i], symtab, functions)
    BY <2>1 DEF IInv, CallsBound, Bound
  <2>3. /\ pending'[i].name = pending[i].name /\ pending'[i].args = pending[i].args
        /\ pending'[i].callee = pending[i].callee
    BY <1>6, <1>8, <2>1
  <2> QED BY <2>2, <2>3 DEF Bound, BoundIn
<1>10. ASSUME NEW i \in 1..(Len(pending') - 1) PROVE pending'[i].left > 0
  <2>1. i \in 1..(k - 1 - 1) /\ i \in 1..(k - 1)
    BY <1>3, <1>8
  <2> QED BY <1>6, <1>8, <2>1 DEF IInv, Waiting
<1>11. /\ calls' \in Seq(Call) /\ Len(calls') = Len(calls) + 1
       /\ \A i \in 1..Len(calls) : calls'[i] = calls[i]
       /\ calls'[Len(calls) + 1] = d
  BY <1>1, <1>2, <1>5, AppendProperties
<1>12. Len(calls) \in Nat
  BY <1>1, LenProperties
<1>13. ASSUME NEW i \in 1..Len(calls') PROVE Bound(calls'[i])
  <2>1. i \in 1..Len(calls) \/ i = Len(calls) + 1
    BY <1>11, <1>12
  <2>2. i \in 1..Len(calls) => BoundIn(calls[i], symtab, functions)
    BY DEF IInv, CallsBound, Bound
  <2> QED BY <1>5, <1>11, <2>1, <2>2 DEF Bound
<1>14. status' \in Statuses /\ current' \in 0..Len(functions)
  BY <1>1, <1>2 DEF Statuses
<1> QED BY <1>2, <1>8, <1>9, <1>10, <1>11, <1>13, <1>14, CallStep

LEMMA StepIInv == IInv /\ [Next]_vars => IInv'
<1> SUFFICES ASSUME IInv, [Next]_vars PROVE IInv'
  OBVIOUS
<1>0. /\ current \in 0..Len(functions) /\ status \in Statuses /\ 0 \in 0..Len(functions)
      /\ pending \in Seq(Pending) /\ calls \in Seq(Call) /\ functions \in Seq(Function)
  <2>1. Len(functions) \in Nat
    BY Typed, LenProperties
  <2> QED BY <2>1, Typed
\* A step that leaves calls and pending as they are.
<1>1. ASSUME UNCHANGED <<symtab, functions, pending, calls>>,
             current' \in 0..Len(functions), status' \in Statuses
      PROVE  IInv'
  <2>1. \A i \in 1..Len(pending') : Bound(pending'[i])
    BY <1>1 DEF IInv, CallsBound
  <2>2. \A i \in 1..Len(calls') : Bound(calls'[i])
    BY <1>1 DEF IInv, CallsBound
  <2>3. \A i \in 1..(Len(pending') - 1) : pending'[i].left > 0
    BY <1>1 DEF IInv, Waiting
  <2> QED BY <1>0, <1>1, <2>1, <2>2, <2>3, CallStep
<1>2. ASSUME NEW x \in FuncName, NEW n \in Arities, BeginFunc(x, n) PROVE IInv'
  <2>1. CASE LogError("redefined function")
    BY <1>0, <1>1, <2>1 DEF LogError, Statuses
  <2>2. CASE ~IsFunction(x) /\ NewFunction(x, n)
    BY <2>2, NewFunctionStep
  <2> QED BY <1>2, <2>1, <2>2 DEF BeginFunc
<1>3. ASSUME NEW x \in VarName, DefineGlobal(x) PROVE IInv'
  <2>1. CASE LogError("redefined global")
    BY <1>0, <1>1, <2>1 DEF LogError, Statuses
  <2>2. CASE ~LogError("redefined global")
    <3>1. /\ symtab' = Entered(x, "variable", 0) /\ status' \in {"crashed", status}
          /\ UNCHANGED <<functions, current, pending, calls>>
      BY <1>3, <2>2 DEF DefineGlobal
    <3>2. status' \in Statuses
      BY <1>0, <3>1 DEF Statuses
    <3> QED BY <3>1, <3>2, DefineGlobalStep
  <2> QED BY <2>1, <2>2
<1>4. CASE EndFunc
  BY <1>0, <1>1, <1>4 DEF EndFunc
<1>5. CASE UNCHANGED vars
  BY <1>0, <1>1, <1>5 DEF vars
<1> QED BY <1>2, <1>3, <1>4, <1>5, BeginCallStep, PlainArgumentStep, EndCallStep
    DEF Next, Exited

LEMMA Invariance == Spec => []IInv
<1>1. Init => IInv
  BY InitIInv
<1>2. IInv /\ [Next]_vars => IInv'
  BY StepIInv
<1> QED BY <1>1, <1>2, PTL DEF Spec

\* The symbol table, the functions and the calls keep their types, and every
\* callee is a function that was created (codeGenFunc, codeGenUnaryExp), for any
\* names, numbers of parameters and nesting of calls.
THEOREM TypeCorrect == Spec => []TypeOK
<1>1. IInv => TypeOK
  BY DEF IInv
<1> QED BY <1>1, Invariance, PTL

\* Whatever names a program uses for what, a call codeGenUnaryExp lets through
\* goes to the one function of that name and has as many arguments as it takes.
THEOREM CallsBind == Spec => []CallsBindToSource
BY Invariance, BoundToSource, PTL

-----------------------------------------------------------------------------
(* The refinement *)

Arity == [x \in FuncName |-> IF Declared(x) = {} THEN 0
                             ELSE functions[CHOOSE i \in Declared(x) : TRUE].arity + 1]
Called == [i \in 1..Len(calls) |-> [name |-> calls[i].name, args |-> calls[i].args]]
Asked(c) == [name |-> c.name, args |-> c.args, left |-> c.left]
Opened(stk) == [i \in 1..Len(stk) |-> Asked(stk[i])]
Open == Opened(pending)
Rejected == IF status \in {"running", "crashed"} THEN "no" ELSE status

LEMMA ArityOf ==
  ASSUME IInv, NEW x \in FuncName
  PROVE  /\ IsFunction(x) => Arity[x] = functions[symtab[x].index].arity + 1
                             /\ functions[symtab[x].index].arity \in Nat
         /\ ~IsFunction(x) /\ NamesApart => Declared(x) = {} /\ Arity[x] = 0
<1>1. x \in Name
  BY DEF Name
<1>2. CASE IsFunction(x)
  <2> DEFINE i == symtab[x].index
  <2>1. \A k : Written(k, x) <=> k = i
    BY <1>1, <1>2 DEF IInv, TableKnows
  <2>2. Declared(x) = {i}
    BY <2>1 DEF Declared, Written
  <2>3. functions[i] \in Function
    <3>1. functions \in Seq(Function) /\ i \in 1..Len(functions)
      BY <2>1, Typed DEF Written
    <3> QED BY <3>1, ElementOfSeq
  <2> HIDE DEF i
  <2>4. (CHOOSE k \in Declared(x) : TRUE) = i /\ Declared(x) # {}
    BY <2>2
  <2> QED BY <1>2, <2>3, <2>4 DEF Arity, Function, i
<1>3. CASE ~IsFunction(x) /\ NamesApart
  <2>1. symtab[x].kind \in {"none", "variable"}
    BY <1>1, <1>3, Typed DEF Symbol, IsFunction
  <2>2. Declared(x) = {}
    <3>1. CASE symtab[x].kind = "variable"
      BY <1>1, <1>3, <3>1 DEF NamesApart, IsVariable
    <3>2. CASE symtab[x].kind = "none"
      BY <1>1, <3>2 DEF IInv, TableKnows, Written, Declared
    <3> QED BY <2>1, <3>1, <3>2
  <2>3. Arity[x] = 0
    BY <2>2 DEF Arity
  <2> QED BY <1>3, <2>2, <2>3
<1> QED BY <1>2, <1>3

LEMMA RefinesInit == Init => Table!Init
<1> SUFFICES ASSUME Init PROVE Table!Init
  OBVIOUS
<1>1. /\ functions = StandardLibrary /\ Len(functions) = 12 /\ Len(calls) = 0 /\ calls = << >>
      /\ status = "running"
  BY LibraryTyped DEF Init
<1> DEFINE Predefined == {StandardLibrary[i] : i \in 1..Len(StandardLibrary)}
<1>2. ASSUME NEW f \in FuncName
      PROVE  Arity[f] = IF \E p \in Predefined : p.written = f
                        THEN 1 + (CHOOSE p \in Predefined : p.written = f).arity ELSE 0
  <2>1. CASE \E i \in 1..12 : StandardLibrary[i].written = f
    <3>1. PICK i \in 1..12 : StandardLibrary[i].written = f
      BY <2>1
    <3>2. \A k \in 1..12 : StandardLibrary[k].written = f => k = i
      BY <3>1, LibraryNamesDiffer
    <3>3. Declared(f) = {i}
      BY <1>1, <3>1, <3>2 DEF Declared
    <3>4. (CHOOSE k \in Declared(f) : TRUE) = i /\ Declared(f) # {}
      BY <3>3
    <3>5. Arity[f] = StandardLibrary[i].arity + 1
      BY <1>1, <3>4 DEF Arity
    <3>6. \A p \in Predefined : p.written = f <=> p = StandardLibrary[i]
      BY <1>1, <3>1, <3>2
    <3>7. StandardLibrary[i] \in Predefined
      BY <1>1
    <3>8. StandardLibrary[i].arity \in Nat
      <4>1. StandardLibrary[i] \in Function
        BY LibraryTyped, ElementOfSeq
      <4> QED BY <4>1 DEF Function
    <3> HIDE DEF Predefined
    <3>9. (CHOOSE p \in Predefined : p.written = f) = StandardLibrary[i]
      BY <3>6, <3>7
    <3>10. \E p \in Predefined : p.written = f
      BY <3>1, <3>7
    <3> DEFINE q == CHOOSE p \in Predefined : p.written = f
    <3>11. q = StandardLibrary[i]
      BY <3>9
    <3> HIDE DEF q
    <3>12. 1 + q.arity = Arity[f]
      BY <3>5, <3>8, <3>11
    <3>13. 1 + (CHOOSE p \in Predefined : p.written = f).arity = Arity[f]
      BY <3>12 DEF q
    <3> QED BY <3>10, <3>13, Zenon
  <2>2. CASE \A i \in 1..12 : StandardLibrary[i].written # f
    BY <1>1, <2>2 DEF Declared, Arity
  <2> QED BY <2>1, <2>2
<1> HIDE DEF Predefined
<1>3. Arity = [f \in FuncName |->
                 IF \E p \in Predefined : p.written = f
                 THEN 1 + (CHOOSE p \in Predefined : p.written = f).arity ELSE 0]
  <2>1. Arity = [f \in FuncName |-> Arity[f]]
    BY DEF Arity
  <2> QED BY <1>2, <2>1
<1>4. Called = << >>
  BY <1>1 DEF Called
<1>5. Rejected = "no"
  BY <1>1 DEF Rejected
<1>6. Open = << >>
  BY DEF Init, Open, Opened
<1> QED BY <1>3, <1>4, <1>5, <1>6
        DEF Table!Init, Arity, Open, Opened, Asked, Called, Rejected, Predefined

\* FunctionTable sees of the calls begun all but their callees.
OpenCall == [name : Name, args : Nat, left : Nat]

LEMMA SameLength ==
  ASSUME NEW a \in Nat, NEW b \in Nat, 1..a = 1..b
  PROVE  a = b
<1>1. a \in 1..a \/ a = 0
  OBVIOUS
<1>2. b \in 1..b \/ b = 0
  OBVIOUS
<1> QED BY <1>1, <1>2

LEMMA OpenedTyped ==
  ASSUME NEW stk \in Seq(Pending)
  PROVE  /\ Opened(stk) \in Seq(OpenCall) /\ Len(Opened(stk)) = Len(stk)
         /\ \A i \in 1..Len(stk) : Opened(stk)[i] = Asked(stk[i])
         /\ Opened(stk) = << >> <=> stk = << >>
<1> DEFINE k == Len(stk)
<1>1. k \in Nat
  BY LenProperties
<1>2. \A i \in 1..k : Asked(stk[i]) \in OpenCall
  <2>1. \A i \in 1..k : stk[i] \in Pending
    BY ElementOfSeq
  <2> QED BY <2>1 DEF Pending, OpenCall, Asked
<1> HIDE DEF k
<1>3. Opened(stk) = [i \in 1..k |-> Asked(stk[i])]
  BY DEF Opened, k
<1>4. Opened(stk) \in [1..k -> OpenCall]
  BY <1>2, <1>3
<1>5. Opened(stk) \in Seq(OpenCall) /\ Len(Opened(stk)) = k
  <2>1. Opened(stk) \in Seq(OpenCall)
    BY <1>1, <1>4, SeqDef
  <2>2. Len(Opened(stk)) \in Nat /\ DOMAIN Opened(stk) = 1..Len(Opened(stk))
    BY <2>1, LenProperties
  <2>3. DOMAIN Opened(stk) = 1..k
    BY <1>3
  <2> QED BY <1>1, <2>1, <2>2, <2>3, SameLength
<1>6. Opened(stk) = << >> <=> stk = << >>
  BY <1>5, EmptySeq DEF k
<1> QED BY <1>3, <1>5, <1>6 DEF k

LEMMA OpenedAppend ==
  ASSUME NEW stk \in Seq(Pending), NEW c \in Pending
  PROVE  Opened(Append(stk, c)) = Append(Opened(stk), Asked(c))
<1> DEFINE k == Len(stk)
           left == Opened(Append(stk, c))
           right == Append(Opened(stk), Asked(c))
<1>1. Asked(c) \in OpenCall
  BY DEF Pending, OpenCall, Asked
<1>2. /\ k \in Nat /\ Opened(stk) \in Seq(OpenCall) /\ Len(Opened(stk)) = k
      /\ \A i \in 1..k : Opened(stk)[i] = Asked(stk[i])
  BY OpenedTyped, LenProperties
<1>3. /\ Append(stk, c) \in Seq(Pending) /\ Len(Append(stk, c)) = k + 1
      /\ \A i \in 1..k : Append(stk, c)[i] = stk[i]
      /\ Append(stk, c)[k + 1] = c
  BY AppendProperties
<1>4. /\ left \in Seq(OpenCall) /\ Len(left) = k + 1
      /\ \A i \in 1..(k + 1) : left[i] = Asked(Append(stk, c)[i])
  BY <1>3, OpenedTyped
<1> HIDE DEF k, left
<1>5. /\ right \in Seq(OpenCall) /\ Len(right) = k + 1
      /\ \A i \in 1..k : right[i] = Opened(stk)[i]
      /\ right[k + 1] = Asked(c)
  BY <1>1, <1>2, AppendProperties
<1> HIDE DEF right
<1>6. \A i \in 1..(k + 1) : left[i] = right[i]
  <2> SUFFICES ASSUME NEW i \in 1..(k + 1) PROVE left[i] = right[i]
    OBVIOUS
  <2>1. i \in 1..k \/ i = k + 1
    BY <1>2
  <2> QED BY <1>2, <1>3, <1>4, <1>5, <2>1
<1>7. left = right
  BY <1>4, <1>5, <1>6, SeqEqual
<1> QED BY <1>7 DEF left, right

LEMMA OpenedFront ==
  ASSUME NEW stk \in Seq(Pending), stk # << >>
  PROVE  Opened(SubSeq(stk, 1, Len(stk) - 1)) = SubSeq(Opened(stk), 1, Len(Opened(stk)) - 1)
<1> DEFINE k == Len(stk)
           front == SubSeq(stk, 1, Len(stk) - 1)
           left == Opened(front)
           right == SubSeq(Opened(stk), 1, Len(Opened(stk)) - 1)
<1>1. /\ k \in Nat /\ Opened(stk) \in Seq(OpenCall) /\ Len(Opened(stk)) = k
      /\ Opened(stk) # << >> /\ \A i \in 1..k : Opened(stk)[i] = Asked(stk[i])
  BY OpenedTyped, LenProperties
<1>2. /\ front \in Seq(Pending) /\ Len(front) = k - 1
      /\ \A i \in 1..(k - 1) : front[i] = stk[i]
  BY FrontOf
<1> HIDE DEF front
<1>3. /\ left \in Seq(OpenCall) /\ Len(left) = k - 1
      /\ \A i \in 1..(k - 1) : left[i] = Asked(front[i])
  BY <1>2, OpenedTyped
<1>4. /\ right \in Seq(OpenCall) /\ Len(right) = k - 1
      /\ \A i \in 1..(k - 1) : right[i] = Opened(stk)[i]
  BY <1>1, FrontOf
<1> HIDE DEF k, left, right
<1>5. \A i \in 1..(k - 1) : i \in 1..k
  BY <1>1
<1>6. \A i \in 1..(k - 1) : left[i] = right[i]
  BY <1>1, <1>2, <1>3, <1>4, <1>5
<1>7. left = right
  BY <1>3, <1>4, <1>6, SeqEqual
<1> QED BY <1>7 DEF left, right, front

LEMMA OpenedDone ==
  ASSUME NEW stk \in Seq(Pending), stk # << >> => stk[Len(stk)].left > 0
  PROVE  Opened(ArgumentDone(stk)) = Table!Supplied(Opened(stk))
<1>1. CASE stk = << >>
  BY <1>1, OpenedTyped DEF ArgumentDone, Table!Supplied
<1>2. CASE stk # << >>
  <2> DEFINE k == Len(stk)
             p == [name |-> stk[k].name, args |-> stk[k].args, callee |-> stk[k].callee,
                   left |-> stk[k].left - 1]
             q == [name |-> Opened(stk)[k].name, args |-> Opened(stk)[k].args,
                   left |-> Opened(stk)[k].left - 1]
             done == [stk EXCEPT ![k] = p]
             left == Opened(done)
             right == [Opened(stk) EXCEPT ![k] = q]
  <2>1. /\ k \in Nat /\ Opened(stk) \in Seq(OpenCall) /\ Len(Opened(stk)) = k
        /\ Opened(stk) # << >> /\ \A i \in 1..k : Opened(stk)[i] = Asked(stk[i])
    BY <1>2, OpenedTyped, LenProperties
  <2>2. k \in 1..k
    <3>1. k # 0
      BY <1>2, EmptySeq
    <3> QED BY <2>1, <3>1
  <2>3. stk[k] \in Pending
    BY <2>2, ElementOfSeq
  <2>4. ArgumentDone(stk) = done /\ Table!Supplied(Opened(stk)) = right
    <3>1. ArgumentDone(stk) = done
      BY <1>2 DEF ArgumentDone
    <3>2. Table!Supplied(Opened(stk)) = right
      BY <2>1 DEF Table!Supplied
    <3> QED BY <3>1, <3>2
  <2>5. p \in Pending /\ q \in OpenCall /\ Asked(p) = q
    <3>1. p \in Pending
      BY <1>2, <2>3 DEF Pending
    <3>2. q = [name |-> stk[k].name, args |-> stk[k].args, left |-> stk[k].left - 1]
      <4>1. Opened(stk)[k] = Asked(stk[k])
        BY <2>1, <2>2
      <4> HIDE DEF k
      <4> QED BY <4>1 DEF Asked
    <3>3. q \in OpenCall
      BY <1>2, <2>3, <3>2 DEF Pending, OpenCall
    <3> QED BY <3>1, <3>2, <3>3 DEF Asked
  <2> HIDE DEF p, q
  <2>6. /\ done \in Seq(Pending) /\ Len(done) = k
        /\ \A i \in 1..k : done[i] = IF i = k THEN p ELSE stk[i]
    BY <2>2, <2>5, ExceptSeq
  <2>7. /\ right \in Seq(OpenCall) /\ Len(right) = k
        /\ \A i \in 1..k : right[i] = IF i = k THEN q ELSE Opened(stk)[i]
    BY <2>1, <2>2, <2>5, ExceptSeq
  <2> HIDE DEF done, right
  <2>8. /\ left \in Seq(OpenCall) /\ Len(left) = k
        /\ \A i \in 1..k : left[i] = Asked(done[i])
    BY <2>6, OpenedTyped
  <2> HIDE DEF left
  <2>9. \A i \in 1..k : left[i] = right[i]
    BY <2>1, <2>5, <2>6, <2>7, <2>8
  <2>10. left = right
    BY <2>7, <2>8, <2>9, SeqEqual
  <2> QED BY <2>4, <2>10 DEF left
<1> QED BY <1>1, <1>2

LEMMA OpenKept == ASSUME UNCHANGED pending PROVE Open' = Open
BY DEF Open, Opened, Asked

\* Whether an expression is expected, at its outermost or as an argument.
LEMMA Expected ==
  ASSUME IInv
  PROVE  /\ pending = << >> <=> Open = << >>
         /\ Table!InnermostLacks <=> pending # << >> /\ Innermost.left > 0
<1>1. pending \in Seq(Pending)
  BY Typed
<1>2. /\ Len(Open) = Len(pending) /\ (Open = << >> <=> pending = << >>)
      /\ \A i \in 1..Len(pending) : Open[i] = Asked(pending[i])
  BY <1>1, OpenedTyped DEF Open
<1>3. CASE pending = << >>
  BY <1>2, <1>3 DEF Table!InnermostLacks, Open, Opened, Asked
<1>4. CASE pending # << >>
  <2>1. Len(pending) \in 1..Len(pending)
    <3>1. Len(pending) \in Nat /\ Len(pending) # 0
      BY <1>1, <1>4, LenProperties, EmptySeq
    <3> QED BY <3>1
  <2>2. Open[Len(Open)].left = Innermost.left
    <3>1. Open[Len(Open)] = Asked(Innermost)
      BY <1>2, <2>1 DEF Innermost
    <3> QED BY <3>1 DEF Asked
  <2>3. Table!InnermostLacks <=> Open # << >> /\ Open[Len(Open)].left > 0
    BY DEF Table!InnermostLacks, Open, Opened, Asked
  <2> QED BY <1>2, <1>4, <2>2, <2>3
<1> QED BY <1>2, <1>3, <1>4

LEMMA RefinesNewFunction ==
  ASSUME IInv, NamesApart, NEW x \in FuncName, NEW n \in Arities, ~IsFunction(x),
         NewFunction(x, n), pending = << >>
  PROVE  Table!Declare(x, n)
<1> DEFINE m == Len(functions) + 1
           f == [written |-> x, arity |-> n]
<1>1. f \in Function /\ n \in Nat /\ f.written = x /\ f.arity = n
  BY AritiesAssumption DEF Function, Name
<1>2. functions \in Seq(Function) /\ functions' = Append(functions, f) /\ UNCHANGED <<calls, status>>
  BY Typed DEF NewFunction
<1> HIDE DEF f
<1>3. /\ Len(functions') = m /\ functions'[m] = f
      /\ \A i \in 1..Len(functions) : functions'[i] = functions[i]
  BY <1>1, <1>2, AppendProperties
<1>4. Len(functions) \in Nat
  BY <1>2, LenProperties
<1>5. Arity[x] = 0 /\ Declared(x) = {}
  BY ArityOf
<1>6. \A i : i \in 1..m <=> i \in 1..Len(functions) \/ i = m
  BY <1>4
<1>7. m \notin 1..Len(functions)
  BY <1>4
<1> HIDE DEF m
<1>8. Declared(x)' = {m}
  BY <1>1, <1>3, <1>5, <1>6 DEF Declared
<1>9. Arity'[x] = n + 1
  <2>1. (CHOOSE i \in Declared(x)' : TRUE) = m /\ Declared(x)' # {}
    BY <1>8
  <2> QED BY <1>1, <1>3, <2>1 DEF Arity
<1>10. ASSUME NEW y \in FuncName \ {x} PROVE Arity'[y] = Arity[y]
  <2>1. Declared(y)' = Declared(y)
    BY <1>1, <1>3, <1>6 DEF Declared
  <2>2. CASE Declared(y) = {}
    BY <2>1, <2>2 DEF Arity
  <2>3. CASE Declared(y) # {}
    <3> DEFINE i == CHOOSE i \in Declared(y) : TRUE
    <3>1. i \in 1..Len(functions)
      BY <2>3 DEF Declared
    <3>2. functions'[i] = functions[i]
      BY <1>3, <3>1
    <3> QED BY <2>1, <2>3, <3>2 DEF Arity
  <2> QED BY <2>2, <2>3
<1>11. Arity' = [Arity EXCEPT ![x] = n + 1]
  <2>1. Arity' = [y \in FuncName |-> Arity'[y]] /\ Arity = [y \in FuncName |-> Arity[y]]
    BY DEF Arity
  <2>2. \A y \in FuncName : Arity'[y] = IF y = x THEN n + 1 ELSE Arity[y]
    BY <1>9, <1>10
  <2>3. [Arity EXCEPT ![x] = n + 1] = [y \in FuncName |-> IF y = x THEN n + 1 ELSE Arity[y]]
    BY <2>1, Zenon
  <2> QED BY <2>1, <2>2, <2>3
<1>12. UNCHANGED <<Called, Rejected>>
  BY <1>2 DEF Called, Rejected
<1>13. UNCHANGED Open /\ Open = << >>
  BY OpenKept, Expected DEF NewFunction
<1> QED BY <1>5, <1>11, <1>12, <1>13
        DEF Table!Declare, Arity, Open, Opened, Asked, Called, Rejected

LEMMA TableKept ==
  ASSUME UNCHANGED <<functions, calls>>
  PROVE  UNCHANGED <<Arity, Called>>
BY DEF Arity, Called, Declared

LEMMA RefinesEndCall ==
  ASSUME IInv, EndCall
  PROVE  Table!Call
<1> DEFINE c == pending[Len(pending)]
           d == [name |-> c.name, args |-> c.args, callee |-> c.callee]
           e == [name |-> c.name, args |-> c.args]
           P == [name : Name, args : Nat]
<1>1. /\ pending # << >> /\ calls' = Append(calls, d)
      /\ status' \in {"crashed", status} /\ UNCHANGED functions /\ Running
      /\ Innermost.left = 0
      /\ pending' = ArgumentDone(SubSeq(pending, 1, Len(pending) - 1))
  BY DEF EndCall, Innermost
<1>2. pending \in Seq(Pending) /\ calls \in Seq(Call)
  BY Typed
<1>3. Len(pending) \in 1..Len(pending)
  <2>1. Len(pending) \in Nat /\ Len(pending) # 0
    BY <1>1, <1>2, LenProperties, EmptySeq
  <2> QED BY <2>1
<1>4. c \in Pending /\ BoundIn(c, symtab, functions)
  <2>1. c \in Pending
    BY <1>2, <1>3, ElementOfSeq
  <2> QED BY <1>3, <2>1 DEF IInv, CallsBound, Bound
<1>5. d \in Call /\ e \in P /\ d.name = e.name /\ d.args = e.args
  BY <1>4 DEF Pending, Call
<1> HIDE DEF c
<1>6. c.name \in FuncName /\ c.args \in Arities /\ Arity[c.name] = c.args + 1
  BY <1>4, ArityOf DEF BoundIn, IsFunction
<1>7. Called' = Append(Called, e)
  <2> DEFINE k == Len(calls)
  <2>1. k \in Nat
    BY <1>2, LenProperties
  <2>2. ASSUME NEW i \in 1..k PROVE [name |-> calls[i].name, args |-> calls[i].args] \in P
    <3>1. calls[i] \in Call
      BY <1>2, ElementOfSeq
    <3> QED BY <3>1 DEF Call
  <2> HIDE DEF d, e, P
  <2>3. /\ Len(calls') = k + 1 /\ calls'[k + 1] = d
        /\ \A i \in 1..k : calls'[i] = calls[i]
    BY <1>1, <1>2, <1>5, AppendProperties
  <2> HIDE DEF k
  <2>4. Called = [i \in 1..k |-> [name |-> calls[i].name, args |-> calls[i].args]]
    BY DEF Called, k
  <2>5. Called \in [1..k -> P]
    BY <2>2, <2>4
  <2>6. Called \in Seq(P) /\ Len(Called) = k
    <3>1. Called \in Seq(P)
      BY <2>1, <2>5, SeqDef
    <3>2. Len(Called) \in Nat /\ DOMAIN Called = 1..Len(Called)
      BY <3>1, LenProperties
    <3>3. DOMAIN Called = 1..k
      BY <2>4
    <3> QED BY <2>1, <3>1, <3>2, <3>3, SameLength
  <2>7. /\ Append(Called, e) \in Seq(P) /\ Len(Append(Called, e)) = k + 1
        /\ \A i \in 1..k : Append(Called, e)[i] = Called[i]
        /\ Append(Called, e)[k + 1] = e
    BY <1>5, <2>6, AppendProperties
  <2>8. Called' = [i \in 1..(k + 1) |-> [name |-> calls'[i].name, args |-> calls'[i].args]]
    BY <2>3 DEF Called
  <2>9. \A i \in 1..(k + 1) : Called'[i] = Append(Called, e)[i]
    <3> SUFFICES ASSUME NEW i \in 1..(k + 1) PROVE Called'[i] = Append(Called, e)[i]
      OBVIOUS
    <3>1. i \in 1..k \/ i = k + 1
      BY <2>1
    <3>2. CASE i \in 1..k
      BY <2>3, <2>4, <2>7, <2>8, <3>2
    <3>3. CASE i = k + 1
      BY <2>3, <2>7, <2>8, <3>3 DEF d, e
    <3> QED BY <3>1, <3>2, <3>3
  <2>10. DOMAIN Append(Called, e) = 1..(k + 1)
    BY <2>7, LenProperties
  <2>11. Append(Called, e) = [i \in 1..(k + 1) |-> Append(Called, e)[i]]
    <3>1. Append(Called, e) \in [1..(k + 1) -> P]
      BY <2>7, LenProperties
    <3> QED BY <3>1
  <2> QED BY <2>8, <2>9, <2>11
<1>8. Arity' = Arity
  BY <1>1 DEF Arity, Declared
<1>9. Rejected' = Rejected
  BY <1>1 DEF Running, Rejected
<1>10. Open # << >> /\ ~Table!InnermostLacks
  BY <1>1, Expected
<1>11. e = [name |-> Open[Len(Open)].name, args |-> Open[Len(Open)].args]
  <2>1. Len(Open) = Len(pending) /\ Open[Len(pending)] = Asked(pending[Len(pending)])
    BY <1>2, <1>3, OpenedTyped DEF Open
  <2> QED BY <2>1 DEF Asked, c, e
<1>12. Open' = Table!Supplied(SubSeq(Open, 1, Len(Open) - 1))
  <2> DEFINE front == SubSeq(pending, 1, Len(pending) - 1)
  <2>1. front \in Seq(Pending) /\ Len(front) = Len(pending) - 1
        /\ \A i \in 1..(Len(pending) - 1) : front[i] = pending[i]
    BY <1>1, <1>2, FrontOf
  <2>2. Opened(front) = SubSeq(Open, 1, Len(Open) - 1)
    BY <1>1, <1>2, OpenedFront DEF Open
  <2> HIDE DEF front
  <2>3. front # << >> => front[Len(front)].left > 0
    <3> SUFFICES ASSUME front # << >> PROVE front[Len(front)].left > 0
      OBVIOUS
    <3>1. Len(front) \in Nat /\ Len(front) # 0
      BY <2>1, LenProperties, EmptySeq
    <3>2. Len(front) \in 1..(Len(pending) - 1)
      BY <2>1, <3>1
    <3>3. pending[Len(front)].left > 0
      BY <3>2 DEF IInv, Waiting
    <3> QED BY <2>1, <3>2, <3>3
  <2>4. Opened(ArgumentDone(front)) = Table!Supplied(Opened(front))
    BY <2>1, <2>3, OpenedDone
  <2>5. Open' = Opened(ArgumentDone(front))
    BY <1>1 DEF Open, Opened, Asked, front
  <2> QED BY <2>2, <2>4, <2>5
<1> QED BY <1>7, <1>8, <1>9, <1>10, <1>11, <1>12
        DEF Table!Call, Arity, Called, Rejected, Open, Opened, Asked

\* 0 stands for a name not declared, 1 + n for n parameters.
LEMMA ArityCode ==
  ASSUME NEW a \in Nat, NEW n \in Nat
  PROVE  a + 1 \in Nat \ {0} /\ (n # a => a + 1 \notin {0, n + 1})
OBVIOUS

LEMMA ArityAgrees ==
  ASSUME IInv, NamesApart, NEW x \in FuncName, NEW n \in Arities
  PROVE  /\ IsFunction(x) => Arity[x] \in Nat \ {0}
         /\ ~IsFunction(x) => Arity[x] = 0
         /\ IsFunction(x) /\ ~ArgumentsAgree(x, n) => Arity[x] \notin {0, n + 1}
         /\ IsFunction(x) /\ ArgumentsAgree(x, n) => Arity[x] = n + 1
<1>1. n \in Nat
  BY AritiesAssumption
<1> DEFINE a == functions[symtab[x].index].arity
<1>2. ArgumentsAgree(x, n) <=> n = a
  BY DEF ArgumentsAgree
<1>3. IsFunction(x) => Arity[x] = a + 1 /\ a \in Nat
  BY ArityOf
<1>4. ~IsFunction(x) => Arity[x] = 0
  BY ArityOf
<1> HIDE DEF a
<1>5. CASE IsFunction(x)
  <2>1. Arity[x] = a + 1 /\ a \in Nat
    BY <1>3, <1>5
  <2>2. Arity[x] \in Nat \ {0} /\ (n # a => Arity[x] \notin {0, n + 1})
    <3>1. a + 1 \in Nat \ {0} /\ (n # a => a + 1 \notin {0, n + 1})
      BY <1>1, <2>1, ArityCode
    <3> QED BY <2>1, <3>1, Zenon
  <2> QED BY <1>2, <1>5, <2>1, <2>2, Zenon
<1>6. CASE ~IsFunction(x)
  BY <1>4, <1>6
<1> QED BY <1>5, <1>6

LEMMA RefinesLogError ==
  ASSUME NEW why \in {"redefined function", "redefined global", "unknown function",
                      "arguments number"},
         LogError(why)
  PROVE  Rejected' = why /\ UNCHANGED <<Arity, Open, Called>>
<1>1. UNCHANGED <<functions, calls, pending>> /\ status' = why
  BY DEF LogError
<1> QED BY <1>1, TableKept, OpenKept DEF Rejected

LEMMA RefinesBeginFunc ==
  ASSUME IInv, NamesApart, NEW x \in FuncName, NEW n \in Arities, BeginFunc(x, n)
  PROVE  Table!DeclareAgain(x) \/ Table!Declare(x, n)
<1>1. Open = << >>
  BY Expected DEF BeginFunc, AtFileScope, Between
<1>2. CASE IsFunction(x)
  <2>1. Rejected' = "redefined function" /\ UNCHANGED <<Arity, Open, Called>>
    BY <1>2, RefinesLogError DEF BeginFunc
  <2>2. Arity[x] # 0
    BY <1>2, ArityAgrees
  <2> QED BY <1>1, <2>1, <2>2
          DEF Table!DeclareAgain, Table!Reject, Arity, Open, Opened, Asked, Called, Rejected
<1>3. CASE ~IsFunction(x)
  BY <1>3, RefinesNewFunction DEF BeginFunc, AtFileScope, Between
<1> QED BY <1>2, <1>3

LEMMA RefinesBeginCall ==
  ASSUME IInv, NamesApart, NEW x \in FuncName, NEW n \in Arities, BeginCall(x, n)
  PROVE  Table!Begin(x, n)
<1>1. Open = << >> \/ Table!InnermostLacks
  BY Expected DEF BeginCall
<1>2. CASE ~IsFunction(x)
  <2>1. Rejected' = "unknown function" /\ UNCHANGED <<Arity, Open, Called>>
    BY <1>2, RefinesLogError DEF BeginCall
  <2>2. Arity[x] = 0
    BY <1>2, ArityAgrees
  <2> QED BY <1>1, <2>1, <2>2
          DEF Table!Begin, Table!Reject, Arity, Open, Opened, Asked, Called, Rejected
<1>3. CASE IsFunction(x) /\ ~ArgumentsAgree(x, n)
  <2>1. Rejected' = "arguments number" /\ UNCHANGED <<Arity, Open, Called>>
    BY <1>3, RefinesLogError DEF BeginCall
  <2>2. Arity[x] \notin {0, n + 1}
    BY <1>3, ArityAgrees
  <2> QED BY <1>1, <2>1, <2>2
          DEF Table!Begin, Table!Reject, Arity, Open, Opened, Asked, Called, Rejected
<1>4. CASE IsFunction(x) /\ ArgumentsAgree(x, n)
  <2> DEFINE c == [name |-> x, args |-> n, callee |-> symtab[x].index, left |-> n]
  <2>1. /\ pending' = Append(pending, c)
        /\ UNCHANGED <<symtab, functions, current, calls, status>>
    BY <1>4 DEF BeginCall
  <2>2. x \in Name /\ symtab[x].index \in 1..Len(functions)
    BY <1>4 DEF IInv, TypeOK, Name
  <2>3. c \in Pending /\ Asked(c) = [name |-> x, args |-> n, left |-> n]
    BY <2>2, AritiesAssumption DEF Pending, Asked
  <2> HIDE DEF c
  <2>4. Open' = Append(Open, Asked(c))
    <3>1. Opened(Append(pending, c)) = Append(Opened(pending), Asked(c))
      BY <2>3, Typed, OpenedAppend
    <3>2. Open' = Opened(Append(pending, c))
      BY <2>1 DEF Open, Opened, Asked
    <3> QED BY <3>1, <3>2 DEF Open
  <2>5. UNCHANGED <<Arity, Called>> /\ Rejected' = Rejected
    BY <2>1, TableKept DEF Rejected
  <2>6. Arity[x] = n + 1
    BY <1>4, ArityAgrees
  <2> QED BY <1>1, <2>3, <2>4, <2>5, <2>6
          DEF Table!Begin, Arity, Open, Opened, Asked, Called, Rejected
<1> QED BY <1>2, <1>3, <1>4

LEMMA RefinesPlainArgument ==
  ASSUME IInv, PlainArgument
  PROVE  Table!Argument
<1>1. /\ pending # << >> /\ Innermost.left > 0 /\ pending' = ArgumentDone(pending)
      /\ UNCHANGED <<functions, calls, status>>
  BY DEF PlainArgument
<1>2. Open' = Table!Supplied(Open)
  <2>1. Opened(ArgumentDone(pending)) = Table!Supplied(Opened(pending))
    BY <1>1, Typed, OpenedDone DEF Innermost
  <2>2. Open' = Opened(ArgumentDone(pending))
    BY <1>1 DEF Open, Opened, Asked
  <2> QED BY <2>1, <2>2 DEF Open
<1>3. Table!InnermostLacks
  BY <1>1, Expected
<1>4. UNCHANGED <<Arity, Called>> /\ Rejected' = Rejected
  BY <1>1, TableKept DEF Rejected
<1> QED BY <1>2, <1>3, <1>4 DEF Table!Argument, Arity, Open, Opened, Asked, Called, Rejected

LEMMA RefinesDefineGlobal ==
  ASSUME IInv, NEW x \in VarName, DefineGlobal(x)
  PROVE  Table!RejectVariable \/ UNCHANGED <<Arity, Open, Called, Rejected>>
<1>1. Running /\ Open = << >> /\ UNCHANGED <<functions, calls, pending>>
  BY Expected DEF DefineGlobal, AtFileScope, Between, LogError
<1>2. CASE LogError("redefined global")
  <2>1. Rejected' = "redefined global" /\ UNCHANGED <<Arity, Open, Called>>
    BY <1>2, RefinesLogError
  <2> QED BY <1>1, <2>1
          DEF Table!RejectVariable, Table!Reject, Arity, Open, Opened, Asked, Called, Rejected
<1>3. CASE ~LogError("redefined global")
  <2>1. status' \in {"crashed", status}
    BY <1>3 DEF DefineGlobal
  <2>2. Rejected' = Rejected
    BY <1>1, <2>1 DEF Running, Rejected
  <2> QED BY <1>1, <2>2, TableKept, OpenKept
<1> QED BY <1>2, <1>3

LEMMA RefinesNext ==
  IInv /\ [Next]_vars => (NamesApart => [Table!Next]_(Table!tableVars))
<1> SUFFICES ASSUME IInv, NamesApart, [Next]_vars
             PROVE  Table!Next \/ UNCHANGED Table!tableVars
  BY DEF Table!tableVars
<1>1. Running => Rejected = "no"
  BY DEF Running, Rejected
<1>2. UNCHANGED <<Arity, Open, Called, Rejected>> => UNCHANGED Table!tableVars
  BY DEF Table!tableVars, Arity, Open, Opened, Asked, Called, Rejected
<1>3. ASSUME NEW x \in FuncName, NEW n \in Arities, BeginFunc(x, n) PROVE Table!Next
  <2>1. Table!DeclareAgain(x) \/ Table!Declare(x, n)
    BY <1>3, RefinesBeginFunc
  <2>2. Rejected = "no"
    BY <1>1, <1>3 DEF BeginFunc, AtFileScope, Between
  <2> QED BY <2>1, <2>2 DEF Table!Next, Rejected
<1>4. ASSUME NEW x \in FuncName, NEW n \in Arities, BeginCall(x, n) PROVE Table!Next
  <2>1. Table!Begin(x, n)
    BY <1>4, RefinesBeginCall
  <2>2. Rejected = "no"
    BY <1>1, <1>4 DEF BeginCall
  <2> QED BY <2>1, <2>2 DEF Table!Next, Rejected
<1>5. ASSUME NEW x \in VarName, DefineGlobal(x)
      PROVE  Table!Next \/ UNCHANGED Table!tableVars
  <2>1. Table!RejectVariable \/ UNCHANGED <<Arity, Open, Called, Rejected>>
    BY <1>5, RefinesDefineGlobal
  <2>2. Rejected = "no"
    BY <1>1, <1>5 DEF DefineGlobal, AtFileScope, Between
  <2> QED BY <1>2, <2>1, <2>2 DEF Table!Next, Rejected
<1>6. CASE PlainArgument \/ EndCall
  <2>1. Table!Argument \/ Table!Call
    BY <1>6, RefinesPlainArgument, RefinesEndCall
  <2>2. Rejected = "no"
    BY <1>1, <1>6 DEF PlainArgument, EndCall
  <2> QED BY <2>1, <2>2 DEF Table!Next, Rejected
<1>7. CASE EndFunc \/ UNCHANGED vars
  <2>1. UNCHANGED <<functions, calls, pending, status>>
    BY <1>7 DEF EndFunc, vars
  <2> QED BY <1>2, <2>1, TableKept, OpenKept DEF Rejected
<1> QED BY <1>3, <1>4, <1>5, <1>6, <1>7 DEF Next, Exited

\* Until a name has been given to a variable and then to a function, LLVM's single
\* symbol table is a plain table of functions: codeGenFunc and codeGenUnaryExp let
\* through what FunctionTable lets through and reject what it rejects, and the calls
\* nested in arguments happen in FunctionTable's order.
THEOREM TableOfFunctions == Spec => ImplementsFunctionTable
<1>1. Init => Table!Init
  BY RefinesInit
<1>2. IInv /\ [Next]_vars => (NamesApart => [Table!Next]_(Table!tableVars))
  BY RefinesNext
<1>3. Spec => []IInv
  BY Invariance
<1>4. ASSUME IInv, [Next]_vars
      PROVE  [NamesApart => [Table!Next]_(Table!tableVars)]_vars
  BY <1>2, <1>4
<1> QED BY <1>1, <1>3, <1>4, PTL DEF Spec, ImplementsFunctionTable

=============================================================================
