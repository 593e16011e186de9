---------------------------- MODULE Initializers ----------------------------
(***************************************************************************)
(* Definitions of variables and arrays with their initial values:          *)
(* codeGenConstDef, codeGenVarDef and getInitVals (code_gen.cpp),          *)
(* defineValue, createDefineValueInst and defineGlobalValue (code_gen_ctx),*)
(* from what ASTBuilder::visitConstDef, visitVarDef and visitInitVal hand  *)
(* on.                                                                     *)
(*                                                                         *)
(* An expression is a number, the name of a variable or anything else that *)
(* needs an instruction (a call): what they differ in for a definition.    *)
(* const and var take the same way.  A function has one layer of names.    *)
(***************************************************************************)
EXTENDS Integers, Sequences

CONSTANTS
  Programs,   \* the sequences of definitions that may be compiled
  Names,      \* identifiers
  Functions,  \* functions with definitions of their own
  FileScope   \* where global variables are defined, no function

Expressions == [kind : {"number"}, n : Int, name : Names]
               \cup [kind : {"name", "call"}, n : {0}, name : Names]
NoExp == [kind |-> "none", n |-> 0, name |-> "none"]

\* scope is the function the definition is in.  size is NoExp for a scalar.  An
\* initial value is expressions or the characters of a string; no initial value
\* is no expressions.
Definitions ==
  [scope : Functions \cup {FileScope}, name : Names, size : Expressions \cup {NoExp},
   items : Seq(Expressions), chars : Seq(Int)]

ASSUME ScopesAssumption == FileScope \notin Functions

\* The definitions of a function are one behind the other.
ASSUME ProgramsAssumption ==
  \A p \in Programs :
    /\ p \in Seq(Definitions)
    /\ \A i, k \in 1..Len(p) : \A j \in i..k :
         p[i].scope = p[k].scope /\ p[i].scope # FileScope => p[j].scope = p[i].scope

VARIABLES
  program,  \* the definitions, in file order
  at,       \* the one being generated
  within,   \* the function whose body is being generated, or FileScope
  inserting, \* the function of the builder's insert block, FileScope if none
  size,     \* the int64_t of getInitVals, NoSize before it is known
  vals,     \* val_vec
  emitted,  \* instructions, in order
  locals,   \* names in the layers
  globals,  \* global variables with their initializers
  status    \* "generating", "done", "rejected" by LogError, or "crashed"

place == <<program, within, inserting, locals>>
vars == <<place, at, size, vals, emitted, globals, status>>

-----------------------------------------------------------------------------
(* Values *)

NoSize == 0  \* a size that is known is not zero

\* An llvm::Value that is a ConstantInt, or not: the result of an instruction,
\* or a constant array.
Const(n) == [kind |-> "const", n |-> n]
Reg(k) == [kind |-> "reg", n |-> k]
Aggregate == [kind |-> "aggregate", n |-> 0]
IsConstantInt(v) == v.kind = "const"

Def == program[at]
InDefinition == status = "generating" /\ at <= Len(program) /\ Def.scope = within

IsArray(d) == d.size # NoExp

\* getValue's search, local before global.
IsLocal(name) == name \in locals
IsGlobal(name) == name \in DOMAIN globals
Unknown(e) == e.kind = "name" /\ ~IsLocal(e.name) /\ ~IsGlobal(e.name)

\* At file scope a global's value is its initializer, in a function it is read.
NeedsInstruction(e) ==
  e.kind = "call" \/ (e.kind = "name" /\ within # FileScope)

\* An instruction with what it is for: the item-th expression of a definition (0
\* is the size), or, of a store, the element.  Only properties read def and item.
Instruction(op, item, name, local, val) ==
  [op |-> op, def |-> at, item |-> item, in |-> inserting, name |-> name, local |-> local, val |-> val]

\* codeGenExp.  The builder drops an instruction when it has no insert block.
Generated(e, item) ==
  IF NeedsInstruction(e) /\ inserting # FileScope
  THEN Append(emitted, Instruction(e.kind, item, e.name, IsLocal(e.name), Const(0)))
  ELSE emitted

ValueOf(e) ==
  IF e.kind = "number" THEN Const(e.n)
  ELSE IF NeedsInstruction(e) THEN Reg(Len(emitted) + 1)
  ELSE IF globals[e.name].array THEN Aggregate
  ELSE Const(globals[e.name].elements[1])

-----------------------------------------------------------------------------
(* Steps *)

Init ==
  /\ program \in Programs
  /\ at = 1 /\ within = FileScope /\ inserting = FileScope
  /\ size = NoSize /\ vals = << >> /\ emitted = << >>
  /\ locals = {} /\ globals = << >>
  /\ status = "generating"

\* codeGenFunc and codeGenBlock before and after the items of the body.  The
\* insert block stays when a function ends.
EnterFunction ==
  /\ status = "generating" /\ within = FileScope
  /\ at <= Len(program) /\ Def.scope # FileScope
  /\ within' = Def.scope /\ inserting' = Def.scope
  /\ UNCHANGED <<program, locals, at, size, vals, emitted, globals, status>>

LeaveFunction ==
  /\ status = "generating" /\ within # FileScope
  /\ at <= Len(program) => Def.scope # within
  /\ within' = FileScope /\ locals' = {}
  /\ UNCHANGED <<program, inserting, at, size, vals, emitted, globals, status>>

\* LogError exits, a null pointer that is dereferenced crashes.
Fail(how) ==
  /\ status' = how
  /\ UNCHANGED <<place, at, size, vals, globals>>

\* Mutant of ScalarSize: a local is in scope in its own initial value.
ScalarSize_Declares ==
  /\ InDefinition /\ size = NoSize /\ ~IsArray(Def)
  /\ size' = 1
  /\ locals' = IF within = FileScope THEN locals ELSE locals \cup {Def.name}
  /\ UNCHANGED <<program, within, inserting, at, vals, emitted, globals, status>>

\* getInitVals up to its loop: a scalar has one element.
ScalarSize ==
  /\ InDefinition /\ size = NoSize /\ ~IsArray(Def)
  /\ size' = 1
  /\ UNCHANGED <<place, at, vals, emitted, globals, status>>

\* The expression of the size is a ConstantInt, or dyn_cast yields nullptr.
ArraySize ==
  /\ InDefinition /\ size = NoSize /\ IsArray(Def) /\ ~Unknown(Def.size)
  /\ LET v == ValueOf(Def.size)
     IN  /\ emitted' = Generated(Def.size, 0)
         /\ \/ /\ IsConstantInt(v) /\ v.n # 0
               /\ size' = v.n
               /\ UNCHANGED <<place, at, vals, globals, status>>
            \/ IsConstantInt(v) /\ v.n = 0 /\ Fail("rejected")
            \/ ~IsConstantInt(v) /\ Fail("crashed")

\* Mutant of MoreElements: all of the list is evaluated.
MoreElements_AllItems ==
  InDefinition /\ size # NoSize /\ (Len(vals) < size \/ Len(vals) < Len(Def.items))

\* The loop of getInitVals.  exp_size is the larger of the two lengths.
MoreElements == InDefinition /\ size # NoSize /\ Len(vals) < size
ExpSize(d) == IF Len(d.items) > Len(d.chars) THEN Len(d.items) ELSE Len(d.chars)

AddElement(v) ==
  /\ vals' = Append(vals, v)
  /\ UNCHANGED <<place, at, size, globals, status>>

\* Mutant of AddZero: the loop goes on without an element.
AddZero_Skipped ==
  /\ MoreElements /\ Len(vals) >= ExpSize(Def)
  /\ UNCHANGED vars

AddZero ==
  /\ MoreElements /\ Len(vals) >= ExpSize(Def)
  /\ AddElement(Const(0))
  /\ UNCHANGED emitted

AddChar ==
  /\ MoreElements /\ Len(vals) < ExpSize(Def) /\ Def.items = << >>
  /\ AddElement(Const(Def.chars[Len(vals) + 1]))
  /\ UNCHANGED emitted

NextItem == Def.items[Len(vals) + 1]
AddExpression ==
  /\ MoreElements /\ Len(vals) < Len(Def.items) /\ ~Unknown(NextItem)
  /\ AddElement(ValueOf(NextItem))
  /\ emitted' = Generated(NextItem, Len(vals) + 1)

\* getGlobalValue of a name that is not defined.
UndefinedName ==
  /\ \/ InDefinition /\ size = NoSize /\ IsArray(Def) /\ Unknown(Def.size)
     \/ MoreElements /\ Len(vals) < Len(Def.items) /\ Unknown(NextItem)
  /\ Fail("rejected")
  /\ UNCHANGED emitted

Complete == InDefinition /\ size # NoSize /\ Len(vals) >= size

\* Mutant of NextDefinition: val_vec is used again.
NextDefinition_KeepsValues == at' = at + 1 /\ size' = NoSize /\ UNCHANGED <<vals, status>>

NextDefinition == at' = at + 1 /\ size' = NoSize /\ vals' = << >> /\ UNCHANGED status

\* Mutant of Stores: the first element is taken for initialized.
Stores_FromTheSecond ==
  [i \in 1..(Len(vals) - 1) |-> Instruction("store", i + 1, Def.name, TRUE, vals[i + 1])]

\* createDefineValueInst: one store for each value.
Stores == [i \in 1..Len(vals) |-> Instruction("store", i, Def.name, TRUE, vals[i])]

DefineLocal ==
  /\ Complete /\ within # FileScope /\ ~IsLocal(Def.name)
  /\ locals' = locals \cup {Def.name}
  /\ emitted' = emitted \o Stores
  /\ NextDefinition
  /\ UNCHANGED <<program, within, inserting, globals>>

\* Mutant of Initializable: what is not constant is taken for zero.
Initializable_Anything == TRUE

\* dyn_cast<ConstantInt> of every value
Initializable == \A i \in 1..Len(vals) : IsConstantInt(vals[i])

Variable(array, values) ==
  [array |-> array, elements |-> [i \in 1..Len(values) |-> values[i].n]]

\* An array of negative size has no values; LLVM makes zeros of it, or an
\* assertion of its fails (DefineGlobalCrashes).
DefineGlobal ==
  /\ Complete /\ within = FileScope /\ ~IsGlobal(Def.name) /\ Initializable
  /\ globals' = [x \in DOMAIN globals \cup {Def.name} |->
                   IF x = Def.name THEN Variable(IsArray(Def), vals) ELSE globals[x]]
  /\ NextDefinition
  /\ UNCHANGED <<place, emitted>>

DefineGlobalCrashes ==
  /\ Complete /\ within = FileScope /\ ~IsGlobal(Def.name)
  /\ ~Initializable \/ size < 0
  /\ Fail("crashed")
  /\ UNCHANGED emitted

\* Mutant of Taken: a local may not have the name of a global.
Taken_Anywhere == IsLocal(Def.name) \/ IsGlobal(Def.name)

Taken == IF within = FileScope THEN IsGlobal(Def.name) ELSE IsLocal(Def.name)
Redefined ==
  /\ Complete /\ Taken
  /\ Fail("rejected")
  /\ UNCHANGED emitted

End ==
  /\ status = "generating" /\ within = FileScope /\ at > Len(program)
  /\ Fail("done")
  /\ UNCHANGED emitted

Finished == status # "generating" /\ UNCHANGED vars

Step ==
  \/ EnterFunction \/ LeaveFunction
  \/ ScalarSize \/ ArraySize \/ AddZero \/ AddChar \/ AddExpression
  \/ UndefinedName \/ DefineLocal \/ DefineGlobal \/ DefineGlobalCrashes
  \/ Redefined \/ End
Next == Step \/ Finished

Spec == Init /\ [][Next]_vars
FairSpec == Spec /\ WF_vars(Step)

-----------------------------------------------------------------------------
(* Properties *)

Values == [kind : {"const", "reg", "aggregate"}, n : Int]
Instructions ==
  [op : {"name", "call", "store"}, def : Nat \ {0}, item : Nat, in : Functions,
   name : Names, local : BOOLEAN, val : Values]

\* The types of the variables.  There are never more values than elements.
TypeOK ==
  /\ program \in Seq(Definitions)
  /\ at \in 1..(Len(program) + 1)
  /\ within \in Functions \cup {FileScope} /\ inserting \in Functions \cup {FileScope}
  /\ size \in Int
  /\ vals \in Seq(Values) /\ (vals = << >> \/ Len(vals) <= size)
  /\ emitted \in Seq(Instructions)
  /\ locals \subseteq Names
  /\ DOMAIN globals \subseteq Names
  /\ \A x \in DOMAIN globals :
       globals[x].array \in BOOLEAN /\ globals[x].elements \in Seq(Int)
  /\ status \in {"generating", "done", "rejected", "crashed"}

\* The number of elements of a definition that has been generated.
Count(d) ==
  LET n == IF ~IsArray(d) THEN 1
           ELSE IF d.size.kind = "number" THEN d.size.n ELSE globals[d.size.name].elements[1]
  IN  IF n < 0 THEN 0 ELSE n

\* What an initial value gives to the i-th element: zeros behind its end.  A
\* name or a call gives what the instruction for it yields.
IsInitial(j, i, v) ==
  LET d == program[j]
      e == d.items[i]
  IN  IF d.items # << >> /\ i <= Len(d.items)
      THEN /\ e.kind = "number" => v = Const(e.n)
           /\ e.kind # "number" /\ d.scope = FileScope => v = Const(globals[e.name].elements[1])
           /\ e.kind # "number" /\ d.scope # FileScope =>
                /\ v.kind = "reg" /\ v.n \in 1..Len(emitted)
                /\ emitted[v.n].def = j /\ emitted[v.n].item = i
                /\ emitted[v.n].op = e.kind /\ emitted[v.n].name = e.name
      ELSE v = Const(IF i <= Len(d.chars) THEN d.chars[i] ELSE 0)

StoresOf(j) == {k \in 1..Len(emitted) : emitted[k].op = "store" /\ emitted[k].def = j}

\* Every element of a variable that has been defined has its initial value:
\* in the initializer of a global, or by exactly one store in the function of a
\* local, behind the instructions for the value.
ElementsInitialised ==
  \A j \in 1..(at - 1) :
    LET d == program[j]
    IN  IF d.scope = FileScope
        THEN /\ Len(globals[d.name].elements) = Count(d)
             /\ \A i \in 1..Count(d) : IsInitial(j, i, Const(globals[d.name].elements[i]))
        ELSE /\ \A k \in StoresOf(j) : emitted[k].item \in 1..Count(d)
             /\ \A i \in 1..Count(d) : \E k \in StoresOf(j) :
                  /\ emitted[k].in = d.scope /\ emitted[k].name = d.name
                  /\ IsInitial(j, i, emitted[k].val)
                  /\ emitted[k].val.kind = "reg" => emitted[k].val.n < k
                  /\ \A l \in StoresOf(j) : emitted[l].item = i => l = k

Evaluations == {k \in 1..Len(emitted) : emitted[k].op # "store"}

\* Expressions are evaluated in the order of the source, none twice, and none
\* of the initial values there is no element for.
EvaluatedOnceInOrder ==
  /\ \A k, l \in Evaluations :
       k < l => \/ emitted[k].def < emitted[l].def
                \/ emitted[k].def = emitted[l].def /\ emitted[k].item < emitted[l].item
  /\ \A k \in Evaluations : emitted[k].def < at => emitted[k].item <= Count(program[emitted[k].def])

\* A name in an initial value is that of a definition before the one it is in:
\* of the same function, or else of file scope.
DefinedBefore(j, scope, name) ==
  \E i \in 1..(j - 1) : program[i].scope = scope /\ program[i].name = name
NamesReadAreInScope ==
  \A k \in Evaluations :
    LET j == emitted[k].def
    IN  emitted[k].op = "name" =>
          IF DefinedBefore(j, program[j].scope, emitted[k].name)
          THEN emitted[k].local
          ELSE ~emitted[k].local /\ DefinedBefore(j, FileScope, emitted[k].name)

\* The builder still points into the last function when a definition at file
\* scope is generated.  When such a definition needs an instruction the compiler
\* does not get past it: nothing that is handed on has one function's code for
\* another's, or for none.
FileScopeLeavesNothing ==
  \A k \in 1..Len(emitted) :
    \/ emitted[k].in = program[emitted[k].def].scope
    \/ emitted[k].def = at /\ status # "done"

\* What the source has to be: sizes are constants other than zero, names are
\* defined before they are used and once in a scope, and global variables are
\* initialized by numbers or by global scalars.
ScalarBefore(j, name) ==
  \E i \in 1..(j - 1) :
    program[i].scope = FileScope /\ program[i].name = name /\ ~IsArray(program[i])
ConstantAt(j, e) ==
  \/ e.kind = "number"
  \/ e.kind = "name" /\ program[j].scope = FileScope /\ ScalarBefore(j, e.name)
VisibleAt(j, e) ==
  e.kind = "name" =>
    DefinedBefore(j, program[j].scope, e.name) \/ DefinedBefore(j, FileScope, e.name)
IsWellFormed(j) ==
  LET d == program[j]
  IN  /\ ~DefinedBefore(j, d.scope, d.name)
      /\ IsArray(d) => ConstantAt(j, d.size)
      /\ \A i \in 1..Len(d.items) : i <= Count(d) =>
           VisibleAt(j, d.items[i]) /\ (d.scope = FileScope => ConstantAt(j, d.items[i]))
      /\ d.size # NoExp /\ d.size.kind = "number" => d.size.n # 0

\* What the generator gets past is well-formed, and what it stops at is not.
\* The exception is an array of zero or negative size at file scope.
OnlyWellFormedPasses ==
  /\ \A j \in 1..(at - 1) : IsWellFormed(j)
  /\ status \in {"rejected", "crashed"} =>
       ~IsWellFormed(at) \/ (IsArray(Def) /\ within = FileScope /\ Count(Def) = 0)

\* However many elements there are, generation ends.
DefinitionsEnd == <>(status # "generating")
=============================================================================
