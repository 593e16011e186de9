---------------------------- MODULE NamedValues ----------------------------
(***************************************************************************)
(* The named values of the l24 code generator: CodeGenContext's stack of   *)
(* maps _nested_named_values, the module's global variables, and the       *)
(* instructions through which an identifier is read and assigned           *)
(* (src/src/backend/code_gen_ctx.cpp and code_gen_ctx.h).                  *)
(*                                                                         *)
(* An AllocaInst or a GlobalVariable is a value, numbered in the order of  *)
(* creation.  What is stored in it is abstracted; what is kept is which    *)
(* value an instruction accesses, how, and at which type.  The sizes and   *)
(* initial values in declarations are constants, and an array has at least *)
(* one element.  Functions and their names are in module Symbols.          *)
(*                                                                         *)
(* item is a history variable: what the source says at the last step.      *)
(***************************************************************************)
EXTENDS Naturals, Sequences

CONSTANTS
  Ident,      \* the identifiers of the program
  Numbered,   \* for each of them, those that are it followed by a number
  MaxLayers,  \* bound: nesting of codeGenFunc and codeGenBlock
  MaxValues,  \* bound: allocas and global variables created
  MaxFuncs    \* bound: functions in the program

ASSUME IdentAssumption == Ident # {}
ASSUME NumberedAssumption == Numbered \in [Ident -> SUBSET Ident]
ASSUME BoundsAssumption == {MaxLayers, MaxValues, MaxFuncs} \subseteq Nat

VARIABLES
  layers,   \* _nested_named_values: for each layer the entry of each identifier
  globals,  \* _module->getGlobalVariable(x), 0 for nullptr
  values,   \* the values created
  fn,       \* functions begun so far
  nesting,  \* active calls of codeGenFunc (the first) and codeGenBlock
  item,     \* <<"open">>, <<"close">> or <<"close function">> for scopes, or an
            \* occurrence of x: <<"declare", x, const>>, <<"use", x>>, <<"assign", x>>
  access,   \* the instructions that the item made the code emit for an identifier
  status    \* "running", "crashed", or what LogError said before its exit(1)

vars == <<layers, globals, values, fn, nesting, item, access, status>>

-----------------------------------------------------------------------------
(* Entries, values and accesses *)

Shapes == {"scalar", "array", "pointer"}

\* A map entry: ConstVal or VarVal with its alloca, or no entry.
NoEntry == [kind |-> "none", val |-> 0]
Entry == [kind : {"none", "const", "var"}, val : Nat]

\* owner is the function an alloca belongs to, 0 for a global variable.  const
\* is what the source says; defineGlobalValue does not receive it.
Value == [owner : Nat, const : BOOLEAN, shape : Shapes]

Access == [op : {"load", "store", "address", "fold"}, val : Nat,
           via : {"slot", "element", "pointee"}, ty : {"i64", "ptr", "aggregate"}]

Depth == Len(layers)
Defined(x, i) == layers[i][x].kind # "none"

\* Mutant of ValidLayer: the outermost entry is found.
ValidLayer_Outermost(x, d) ==
  IF \E i \in 1..d : Defined(x, i)
  THEN CHOOSE i \in 1..d : Defined(x, i) /\ \A j \in 1..(i - 1) : ~Defined(x, j)
  ELSE 0

\* The loop over valid_layer in getValue and setValue: the innermost of the first
\* d layers with an entry for x, 0 (-1 in the code) when there is none.
ValidLayer(x, d) ==
  IF \E i \in 1..d : Defined(x, i)
  THEN CHOOSE i \in 1..d : Defined(x, i) /\ \A j \in (i + 1)..d : ~Defined(x, j)
  ELSE 0

\* The value found for x in the first d layers, or among the globals.
Resolve(x, d) ==
  IF ValidLayer(x, d) = 0 THEN globals[x] ELSE layers[ValidLayer(x, d)][x].val

SlotType(shape) == CASE shape = "scalar" -> "i64"
                     [] shape = "pointer" -> "ptr"
                     [] shape = "array" -> "aggregate"

\* createGetValueInst
GetLocal(v, indexed) ==
  LET shape == values[v].shape
  IN  IF indexed
      THEN [op |-> "load", val |-> v, ty |-> "i64",
            via |-> IF shape = "array" THEN "element" ELSE "pointee"]
      ELSE IF shape = "array"
      THEN [op |-> "address", val |-> v, via |-> "element", ty |-> "ptr"]
      ELSE [op |-> "load", val |-> v, via |-> "slot", ty |-> SlotType(shape)]

\* getGlobalValue: the type loaded is the variable's own, indexed or not.  With
\* no layer open the initializer is taken instead of an instruction.
GetGlobal(v, indexed) ==
  [op |-> IF ~indexed /\ layers = << >> THEN "fold" ELSE "load", val |-> v,
   via |-> IF indexed THEN "element" ELSE "slot", ty |-> SlotType(values[v].shape)]

\* createSetValueInst and setGlobalValue store the int they are given.
Stored(v, via) == [op |-> "store", val |-> v, ty |-> "i64", via |-> via]
SetLocal(v, indexed) ==
  Stored(v, IF ~indexed THEN "slot"
            ELSE IF values[v].shape = "array" THEN "element" ELSE "pointee")

\* setGlobalValue loads the variable before it stores to it, and uses the value for
\* nothing; an element is stored to at once.
SetGlobal(v, indexed) ==
  IF indexed THEN <<Stored(v, "element")>>
  ELSE <<[op |-> "load", val |-> v, via |-> "slot", ty |-> SlotType(values[v].shape)],
         Stored(v, "slot")>>

-----------------------------------------------------------------------------
(* Operations *)

Init ==
  /\ layers = << >>
  /\ globals = [x \in Ident |-> 0]
  /\ values = << >>
  /\ fn = 0
  /\ nesting = 0
  /\ item = << >>
  /\ access = << >>
  /\ status = "running"

Running == status = "running"
EmptyLayer == [x \in Ident |-> NoEntry]
NewValue(owner, const, shape) == [owner |-> owner, const |-> const, shape |-> shape]

LogError(why) ==
  /\ status' = why /\ access' = << >>
  /\ UNCHANGED <<layers, globals, values, fn, nesting>>

\* Mutant of PopNamedValues: one layer too few.
PopNamedValues_OneShort(n) == layers' = SubSeq(layers, 1, Depth - n + 1)
PopNamedValues(n) == layers' = SubSeq(layers, 1, Depth - n)

\* codeGenFunc pushes the layer of the parameters.
BeginFunc ==
  /\ Running /\ nesting = 0 /\ fn < MaxFuncs /\ MaxLayers > 1
  /\ layers' = Append(layers, EmptyLayer)
  /\ nesting' = 1
  /\ fn' = fn + 1
  /\ item' = <<"open">> /\ access' = << >>
  /\ UNCHANGED <<globals, values, status>>

\* codeGenBlock, for the function's body and for the blocks inside it.
BeginBlock ==
  /\ Running /\ nesting \in 1..(MaxLayers - 1)
  /\ layers' = Append(layers, EmptyLayer)
  /\ nesting' = nesting + 1
  /\ item' = <<"open">> /\ access' = << >>
  /\ UNCHANGED <<globals, values, fn, status>>

EndBlock ==
  /\ Running /\ nesting > 2
  /\ PopNamedValues(1)
  /\ nesting' = nesting - 1
  /\ item' = <<"close">> /\ access' = << >>
  /\ UNCHANGED <<globals, values, fn, status>>

\* The end of the body and of codeGenFunc, which do not look at a name between
\* the layer of the body and that of the parameters.
EndFunc ==
  /\ Running /\ nesting = 2
  /\ PopNamedValues(2)
  /\ nesting' = 0
  /\ item' = <<"close function">> /\ access' = << >>
  /\ UNCHANGED <<globals, values, fn, status>>

\* defineValue with a layer open: a new alloca in the current function, entered
\* in the current layer.
AddLocal(x, const, shape) ==
  /\ values' = Append(values, NewValue(fn, const, shape))
  /\ layers' = [layers EXCEPT ![Depth] =
                  [@ EXCEPT ![x] = [kind |-> IF const THEN "const" ELSE "var",
                                    val |-> Len(values) + 1]]]
  /\ access' = << >>
  /\ UNCHANGED <<globals, fn, nesting, status>>

\* The alloca is entered under a name that no identifier of the program spells.
AddUnspelled(shape) ==
  /\ values' = Append(values, NewValue(fn, FALSE, shape))
  /\ access' = << >>
  /\ UNCHANGED <<layers, globals, fn, nesting, status>>

\* Mutant of AddGlobal: the variable is looked up but never inserted.
AddGlobal_NotInserted(x, const, shape) ==
  /\ globals' = [globals EXCEPT ![x] = Len(values) + 1]
  /\ access' = << >>
  /\ UNCHANGED <<layers, values, fn, nesting, status>>

\* defineGlobalValue
AddGlobal(x, const, shape) ==
  /\ values' = Append(values, NewValue(0, const, shape))
  /\ globals' = [globals EXCEPT ![x] = Len(values) + 1]
  /\ access' = << >>
  /\ UNCHANGED <<layers, fn, nesting, status>>

\* The names LLVM may give the Argument of a parameter x, of those in the program:
\* x unless an earlier Argument has it, and then x followed by a number.
ArgumentNames(x) ==
  IF Defined(x, Depth) THEN {y \in Numbered[x] : ~Defined(y, Depth)} ELSE {x}

\* codeGenFunc defines a parameter under the name LLVM gave its Argument.  The
\* number LLVM puts behind a taken name depends on all that it made up before, so
\* any is possible, and so is one that no identifier of the program has.
DefineParam(x, shape) ==
  /\ Running /\ nesting = 1 /\ Len(values) < MaxValues
  /\ item' = <<"declare", x, FALSE>>
  /\ \/ \E y \in ArgumentNames(x) : AddLocal(y, FALSE, shape)
     \/ Defined(x, Depth) /\ AddUnspelled(shape)

\* defineValue for a declaration, in the file or in a block.
DefineValue(x, const, shape) ==
  /\ Running /\ nesting # 1 /\ Len(values) < MaxValues
  /\ item' = <<"declare", x, const>>
  /\ IF layers = << >>
     THEN IF globals[x] # 0 THEN LogError("redefined") ELSE AddGlobal(x, const, shape)
     ELSE IF Defined(x, Depth) THEN LogError("redefined") ELSE AddLocal(x, const, shape)

\* A global's initial value has to be a ConstantInt: defineGlobalValue and
\* getInitVals dereference what dyn_cast makes of anything else.
FoldsToInt(v, indexed) == ~indexed /\ values[v].shape = "scalar"

\* getValue for an occurrence of x in an expression, with or without a subscript.
GetValue(x, indexed) ==
  /\ Running /\ nesting # 1
  /\ item' = <<"use", x>>
  /\ IF Resolve(x, Depth) = 0
     THEN LogError("undeclared")
     ELSE /\ access' = <<IF ValidLayer(x, Depth) = 0
                         THEN GetGlobal(Resolve(x, Depth), indexed)
                         ELSE GetLocal(Resolve(x, Depth), indexed)>>
          /\ status' = IF layers = << >> /\ ~FoldsToInt(Resolve(x, Depth), indexed)
                       THEN "crashed" ELSE status
          /\ UNCHANGED <<layers, globals, values, fn, nesting>>

\* std::get<VarVal> throws on a ConstVal entry.
IsConstEntry(x) ==
  LET layer == ValidLayer(x, Depth) IN layer # 0 /\ layers[layer][x].kind = "const"

\* setValue for an assignment in a function.
SetValue(x, indexed) ==
  /\ Running /\ nesting >= 2
  /\ item' = <<"assign", x>>
  /\ IF Resolve(x, Depth) = 0 THEN LogError("undeclared")
     ELSE IF IsConstEntry(x) THEN LogError("const")
     ELSE /\ access' = IF ValidLayer(x, Depth) = 0
                       THEN SetGlobal(Resolve(x, Depth), indexed)
                       ELSE <<SetLocal(Resolve(x, Depth), indexed)>>
          /\ UNCHANGED <<layers, globals, values, fn, nesting, status>>

\* The process has exited or crashed.
Exited == ~Running /\ UNCHANGED vars

Next ==
  \/ BeginFunc \/ EndFunc \/ BeginBlock \/ EndBlock
  \/ \E x \in Ident, shape \in {"scalar", "pointer"} : DefineParam(x, shape)
  \/ \E x \in Ident, const \in BOOLEAN, shape \in {"scalar", "array"} :
       DefineValue(x, const, shape)
  \/ \E x \in Ident, indexed \in BOOLEAN : GetValue(x, indexed) \/ SetValue(x, indexed)
  \/ Exited

Spec == Init /\ [][Next]_vars

-----------------------------------------------------------------------------
(* Properties *)

Items ==
  {<< >>, <<"open">>, <<"close">>, <<"close function">>}
  \cup ({"use", "assign"} \X Ident) \cup ({"declare"} \X Ident \X BOOLEAN)

\* The variables have the types of their C++ counterparts, and every pointer to
\* an alloca or a global variable points to one that was created.
TypeOK ==
  /\ layers \in Seq([Ident -> Entry])
  /\ values \in Seq(Value)
  /\ globals \in [Ident -> 0..Len(values)]
  /\ \A i \in 1..Depth, x \in Ident : layers[i][x].val \in 0..Len(values)
  /\ fn \in Nat
  /\ nesting \in Nat
  /\ item \in Items
  /\ access \in Seq(Access)
  /\ \A i \in 1..Len(access) : access[i].val \in 1..Len(values)
  /\ status \in {"running", "crashed", "redefined", "undeclared", "const"}

\* The layers are those of the active handlers, and what they name lives in the
\* function being generated: codeGenFunc and codeGenBlock pop what they push, and
\* no function ever sees the alloca of another one.
LayersOfThisFunction ==
  /\ Depth = nesting
  /\ \A i \in 1..Depth, x \in Ident :
       Defined(x, i) => values[layers[i][x].val].owner = fn

Scopes ==
  [n \in 1..(Depth + 1) |->
     [visible |-> [x \in Ident |-> Resolve(x, n - 1)],
      own |-> IF n = 1 THEN {x \in Ident : globals[x] # 0}
              ELSE {x \in Ident : Defined(x, n - 1)}]]

Touched == {access[i].val : i \in 1..Len(access)}
Assigned == {access[i].val : i \in {i \in 1..Len(access) : access[i].op = "store"}}

Lexical == INSTANCE LexicalScope WITH
             scopes <- Scopes,
             places <- Len(values),
             consts <- {v \in 1..Len(values) : values[v].const /\ values[v].owner # 0},
             touched <- Touched,
             assigned <- Assigned,
             rejected <- IF status \in {"running", "crashed"} THEN "no" ELSE status

\* A second parameter of one name is not rejected.  It is bound to that name with
\* a number behind it, an identifier the source has for something else, perhaps a
\* global variable that the function means to use; or to nothing.
RepeatedParam(x) ==
  /\ nesting = 1 /\ x \in Lexical!Inner.own
  /\ item' = <<"declare", x, FALSE>>
  /\ \/ \E y \in Numbered[x] \ Lexical!Inner.own : Lexical!Bind(y, FALSE)
     \/ Lexical!NewPlace(FALSE) /\ Lexical!KeepScopes
  /\ Lexical!NoAccess

\* Except for such parameters, the search through the layers gives every identifier
\* the meaning block scoping gives it: what the source uses or assigns to is what
\* the instructions access, whatever is shadowed, a program is rejected exactly
\* when block scoping rejects it and for that reason, and no constant of a function
\* is ever assigned to.
ImplementsLexicalScope ==
  Lexical!Init /\ [][Lexical!Next \/ \E x \in Ident : RepeatedParam(x)]_(Lexical!scopeVars)

-----------------------------------------------------------------------------
(* What the source says of itself and does not do *)

\* setValue reports that an identifier "is a const": a const is not assigned to.
ConstsAreReadOnly ==
  \A i \in 1..Len(access) : access[i].op = "store" => ~values[access[i].val].const

\* An array is never loaded as a whole: its name stands for its address, as in
\* the call "int arr[2] = {0, 1}; func(arr);" that createGetValueInst describes,
\* and its elements are ints, as every use of one in the tests assumes.
ArraysAreNotLoaded ==
  Running => \A i \in 1..Len(access) : access[i].op = "load" => access[i].ty # "aggregate"
=============================================================================
