------------------------------ MODULE Symbols ------------------------------
(***************************************************************************)
(* Functions, global variables and calls: what the l24 code generator      *)
(* keeps in, and asks of, the symbol table of the LLVM module              *)
(* (src/src/backend/code_gen.cpp: codeGenProgram, codeGenFunc,             *)
(* codeGenUnaryExp; code_gen_ctx.cpp: codeGenStandardLibrary,              *)
(* defineGlobalValue).                                                     *)
(*                                                                         *)
(* The LLVM module has one symbol table for functions and variables.  A    *)
(* value created under a name that is taken gets another name, which no    *)
(* identifier spells; getFunction and getGlobalVariable return nullptr     *)
(* for the name of a value of the other kind.                              *)
(***************************************************************************)
EXTENDS Naturals, Sequences

CONSTANTS
  FuncName,   \* the identifiers the program uses for functions
  VarName,    \* the identifiers it uses for global variables
  Arities,    \* numbers of parameters and of arguments in the program
  MaxFuncs,   \* bound: functions the source defines
  MaxCalls,   \* bound: calls begun
  MaxPending  \* bound: nesting of calls in arguments of calls

ASSUME AritiesAssumption == Arities \subseteq Nat
ASSUME BoundsAssumption == {MaxFuncs, MaxCalls, MaxPending} \subseteq Nat

VARIABLES
  symtab,     \* what each identifier denotes in the LLVM module
  functions,  \* the llvm::Functions created
  current,    \* the function whose body is being generated, 0 at file scope
  pending,    \* active codeGenUnaryExp calls whose arguments are evaluated
  calls,      \* the call instructions emitted
  status      \* "running", "crashed", or what LogError said before its exit(1)

vars == <<symtab, functions, current, pending, calls, status>>

-----------------------------------------------------------------------------
(* The symbol table *)

\* codeGenStandardLibrary
LibraryFunction(name, arity) == [written |-> name, arity |-> arity]
StandardLibrary ==
  << LibraryFunction("getint", 0), LibraryFunction("putint", 1),
     LibraryFunction("getch", 0), LibraryFunction("putch", 1),
     LibraryFunction("putarray", 2), LibraryFunction("getarray", 1),
     LibraryFunction("print", 2), LibraryFunction("scan", 1),
     LibraryFunction("printStr", 2), LibraryFunction("plusStrStr", 5),
     LibraryFunction("mulStrNum", 4), LibraryFunction("plusStrNum", 4) >>

Name == FuncName \cup VarName \cup {StandardLibrary[i].written : i \in 1..Len(StandardLibrary)}

Free == [kind |-> "none", index |-> 0]
Symbol == [kind : {"none", "function", "variable"}, index : Nat]

\* _module->getFunction and _module->getGlobalVariable
IsFunction(x) == symtab[x].kind = "function"
IsVariable(x) == symtab[x].kind = "variable"

\* A value created under the name x keeps it only if it is free.
Entered(x, kind, index) ==
  IF symtab[x] = Free THEN [symtab EXCEPT ![x] = [kind |-> kind, index |-> index]] ELSE symtab

Running == status = "running"

LogError(why) == status' = why /\ UNCHANGED <<symtab, functions, current, pending, calls>>

-----------------------------------------------------------------------------
(* Declarations *)

Init ==
  /\ functions = StandardLibrary
  /\ symtab = [x \in Name |->
                 IF \E i \in 1..Len(functions) : functions[i].written = x
                 THEN [kind |-> "function",
                       index |-> CHOOSE i \in 1..Len(functions) : functions[i].written = x]
                 ELSE Free]
  /\ current = 0
  /\ pending = << >>
  /\ calls = << >>
  /\ status = "running"

Between == Running /\ pending = << >>
AtFileScope == Between /\ current = 0

\* Mutant of NewFunction: none is created under a name that is taken.
NewFunction_NotCreated(x, n) ==
  /\ symtab' = Entered(x, "function", Len(functions) + 1)
  /\ current' = Len(functions) + 1
  /\ UNCHANGED <<functions, pending, calls, status>>

NewFunction(x, n) ==
  /\ functions' = Append(functions, [written |-> x, arity |-> n])
  /\ symtab' = Entered(x, "function", Len(functions) + 1)
  /\ current' = Len(functions) + 1
  /\ UNCHANGED <<pending, calls, status>>

\* Mutant of BeginFunc: the name is not looked up.
BeginFunc_Unchecked(x, n) ==
  /\ AtFileScope
  /\ Len(functions) < Len(StandardLibrary) + MaxFuncs
  /\ NewFunction(x, n)

\* codeGenFunc up to the body: x is a function from here on.
BeginFunc(x, n) ==
  /\ AtFileScope
  /\ Len(functions) < Len(StandardLibrary) + MaxFuncs
  /\ IF IsFunction(x) THEN LogError("redefined function") ELSE NewFunction(x, n)

EndFunc ==
  /\ Between /\ current # 0
  /\ current' = 0
  /\ UNCHANGED <<symtab, functions, pending, calls, status>>

\* defineGlobalValue.  The variable is inserted under another name if x is a
\* function, and setInitializer is called on the nullptr that x yields.
DefineGlobal(x) ==
  /\ AtFileScope
  /\ IF IsVariable(x) THEN LogError("redefined global")
     ELSE /\ symtab' = Entered(x, "variable", 0)
          /\ status' = IF IsFunction(x) THEN "crashed" ELSE status
          /\ UNCHANGED <<functions, current, pending, calls>>

-----------------------------------------------------------------------------
(* Calls *)

Innermost == pending[Len(pending)]

\* The innermost call in stk has one argument less to evaluate.
ArgumentDone(stk) ==
  IF stk = << >> THEN stk
  ELSE [stk EXCEPT ![Len(stk)] = [name |-> @.name, args |-> @.args,
                                  callee |-> @.callee, left |-> @.left - 1]]

\* func->arg_size() against _exps.size()
ArgumentsAgree(x, n) == n = functions[symtab[x].index].arity

\* codeGenUnaryExp up to its arguments, for a call in a function or in the
\* initial value of a global, or in an argument of the innermost call.
BeginCall(x, n) ==
  /\ Running
  /\ Len(pending) < MaxPending /\ Len(calls) + Len(pending) < MaxCalls
  /\ pending # << >> => Innermost.left > 0
  /\ IF ~IsFunction(x) THEN LogError("unknown function")
     ELSE IF ~ArgumentsAgree(x, n) THEN LogError("arguments number")
     ELSE /\ pending' = Append(pending, [name |-> x, args |-> n,
                                         callee |-> symtab[x].index, left |-> n])
          /\ UNCHANGED <<symtab, functions, current, calls, status>>

\* The next argument of the innermost call makes no call.
PlainArgument ==
  /\ Running /\ pending # << >> /\ Innermost.left > 0
  /\ pending' = ArgumentDone(pending)
  /\ UNCHANGED <<symtab, functions, current, calls, status>>

\* Mutant of EndCall: the call instruction comes before those of the arguments
\* that are still to be generated.
EndCall_BeforeArguments ==
  /\ Running /\ pending # << >>
  /\ calls' = Append(calls, [name |-> Innermost.name, args |-> Innermost.args,
                             callee |-> Innermost.callee])
  /\ pending' = ArgumentDone(SubSeq(pending, 1, Len(pending) - 1))
  /\ UNCHANGED <<symtab, functions, current, status>>

\* codeGenUnaryExp after the arguments.  The initial value of a global that makes
\* a call is no ConstantInt, and defineGlobalValue dereferences the nullptr that
\* dyn_cast makes of it.
EndCall ==
  /\ Running /\ pending # << >> /\ Innermost.left = 0
  /\ calls' = Append(calls, [name |-> Innermost.name, args |-> Innermost.args,
                             callee |-> Innermost.callee])
  /\ pending' = ArgumentDone(SubSeq(pending, 1, Len(pending) - 1))
  /\ status' = IF current = 0 /\ Len(pending) = 1 THEN "crashed" ELSE status
  /\ UNCHANGED <<symtab, functions, current>>

\* The process has exited or crashed.
Exited == ~Running /\ UNCHANGED vars

\* codeGenProgram takes the declarations and functions in the order of the file.
Next ==
  \/ \E x \in FuncName, n \in Arities : BeginFunc(x, n) \/ BeginCall(x, n)
  \/ \E x \in VarName : DefineGlobal(x)
  \/ EndFunc \/ PlainArgument \/ EndCall \/ Exited

Spec == Init /\ [][Next]_vars

-----------------------------------------------------------------------------
(* Properties *)

\* The variables have the types of their C++ counterparts, and every pointer to a
\* function points to one that was created.
TypeOK ==
  /\ functions \in Seq([written : Name, arity : Nat])
  /\ symtab \in [Name -> Symbol]
  /\ \A x \in Name : IsFunction(x) => symtab[x].index \in 1..Len(functions)
  /\ current \in 0..Len(functions)
  /\ pending \in Seq([name : Name, args : Nat, callee : 1..Len(functions), left : Nat])
  /\ calls \in Seq([name : Name, args : Nat, callee : 1..Len(functions)])
  /\ status \in {"running", "crashed", "redefined function", "redefined global",
                 "unknown function", "arguments number"}

\* A call goes to the one function that the source has under the name called, with
\* as many arguments as that one has parameters, even in a program that uses one
\* name for a function and a variable: no call ever binds to the wrong function.
CallsBindToSource ==
  \A i \in 1..Len(calls) :
    LET c == calls[i]
    IN  /\ functions[c.callee].written = c.name
        /\ functions[c.callee].arity = c.args
        /\ \A k \in 1..Len(functions) : functions[k].written = c.name => k = c.callee

Declared(x) == {i \in 1..Len(functions) : functions[i].written = x}

Table == INSTANCE FunctionTable WITH
           arity <- [x \in FuncName |->
                       IF Declared(x) = {} THEN 0
                       ELSE functions[CHOOSE i \in Declared(x) : TRUE].arity + 1],
           open <- [i \in 1..Len(pending) |->
                      [name |-> pending[i].name, args |-> pending[i].args,
                       left |-> pending[i].left]],
           called <- [i \in 1..Len(calls) |-> [name |-> calls[i].name, args |-> calls[i].args]],
           rejected <- IF status \in {"running", "crashed"} THEN "no" ELSE status,
           Predefined <- {StandardLibrary[i] : i \in 1..Len(StandardLibrary)}

\* No name has been given to a variable and then to a function.
NamesApart == \A x \in Name : IsVariable(x) => Declared(x) = {}

\* As long as that is so, the symbol table is a plain table of functions: what may
\* be defined and called, and why a program is rejected.  The call instructions of
\* nested calls come in the order in which the source makes the calls: that of an
\* argument before that of the call it is in, and before those of later arguments.
ImplementsFunctionTable ==
  Table!Init /\ [][NamesApart => [Table!Next]_(Table!tableVars)]_vars

\* "function can't be redefined", says codeGenFunc: the program has one function
\* of each name.
FunctionsDefinedOnce ==
  \A i, k \in 1..Len(functions) : functions[i].written = functions[k].written => i = k
=============================================================================
