--------------------------- MODULE FunctionTable ---------------------------
(***************************************************************************)
(* What the function names of an l24 program denote, and what its calls    *)
(* do: a name is declared at most once, may be called from then on, in its *)
(* own body too, and with exactly as many arguments as it has parameters.  *)
(* An argument may make calls.  A call happens when the last of its        *)
(* arguments has its value, and only then is the next argument of the call *)
(* around it looked at.                                                    *)
(***************************************************************************)
EXTENDS Naturals, Sequences

CONSTANTS
  FuncName,   \* names of functions
  VarName,    \* names of global variables
  Arities,    \* numbers of parameters and arguments
  Predefined  \* [written, arity] of the functions every program has

VARIABLES
  arity,     \* 0 for a name not yet declared, else 1 + its parameters
  open,      \* the calls begun, each in an argument of the one before it, as
             \* [name, args, left]: left arguments have no value yet
  called,    \* the calls that have happened, as [name, args]
  rejected   \* "no", or why the program has been rejected

tableVars == <<arity, open, called, rejected>>

Init ==
  /\ arity = [f \in FuncName |->
                IF \E p \in Predefined : p.written = f
                THEN 1 + (CHOOSE p \in Predefined : p.written = f).arity ELSE 0]
  /\ open = << >>
  /\ called = << >>
  /\ rejected = "no"

Reject(why) == rejected' = why /\ UNCHANGED <<arity, open, called>>

-----------------------------------------------------------------------------
(* Declarations *)

Declare(f, n) ==
  /\ open = << >> /\ arity[f] = 0
  /\ arity' = [arity EXCEPT ![f] = n + 1]
  /\ UNCHANGED <<open, called, rejected>>

DeclareAgain(f) == open = << >> /\ arity[f] # 0 /\ Reject("redefined function")

\* A variable's name is rejected for reasons that are not told here.
RejectVariable == open = << >> /\ VarName # {} /\ Reject("redefined global")

-----------------------------------------------------------------------------
(* Calls *)

InnermostLacks == open # << >> /\ open[Len(open)].left > 0

\* The next argument of the innermost call in stack has its value.
Supplied(stack) ==
  IF stack = << >> THEN stack
  ELSE [stack EXCEPT ![Len(stack)] = [name |-> @.name, args |-> @.args, left |-> @.left - 1]]

Begin(f, n) ==
  /\ open = << >> \/ InnermostLacks
  /\ \/ arity[f] = 0 /\ Reject("unknown function")
     \/ arity[f] \notin {0, n + 1} /\ Reject("arguments number")
     \/ /\ arity[f] = n + 1
        /\ open' = Append(open, [name |-> f, args |-> n, left |-> n])
        /\ UNCHANGED <<arity, called, rejected>>

\* An argument that makes no call.
Argument ==
  /\ InnermostLacks
  /\ open' = Supplied(open)
  /\ UNCHANGED <<arity, called, rejected>>

Call ==
  /\ open # << >> /\ ~InnermostLacks
  /\ LET c == open[Len(open)] IN called' = Append(called, [name |-> c.name, args |-> c.args])
  /\ open' = Supplied(SubSeq(open, 1, Len(open) - 1))
  /\ UNCHANGED <<arity, rejected>>

Next ==
  /\ rejected = "no"
  /\ \/ \E f \in FuncName, n \in Arities : Declare(f, n) \/ Begin(f, n)
     \/ \E f \in FuncName : DeclareAgain(f)
     \/ RejectVariable \/ Argument \/ Call

Spec == Init /\ [][Next]_tableVars
=============================================================================
