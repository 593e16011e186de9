---------------------------- MODULE Expressions ----------------------------
(***************************************************************************)
(* Expressions of l24, from the productions of the grammar through the     *)
(* nodes of the syntax tree (src/src/frontend/ast_builder.cpp, visitExp    *)
(* ... visitNumber) to LLVM instructions (src/src/backend/code_gen.cpp,    *)
(* codeGenExp ... codeGenNumber), and the statements that use their value. *)
(*                                                                         *)
(* The handlers are recursive over the tree.  stack has a frame for each   *)
(* handler that waits for the value of a child, with the values it already *)
(* has; the statement itself is the frame at the bottom.  A node with one  *)
(* child (a unit production, parentheses) hands on the child's value: such *)
(* nodes are left out of the trees.  What the builder makes of a node is   *)
(* computed where the generator meets it: the tree does not change, and    *)
(* when the builder fails nothing of the compilation is left.              *)
(***************************************************************************)
EXTENDS Integers, Sequences

CONSTANTS
  Statements,     \* the statements that may be compiled
  TreeOf(_),      \* the parse tree of each, see below
  Arrays,         \* identifiers that are arrays
  Globals,        \* identifiers that are global variables
  VoidFunctions,  \* functions that return nothing
  IntLimit,       \* 2^31: the first number past an int
  LongLimit       \* 2^63: the first number past a long long

ASSUME LimitsAssumption ==
  IntLimit \in Nat \ {0} /\ LongLimit \in Nat \ {0, 1} /\ IntLimit <= LongLimit

\* A parse tree.  tok is an operator, "number", "ident" or "call"; name and n
\* are the identifier and the literal.  A statement is a tree of its own: tok
\* is "return", "exp", "condition" or "assign", and kids has the expression,
\* then the subscript of an element that is assigned to.
Tree(tok, name, n, kids) == [tok |-> tok, name |-> name, n |-> n, kids |-> kids]
Kids(node) == Len(node.kids)

Logical == {"||", "&&"}
Relational == {"==", "!=", "<", ">", "<=", ">="}
Additive == {"+", "-"}
Multiplicative == {"*", "/", "%"}
UnaryOperators == {"+", "-", "!"}

\* Nodes with two operands: both children are there, or the operator is.
IsBinary(node) ==
  node.tok \in Logical \cup Relational \cup Additive \cup Multiplicative /\ Kids(node) = 2
IsUnary(node) == node.tok \in UnaryOperators /\ Kids(node) = 1

\* What the grammar lets a node be.
IsExpression(node) ==
  \/ IsBinary(node) \/ IsUnary(node)
  \/ (node.tok = "number" /\ Kids(node) = 0)
  \/ (node.tok = "ident" /\ Kids(node) \in 0..1)
  \/ node.tok = "call"
IsStatement(node) ==
  \/ (node.tok \in {"return", "exp", "condition"} /\ Kids(node) = 1)
  \/ (node.tok = "assign" /\ Kids(node) \in 1..2)

ASSUME StatementsAssumption ==
  \A s \in Statements :
    IsStatement(TreeOf(s)) /\ \A i \in 1..Kids(TreeOf(s)) : IsExpression(TreeOf(s).kids[i])

VARIABLES
  stack,   \* handlers that wait for the value of a child
  entered, \* the node a handler is called for, NoNode when a value is handed up
  result,  \* the value handed up
  code,    \* the instructions emitted
  status   \* "generating", "done", or "crashed" by an uncaught exception

vars == <<stack, entered, result, code, status>>

-----------------------------------------------------------------------------
(* Values and instructions *)

\* An llvm::Value: a ConstantInt, a poison constant, or the result of the n-th
\* instruction.
Const(ty, n) == [kind |-> "const", ty |-> ty, n |-> n]
Poison(ty)   == [kind |-> "poison", ty |-> ty, n |-> 0]
Reg(ty, k)   == [kind |-> "reg", ty |-> ty, n |-> k]

IsConstant(v) == v.kind # "reg"
Zero == Const("i64", 0)

\* for is what the instruction is there for when it has an effect or reads a
\* variable.
NoEffect == "-"
Instr(op, ty, args, for) == [op |-> op, ty |-> ty, args |-> args, for |-> for]

Comparisons == {"eq", "ne", "slt", "sgt", "sle", "sge"}
Connectives == {"and", "or"}
Arithmetic == {"add", "sub", "mul", "sdiv", "srem"}
Operations == Comparisons \cup Connectives \cup Arithmetic

\* An arithmetic instruction has the type of its left operand, whatever it is.
ResultType(op, l) == IF op \in Comparisons \cup Connectives THEN "i1" ELSE l.ty

\* Mutant of Signed: one number too many.
Signed_OneMore(n, limit) == ((n + limit) % (2 * limit + 1)) - limit

\* n cut to the two's complement numbers from -limit to limit - 1.
Signed(n, limit) == ((n + limit) % (2 * limit)) - limit

Truth(p) == IF p THEN 1 ELSE 0
Magnitude(n) == IF n < 0 THEN -n ELSE n
Quotient(a, b) ==
  IF (a < 0) = (b < 0) THEN Magnitude(a) \div Magnitude(b) ELSE -(Magnitude(a) \div Magnitude(b))

\* Division by zero, or one whose quotient does not fit.
Undefined(op, a, b) == op \in {"sdiv", "srem"} /\ (b = 0 \/ (b = -1 /\ a = -LongLimit))

Compute(op, a, b) ==
  CASE op = "add"  -> Signed(a + b, LongLimit)
    [] op = "sub"  -> Signed(a - b, LongLimit)
    [] op = "mul"  -> Signed(a * b, LongLimit)
    [] op = "sdiv" -> Quotient(a, b)
    [] op = "srem" -> a - b * Quotient(a, b)
    [] op = "eq"   -> Truth(a = b)
    [] op = "ne"   -> Truth(a # b)
    [] op = "slt"  -> Truth(a < b)
    [] op = "sgt"  -> Truth(a > b)
    [] op = "sle"  -> Truth(a <= b)
    [] op = "sge"  -> Truth(a >= b)
    [] op = "and"  -> Truth(a # 0 /\ b # 0)
    [] op = "or"   -> Truth(a # 0 \/ b # 0)

\* What IRBuilder makes of an operation on constants.  The connectives are
\* selects, which drop a poison operand that is not selected.
Fold(op, l, r) ==
  IF l.kind = "poison" \/ (op \notin Connectives /\ r.kind = "poison")
  THEN Poison(ResultType(op, l))
  ELSE IF r.kind = "poison" /\ (op = "and") = (l.n # 0)
  THEN r
  ELSE IF Undefined(op, l.n, r.n)
  THEN Poison(ResultType(op, l))
  ELSE Const(ResultType(op, l), Compute(op, l.n, r.n))

\* _builder->Create... for a binary operation: an instruction after those of c,
\* or a constant.
Build(c, op, l, r) ==
  IF IsConstant(l) /\ IsConstant(r)
  THEN [code |-> c, val |-> Fold(op, l, r)]
  ELSE [code |-> Append(c, Instr(op, ResultType(op, l), <<l, r>>, NoEffect)),
        val |-> Reg(ResultType(op, l), Len(c) + 1)]

\* intToBoolean
IntToBoolean(c, v) == Build(c, "ne", Zero, v)

\* Mutant of BooleanToInt: a comparison is handed up as it is.
BooleanToInt_Forgotten(b) == b

\* booleanToInt: a zero extension.
BooleanToInt(b) ==
  IF IsConstant(b.val)
  THEN [code |-> b.code, val |-> [kind |-> b.val.kind, ty |-> "i64", n |-> b.val.n]]
  ELSE [code |-> Append(b.code, Instr("zext", "i64", <<b.val>>, NoEffect)),
        val |-> Reg("i64", Len(b.code) + 1)]

-----------------------------------------------------------------------------
(* What the builder and the handlers read off a node *)

\* The instruction for an operator.
Opcode(tok) ==
  CASE tok = "||" -> "or"
    [] tok = "&&" -> "and"
    [] tok = "==" -> "eq"
    [] tok = "!=" -> "ne"
    [] tok = "<"  -> "slt"
    [] tok = ">"  -> "sgt"
    [] tok = "<=" -> "sle"
    [] tok = ">=" -> "sge"
    [] tok = "+"  -> "add"
    [] tok = "-"  -> "sub"
    [] tok = "*"  -> "mul"
    [] tok = "/"  -> "sdiv"
    [] tok = "%"  -> "srem"

\* visitNumber: stoll makes a long long or throws, and nothing catches it.
\* NumberNode's constructor takes an int, whatever it gets.
Throws(literal) == literal >= LongLimit
NumberNode(literal) == Signed(literal, IntLimit)

\* createGetValueInst gives an array's address and the int at a subscript.
\* getGlobalValue loads at the variable's own type, with a subscript or without.
ValueType(name) ==
  IF name \notin Arrays THEN "i64" ELSE IF name \in Globals THEN "aggregate" ELSE "ptr"
ElementType(name) == IF name \in Globals THEN ValueType(name) ELSE "i64"
ReturnType(name) == IF name \in VoidFunctions THEN "void" ELSE "i64"

-----------------------------------------------------------------------------
(* Calling a handler and handing up its value *)

Frame(node, vals) == [node |-> node, vals |-> vals]
NoNode == Tree("", "", 0, << >>)

Top == stack[Len(stack)]
Below == SubSeq(stack, 1, Len(stack) - 1)

Entering == status = "generating" /\ entered # NoNode
HandedUp == status = "generating" /\ entered = NoNode

\* Mutant of Call: the children from right to left.
Call_RightToLeft(below, f) ==
  /\ stack' = Append(below, f)
  /\ entered' = f.node.kids[Kids(f.node) - Len(f.vals)]
  /\ UNCHANGED <<result, status>>

\* The handler of the frame f goes on to its next child.
Call(below, f) ==
  /\ stack' = Append(below, f)
  /\ entered' = f.node.kids[Len(f.vals) + 1]
  /\ UNCHANGED <<result, status>>

\* A handler is left with a value built.
HandUp(below, built) ==
  /\ stack' = below
  /\ entered' = NoNode
  /\ code' = built.code
  /\ result' = built.val
  /\ UNCHANGED status

\* A value read, or the result of a call.
Effect(op, ty, args, for) ==
  [code |-> Append(code, Instr(op, ty, args, for)), val |-> Reg(ty, Len(code) + 1)]

\* The value handed up is one more of the frame's.
Received == Append(Top.vals, result)
MissesChild == Len(Received) < Kids(Top.node)

-----------------------------------------------------------------------------
(* Handlers *)

Init ==
  \E s \in Statements :
    /\ stack = <<Frame(TreeOf(s), << >>)>>
    /\ entered = TreeOf(s).kids[1]
    /\ result = Zero
    /\ code = << >>
    /\ status = "generating"

\* visitNumber and codeGenNumber
Number ==
  /\ Entering /\ entered.tok = "number" /\ ~Throws(entered.n)
  /\ HandUp(stack, [code |-> code, val |-> Const("i64", NumberNode(entered.n))])

NumberThrows ==
  /\ Entering /\ entered.tok = "number" /\ Throws(entered.n)
  /\ status' = "crashed"
  /\ UNCHANGED <<stack, entered, result, code>>

\* codeGenLVal without a subscript
Load ==
  /\ Entering /\ entered.tok = "ident" /\ Kids(entered) = 0
  /\ HandUp(stack, Effect("load", ValueType(entered.name), << >>, entered.name))

\* The call branch of codeGenUnaryExp, without arguments
CallNoArguments ==
  /\ Entering /\ entered.tok = "call" /\ Kids(entered) = 0
  /\ HandUp(stack, Effect("call", ReturnType(entered.name), << >>, entered.name))

\* Any handler, up to the handler of its first child.
Begin ==
  /\ Entering /\ Kids(entered) > 0
  /\ Call(stack, Frame(entered, << >>))
  /\ UNCHANGED code

\* codeGenLorExp ... codeGenMulExp between their two operands.
AfterLeft ==
  /\ HandedUp /\ IsBinary(Top.node) /\ MissesChild
  /\ LET built == IF Top.node.tok \in Logical THEN IntToBoolean(code, result)
                  ELSE [code |-> code, val |-> result]
     IN  /\ code' = built.code
         /\ Call(Below, Frame(Top.node, <<built.val>>))

AfterRightLogical ==
  /\ HandedUp /\ IsBinary(Top.node) /\ ~MissesChild /\ Top.node.tok \in Logical
  /\ LET rv == IntToBoolean(code, result)
     IN  HandUp(Below, BooleanToInt(Build(rv.code, Opcode(Top.node.tok), Top.vals[1], rv.val)))

AfterRightRelational ==
  /\ HandedUp /\ IsBinary(Top.node) /\ ~MissesChild /\ Top.node.tok \in Relational
  /\ HandUp(Below, BooleanToInt(Build(code, Opcode(Top.node.tok), Top.vals[1], result)))

AfterRightArithmetic ==
  /\ HandedUp /\ IsBinary(Top.node) /\ ~MissesChild
  /\ Top.node.tok \in Additive \cup Multiplicative
  /\ HandUp(Below, Build(code, Opcode(Top.node.tok), Top.vals[1], result))

\* codeGenUnaryExp behind its operand.  CreateNeg subtracts from the zero of its
\* operand's type; a void call's has none, and what becomes of it is left out.
EndUnary ==
  /\ HandedUp /\ IsUnary(Top.node)
  /\ \/ /\ Top.node.tok = "+"
        /\ HandUp(Below, [code |-> code, val |-> result])
     \/ /\ Top.node.tok = "-"
        /\ HandUp(Below, Build(code, "sub", Const(result.ty, 0), result))
     \/ /\ Top.node.tok = "!"
        /\ HandUp(Below, BooleanToInt(Build(code, "eq", Zero, result)))

\* codeGenLVal behind the subscript
EndElement ==
  /\ HandedUp /\ Top.node.tok = "ident"
  /\ HandUp(Below, Effect("element", ElementType(Top.node.name), Received, Top.node.name))

\* The loop over the arguments, and codeGenStmt between expression and subscript.
NextChild ==
  /\ HandedUp /\ Top.node.tok \in {"call", "assign"} /\ MissesChild
  /\ Call(Below, Frame(Top.node, Received))
  /\ UNCHANGED code

EndCall ==
  /\ HandedUp /\ Top.node.tok = "call" /\ ~MissesChild
  /\ HandUp(Below, Effect("call", ReturnType(Top.node.name), Received, Top.node.name))

\* codeGenStmt, codeGenIfStmt and codeGenWhileStmt behind their expressions.  An
\* instruction without a value ends the statement.
Finish(built) ==
  /\ code' = built.code
  /\ status' = "done"
  /\ UNCHANGED <<stack, entered, result>>

EndReturn ==
  /\ HandedUp /\ Top.node.tok = "return"
  /\ Finish(Effect("ret", "void", <<result>>, "return"))

EndExpStatement ==
  /\ HandedUp /\ Top.node.tok = "exp"
  /\ Finish([code |-> code, val |-> result])

EndCondition ==
  /\ HandedUp /\ Top.node.tok = "condition"
  /\ LET cond == IntToBoolean(code, result)
     IN  Finish([cond EXCEPT !.code = Append(@, Instr("condbr", "void", <<cond.val>>, "condition"))])

\* setGlobalValue loads a variable before it stores to it, and takes the value for
\* nothing; an element is stored to at once.
AssignsGlobal(node) == node.tok = "assign" /\ Kids(node) = 1 /\ node.name \in Globals

EndAssign ==
  /\ HandedUp /\ Top.node.tok = "assign" /\ ~MissesChild
  /\ LET name == Top.node.name
         before == IF AssignsGlobal(Top.node)
                   THEN Append(code, Instr("load", ValueType(name), << >>, name)) ELSE code
     IN  Finish([code |-> Append(before, Instr("store", "void", Received, name)), val |-> result])

\* A statement that is compiled, or a crash, stays.
Finished == status # "generating" /\ UNCHANGED vars

Next ==
  \/ Number \/ NumberThrows \/ Load \/ CallNoArguments \/ Begin
  \/ AfterLeft \/ AfterRightLogical \/ AfterRightRelational \/ AfterRightArithmetic
  \/ EndUnary \/ EndElement \/ NextChild \/ EndCall
  \/ EndReturn \/ EndExpStatement \/ EndCondition \/ EndAssign
  \/ Finished

Spec == Init /\ [][Next]_vars

-----------------------------------------------------------------------------
(* Properties *)

\* Constants fit 64 bits.
Numbers == (-LongLimit)..(LongLimit - 1)
ForeignTypes == {"ptr", "aggregate", "void"}
Types == {"i64", "i1", "ptr", "aggregate", "void"}
Values ==
  [kind : {"const"}, ty : {"i64", "i1"}, n : Numbers]
  \cup [kind : {"const"}, ty : ForeignTypes, n : {0}]
  \cup [kind : {"poison"}, ty : {"i64", "i1"}, n : {0}]
  \cup [kind : {"reg"}, ty : Types, n : Nat \ {0}]
Others == {"zext", "load", "element", "call", "store", "ret", "condbr"}
Purposes == {NoEffect, "return", "condition"} \cup STRING
Instructions == [op : Operations \cup Others, ty : Types, args : Seq(Values), for : Purposes]

IsFrame(f) ==
  /\ IsExpression(f.node) \/ IsStatement(f.node)
  /\ f.vals \in Seq(Values) /\ Len(f.vals) < Kids(f.node)

\* The types of the variables.  A handler on the stack waits for a child it has.
TypeOK ==
  /\ \A d \in 1..Len(stack) : IsFrame(stack[d])
  /\ entered = NoNode \/ IsExpression(entered)
  /\ result \in Values
  /\ code \in Seq(Instructions)
  /\ status \in {"generating", "done", "crashed"}

\* What the operands of an instruction have to be: conditions are i1, all else
\* computes on 64-bit integers.
OperandType(op) == IF op \in Connectives \cup {"zext", "condbr"} THEN "i1" ELSE "i64"

\* Where an instruction's foreign type comes from: an array's name, a void call, an
\* element of a global array, or an operand of that type in arithmetic.
GivesForeign(i) ==
  \/ i.op = "load" /\ i.for \in Arrays
  \/ i.op = "call" /\ i.for \in VoidFunctions
  \/ i.op = "element" /\ i.for \in Arrays \cap Globals
  \/ i.op \in Arithmetic /\ \E v \in {i.args[1], i.args[2]} : v.kind = "reg" /\ v.ty = i.ty

\* The operand v of the k-th instruction, op: of the type op takes, or foreign.
FitsAt(c, k, v, op) ==
  /\ v.kind = "reg" => v.n \in 1..(k - 1) /\ c[v.n].ty = v.ty
  /\ v.ty # OperandType(op) =>
       /\ OperandType(op) = "i64" /\ v.ty \in ForeignTypes
       /\ IF v.kind = "reg" THEN GivesForeign(c[v.n]) ELSE op = "sub" /\ v = Const(v.ty, 0)

\* Operands are results of earlier instructions, of the type the instruction
\* takes: intToBoolean and booleanToInt stand between any two operators that
\* need them, and i1 and i64 are never confused.  Where a number is needed there
\* is something else only when an array or a void call is taken for one, which
\* nothing in the generator checks, or an element of a global array, which
\* getGlobalValue loads at the array's type: the departure that NamedValues
\* shows (ArraysAreNotLoaded).
OperandsTyped ==
  \A k \in 1..Len(code) : \A i \in 1..Len(code[k].args) :
    FitsAt(code, k, code[k].args[i], code[k].op)
=============================================================================
