------------------------- MODULE ExpressionMeaning -------------------------
(***************************************************************************)
(* What an l24 expression means, and what the instructions do that         *)
(* Expressions emits for it.  Both are given as what can be observed: the  *)
(* effects in their order, that is each load, access to an element, call,  *)
(* store, return and branch, with the values of its operands.  What reads  *)
(* and calls yield is up to a world: the n-th effect yields the n-th value *)
(* of it.  A value is {n}, or {} where the language defines none.          *)
(***************************************************************************)
EXTENDS Expressions

CONSTANTS
  MaxHeight,  \* of the expressions in the statements
  Worlds      \* sequences of numbers

\* The expressions of height h and less.
Identifiers == STRING \ {NoEffect}
Trees[h \in 0..MaxHeight] ==
  IF h = 0 THEN {}
  ELSE {t \in [tok : STRING, name : Identifiers, n : Nat, kids : Seq(Trees[h - 1])] :
          IsExpression(t)}

ASSUME HeightAssumption ==
  /\ MaxHeight \in Nat
  /\ \A s \in Statements :
       TreeOf(s).name \in Identifiers /\ TreeOf(s).kids \in Seq(Trees[MaxHeight])

ASSUME WorldsAssumption == Worlds \subseteq Seq(Numbers)

Undetermined == {}

Observed(for, args) == [for |-> for, args |-> args]
Seen == Seq([for : Purposes, args : Seq(SUBSET Int)])

\* What the effect behind those seen yields.  A world goes on with zeros.
Yield(world, seen) == {IF Len(seen) < Len(world) THEN world[Len(seen) + 1] ELSE 0}

-----------------------------------------------------------------------------
(* The source *)

\* The quotient is the number that leaves a remainder smaller than the divisor
\* and of the dividend's sign.
DividesBy(a, b, q) ==
  LET r == a - b * q IN Magnitude(r) < Magnitude(b) /\ (r = 0 \/ (r < 0) = (a < 0))

\* The operators on numbers of LongLimit's width: arithmetic wraps around, the
\* connectives take any number but zero for true.
Means(tok, a, b) ==
  CASE tok \in {"/", "%"} ->
         LET q == {x \in Numbers : DividesBy(a, b, x)}
         IN  IF b = 0 \/ q = {} THEN Undetermined
             ELSE IF tok = "/" THEN q ELSE {a - b * x : x \in q}
    [] tok \in {"+", "-", "*"} ->
         LET n == IF tok = "+" THEN a + b ELSE IF tok = "-" THEN a - b ELSE a * b
         IN  {x \in Numbers : (x - n) % (2 * LongLimit) = 0}
    [] tok = "==" -> {Truth(a = b)}
    [] tok = "!=" -> {Truth(a # b)}
    [] tok = "<"  -> {Truth(a < b)}
    [] tok = ">"  -> {Truth(b < a)}
    [] tok = "<=" -> {Truth(a <= b)}
    [] tok = ">=" -> {Truth(b <= a)}
    [] tok = "&&" -> {Truth(0 \notin {a, b})}
    [] tok = "||" -> {Truth({a, b} # {0})}

Lift(tok, l, r) == UNION {Means(tok, p[1], p[2]) : p \in l \X r}

\* The values of a node's first j children, evaluated from left to right behind
\* the effects seen, and what is seen then.  kid evaluates a child.
Children(node, seen, kid, j) ==
  LET upto[i \in 0..Kids(node)] ==
        IF i = 0 THEN [vals |-> << >>, seen |-> seen]
        ELSE LET m == kid[<<node.kids[i], upto[i - 1].seen>>]
             IN  [vals |-> Append(upto[i - 1].vals, m.val), seen |-> m.seen]
  IN  upto[j]

\* What an identifier yields is a number unless it is an array, and with a
\* subscript when it is one.  Of the elements of a global array nothing is said.
IsKnown(node) ==
  IF Kids(node) = 0 THEN node.name \notin Arrays ELSE node.name \in Arrays \ Globals

\* Evaluates a node in a world: its children, each once, then the node.
Meaning(node, seen, kid, world) ==
  LET kids == Children(node, seen, kid, Kids(node))
      Yields(val) == [val |-> val, seen |-> kids.seen]
      Does(for, args, known) ==
        [val |-> IF known THEN Yield(world, kids.seen) ELSE Undetermined,
         seen |-> Append(kids.seen, Observed(for, args))]
  IN  CASE IsBinary(node) -> Yields(Lift(node.tok, kids.vals[1], kids.vals[2]))
        [] IsUnary(node) -> Yields(Lift(IF node.tok = "!" THEN "==" ELSE node.tok, {0}, kids.vals[1]))
        [] node.tok = "number" -> Yields(IF node.n < IntLimit THEN {node.n} ELSE Undetermined)
        [] node.tok = "ident" -> Does(node.name, kids.vals, IsKnown(node))
        [] node.tok = "call" -> Does(node.name, kids.vals, node.name \notin VoidFunctions)
        [] node.tok = "exp" -> Yields(kids.vals[1])
        [] node.tok = "return" -> Does("return", kids.vals, FALSE)
        [] node.tok = "condition" -> Does("condition", <<Lift("!=", {0}, kids.vals[1])>>, FALSE)
        [] node.tok = "assign" -> Does(node.name, kids.vals, FALSE)

\* Evaluates the expressions of height h and less.
Evaluation(world, h) ==
  LET eval[g \in 0..MaxHeight] ==
        IF g = 0 THEN << >>
        ELSE [x \in Trees[g] \X Seen |-> Meaning(x[1], x[2], eval[g - 1], world)]
  IN  eval[h]

SourceEffects(statement, world) ==
  Meaning(statement, << >>, Evaluation(world, MaxHeight), world).seen

-----------------------------------------------------------------------------
(* The code *)

ValueOf(v, vals) ==
  CASE v.kind = "const" -> {v.n}
    [] v.kind = "poison" -> Undetermined
    [] v.kind = "reg" -> vals[v.n]

Result(op, args) ==
  IF op = "zext" THEN args[1]
  ELSE {Compute(op, p[1], p[2]) : p \in {q \in args[1] \X args[2] : ~Undefined(op, q[1], q[2])}}

\* Executes an instruction behind those that had the values and effects of s.
Execute(s, i, world) ==
  LET args == [j \in 1..Len(i.args) |-> ValueOf(i.args[j], s.vals)]
  IN  IF i.for = NoEffect
      THEN [vals |-> Append(s.vals, Result(i.op, args)), seen |-> s.seen]
      ELSE [vals |-> Append(s.vals, IF i.ty = "i64" THEN Yield(world, s.seen) ELSE Undetermined),
            seen |-> Append(s.seen, Observed(i.for, args))]

\* Executes instructions in a world: the value of each, and the effects.
Execution(c, world) ==
  LET run[k \in 0..Len(c)] ==
        IF k = 0 THEN [vals |-> << >>, seen |-> << >>] ELSE Execute(run[k - 1], c[k], world)
  IN  run[Len(c)]

-----------------------------------------------------------------------------
(* Properties *)

\* The effects of target are those of source, in their order, with operands
\* that are what source gives them.  Of one that source leaves without a value
\* nothing is said.
Shows(target, source) ==
  /\ Len(target) = Len(source)
  /\ \A i \in 1..Len(source) :
       /\ target[i].for = source[i].for
       /\ Len(target[i].args) = Len(source[i].args)
       /\ \A j \in 1..Len(source[i].args) : source[i].args[j] \subseteq target[i].args[j]

\* The one instruction without a counterpart in the source: setGlobalValue's load
\* before its store, which does not take the value.
IdleLoad(name, c) ==
  /\ Len(c) > 1 /\ c[Len(c) - 1] = Instr("load", ValueType(name), << >>, name)
  /\ \A j \in 1..Len(c[Len(c)].args) :
       c[Len(c)].args[j].kind = "reg" => c[Len(c)].args[j].n # Len(c) - 1

\* The code of a statement without it.
Needed(node, c) ==
  IF AssignsGlobal(node) THEN Append(SubSeq(c, 1, Len(c) - 2), c[Len(c)]) ELSE c

\* The code of a statement has the effects the source has, in the source's
\* order, each once, with the operands the source gives them: &&, || and ! make
\* 0 or 1 of any number, division and wrap-around are those of 64 bits, and
\* what IRBuilder computes at compile time is what would have been computed at
\* run time.  An assignment to a global variable has one effect more, its idle
\* load.  Nothing is said of an operand the source leaves without a value (a
\* division by zero, an array or a void call taken for a number, a literal that
\* is no int) nor of the value of an element of a global array, which the code
\* loads at the array's type (ArraysAreNotLoaded of NamedValues).  && and ||
\* evaluate both operands, in the source as the README defines it and in the code.
CodeComputesSource ==
  status = "done" =>
    LET node == stack[1].node
    IN  /\ AssignsGlobal(node) => IdleLoad(node.name, code)
        /\ \A world \in Worlds :
             Shows(Execution(Needed(node, code), world).seen, SourceEffects(node, world))
=============================================================================
