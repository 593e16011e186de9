--------------------------- MODULE MCExpressions ---------------------------
(* Statements whose expressions have up to two operators, calls and subscripts. *)
EXTENDS ExpressionMeaning

BinaryTokens == Logical \cup Relational \cup Additive \cup Multiplicative

Number1(n) == Tree("number", "", n, << >>)
Name(v) == Tree("ident", v, 0, << >>)
NoCall == Tree("call", "f", 0, << >>)

\* A node with operands taken from l and r.
Operators == BinaryTokens \cup {"g", "f", "v", "x", "y", "neg", "pos", "not"}
Node(op, l, r) ==
  CASE op \in BinaryTokens -> Tree(op, "", 0, <<l, r>>)
    [] op = "g" -> Tree("call", "g", 0, <<l, r>>)
    [] op \in {"f", "v"} -> Tree("call", op, 0, <<l>>)
    [] op \in {"x", "y"} -> Tree("ident", op, 0, <<l>>)
    [] op = "neg" -> Tree("-", "", 0, <<l>>)
    [] op = "pos" -> Tree("+", "", 0, <<l>>)
    [] op = "not" -> Tree("!", "", 0, <<l>>)
    [] op = "leaf" -> l

\* With the limits 4 and 8 of the run 4 to 7 are no ints, 7 is cut to -1, and 8 is
\* no long long.
Leaves ==
  {<<Name("a"), Name("b"), Number1(1)>>, <<Name("y"), Number1(1), NoCall>>,
   <<Number1(1), Number1(1), Name("a")>>, <<Number1(3), Number1(3), Number1(3)>>,
   <<Number1(4), Number1(4), Number1(7)>>, <<Number1(5), Name("x"), Name("a")>>,
   <<Name("x"), Number1(8), Name("b")>>}

\* Two operators, the inner one on the left or on the right.
Expression(outer, inner, left, leaf) ==
  LET e == Node(inner, leaf[1], leaf[2])
  IN  IF left THEN Node(outer, e, leaf[3]) ELSE Node(outer, leaf[3], e)

Statement(kind, e, i) ==
  CASE kind = "element" -> Tree("assign", "x", 0, <<e, i>>)
    [] kind = "assign" -> Tree("assign", "a", 0, <<e>>)
    [] kind = "global" -> Tree("assign", "b", 0, <<e>>)
    [] OTHER -> Tree(kind, "", 0, <<e>>)

Shapes == Operators \cup {"leaf"}
MCStatements ==
  {"return", "exp", "condition", "assign", "global", "element"} \X Shapes \X Shapes \X BOOLEAN \X Leaves
MCTreeOf(s) == Statement(s[1], Expression(s[2], s[3], s[4], s[5]), Node(s[3], s[5][2], s[5][1]))

MCWorlds ==
  {<<i, j, i, j, i, j, i, j>> : i, j \in {-8, -1, 0, 3}} \cup {<<1, -3, 2, 3, -2, 1, 0, 7>>}
=============================================================================
