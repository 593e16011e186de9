------------------------- MODULE ExpressionsProofs -------------------------
(***************************************************************************)
(* Theorems about Expressions, for all statements: the variables keep      *)
(* their types, constants fit 64 bits, and operands have the types their   *)
(* instructions take, but for arrays, elements of global arrays and void   *)
(* calls.  The statements come from a set of trees, forest, that has the   *)
(* children of each of its trees.  And one about ExpressionMeaning: the    *)
(* code has the effects the source has, in every world.  There the forest  *)
(* is that of the trees of MaxHeight.                                      *)
(***************************************************************************)
EXTENDS ExpressionMeaning, SequenceTheorems, WellFoundedInduction, TLAPS

IsForest(forest) ==
  /\ \A t \in forest :
       /\ t.name \in STRING /\ t.n \in Nat /\ IsExpression(t)
       /\ t.kids \in Seq(forest)
  /\ \A s \in Statements :
       TreeOf(s).name \in STRING /\ TreeOf(s).kids \in Seq(forest)

-----------------------------------------------------------------------------
(* Arithmetic *)

\* Cutting a number to a width gives a number of that width.
LEMMA SignedInRange ==
  ASSUME NEW n \in Int, NEW limit \in Nat \ {0}
  PROVE  Signed(n, limit) \in (-limit)..(limit - 1)
BY SMT DEF Signed

\* A remainder is smaller than the divisor, a quotient no larger than the
\* dividend, and smaller when the divisor is not one.
LEMMA Division ==
  ASSUME NEW m \in Nat, NEW d \in Nat \ {0}
  PROVE  /\ m \div d \in Nat
         /\ m - d * (m \div d) \in 0..(d - 1)
         /\ m \div d <= m
         /\ d > 1 /\ m > 0 => m \div d < m
<1> DEFINE q == m \div d
<1>1. q \in Int /\ d * q <= m /\ m < d * q + d
  BY SMT
<1>2. q >= 0
  <2>1. SUFFICES ASSUME q <= -1 PROVE FALSE
    BY <1>1, SMT
  <2>2. d * q <= -d
    BY <1>1, <2>1, SMT
  <2> QED
    BY <1>1, <2>2, SMT
<1>3. q <= d * q
  BY <1>1, <1>2, SMT
<1>4. d > 1 /\ m > 0 => q < m
  <2>1. SUFFICES ASSUME d > 1, m > 0 PROVE q < m
    OBVIOUS
  <2>2. 2 * q <= d * q
    BY <1>1, <1>2, <2>1, SMT
  <2> QED
    BY <1>1, <1>2, <2>1, <2>2, SMT
<1>5. m - d * q \in 0..(d - 1)
  BY <1>1, SMT
<1> HIDE DEF q
<1>6. /\ q \in Nat
      /\ m - d * q \in 0..(d - 1)
      /\ q <= m
      /\ d > 1 /\ m > 0 => q < m
  BY <1>1, <1>2, <1>3, <1>4, <1>5, SMT
<1> QED
  BY <1>6 DEF q

\* The defined divisions of 64-bit numbers have 64-bit results.
LEMMA QuotientInRange ==
  ASSUME NEW a \in Numbers, NEW b \in Numbers, b # 0, ~(b = -1 /\ a = -LongLimit)
  PROVE  Quotient(a, b) \in Numbers /\ a - b * Quotient(a, b) \in Numbers
<1> DEFINE m == Magnitude(a)
           d == Magnitude(b)
           q == m \div d
<1>1. LongLimit \in Nat \ {0} /\ a \in Int /\ b \in Int
  BY LimitsAssumption, SMT DEF Numbers
<1>2. m \in Nat /\ d \in Nat \ {0} /\ m <= LongLimit /\ d <= LongLimit
  BY <1>1, SMT DEF Numbers, Magnitude
<1>3. /\ q \in Nat /\ m - d * q \in 0..(d - 1)
      /\ q <= m /\ (d > 1 /\ m > 0 => q < m)
  <2> HIDE DEF m, d
  <2> QED
    BY <1>2, Division
<1>4. Quotient(a, b) = (IF (a < 0) = (b < 0) THEN q ELSE -q)
  BY DEF Quotient
<1>5. q <= LongLimit - 1 \/ (Quotient(a, b) = -q /\ q <= LongLimit)
  <2>1. CASE m < LongLimit
    BY <1>1, <1>2, <1>3, <2>1, SMT
  <2>2. CASE m = LongLimit /\ d > 1
    BY <1>1, <1>2, <1>3, <2>2, SMT
  <2>3. CASE m = LongLimit /\ d = 1
    <3>1. a = -LongLimit /\ b = 1
      BY <1>1, <2>3, SMT DEF Numbers, Magnitude
    <3>2. Quotient(a, b) = -q
      BY <1>1, <1>4, <3>1, SMT
    <3> QED
      BY <1>1, <1>2, <1>3, <3>2, SMT
  <2> QED
    BY <1>1, <1>2, <2>1, <2>2, <2>3, SMT
<1>6. Quotient(a, b) \in {q, -q}
  BY <1>4
<1>7. Quotient(a, b) \in Numbers
  <2> HIDE DEF q
  <2> QED
    BY <1>1, <1>3, <1>5, <1>6, SMT DEF Numbers
<1>8. a - b * Quotient(a, b) \in {m - d * q, -(m - d * q)}
  <2>1. CASE a < 0 /\ b < 0
    BY <1>1, <1>3, <1>4, <2>1, SMT DEF Magnitude
  <2>2. CASE a < 0 /\ ~(b < 0)
    BY <1>1, <1>3, <1>4, <2>2, SMT DEF Magnitude
  <2>3. CASE ~(a < 0) /\ b < 0
    BY <1>1, <1>3, <1>4, <2>3, SMT DEF Magnitude
  <2>4. CASE ~(a < 0) /\ ~(b < 0)
    BY <1>1, <1>3, <1>4, <2>4, SMT DEF Magnitude
  <2> QED
    BY <2>1, <2>2, <2>3, <2>4
<1>9. a - b * Quotient(a, b) \in Numbers
  <2> DEFINE r == m - d * q
  <2>1. r \in 0..(LongLimit - 1)
    BY <1>1, <1>2, <1>3, SMT
  <2>2. a - b * Quotient(a, b) \in {r, -r}
    BY <1>8
  <2> HIDE DEF r
  <2> QED
    BY <1>1, <2>1, <2>2, SMT DEF Numbers
<1> QED
  BY <1>7, <1>9

\* What an operation computes of 64-bit numbers is a 64-bit number, and an i1
\* is 0 or 1.
LEMMA ComputeInRange ==
  ASSUME NEW op \in Operations, NEW a \in Numbers, NEW b \in Numbers, ~Undefined(op, a, b)
  PROVE  Compute(op, a, b) \in Numbers
<1>1. LongLimit \in Nat \ {0} /\ a \in Int /\ b \in Int
  BY LimitsAssumption, SMT DEF Numbers
<1>2. a + b \in Int /\ a - b \in Int /\ a * b \in Int
  BY <1>1, SMT
<1>3. CASE op \in {"add", "sub", "mul"}
  <2>1. Compute(op, a, b) \in
          {Signed(a + b, LongLimit), Signed(a - b, LongLimit), Signed(a * b, LongLimit)}
    BY <1>3 DEF Compute
  <2> QED
    BY <1>1, <1>2, <2>1, SignedInRange DEF Numbers
<1>4. CASE op \in {"sdiv", "srem"}
  <2>1. b # 0 /\ ~(b = -1 /\ a = -LongLimit)
    BY <1>4 DEF Undefined
  <2>2. Compute(op, a, b) \in {Quotient(a, b), a - b * Quotient(a, b)}
    BY <1>4 DEF Compute
  <2> QED
    BY <2>1, <2>2, QuotientInRange
<1>5. CASE op \in Comparisons \cup Connectives
  <2>1. Compute(op, a, b) \in {0, 1}
    BY <1>5 DEF Compute, Truth, Comparisons, Connectives
  <2> QED
    BY LimitsAssumption, <1>1, <2>1, SMT DEF Numbers
<1> QED
  BY <1>3, <1>4, <1>5 DEF Operations, Comparisons, Connectives, Arithmetic

-----------------------------------------------------------------------------
(* Instructions *)

Defined(v, c) == v.kind = "reg" => v.n \in 1..Len(c) /\ c[v.n].ty = v.ty

\* What a handler may hand up, and what a condition is made of.
Usable(v, c) ==
  /\ v \in Values /\ Defined(v, c)
  /\ v.ty # "i64" => v.kind = "reg" /\ v.ty \in ForeignTypes /\ GivesForeign(c[v.n])
Condition(v, c) == v \in Values /\ Defined(v, c) /\ v.ty = "i1"

\* What CreateNeg subtracts an operand of a foreign type from.
IsNull(v) == v.ty \in ForeignTypes /\ v = Const(v.ty, 0)

\* An operand of an instruction behind those of c.
Fits(v, c, op) ==
  IF OperandType(op) = "i1" THEN Condition(v, c)
  ELSE Usable(v, c) \/ (op = "sub" /\ IsNull(v))

CodeTyped(c) ==
  /\ c \in Seq(Instructions)
  /\ \A k \in 1..Len(c) : \A i \in 1..Len(c[k].args) : FitsAt(c, k, c[k].args[i], c[k].op)

Extends(c, d) == Len(c) <= Len(d) /\ \A k \in 1..Len(c) : d[k] = c[k]

\* b is built behind c: its code, and its value of a type.
IsBuilt(b, c, ty) ==
  /\ CodeTyped(b.code) /\ Extends(c, b.code)
  /\ b.val \in Values /\ Defined(b.val, b.code) /\ b.val.ty = ty

\* More code does not make a value less usable.
LEMMA StillUsable ==
  ASSUME NEW c \in Seq(Instructions), NEW d \in Seq(Instructions), Extends(c, d), NEW v
  PROVE  /\ Usable(v, c) => Usable(v, d)
         /\ Condition(v, c) => Condition(v, d)
<1>1. Len(c) \in Nat /\ Len(d) \in Nat
  OBVIOUS
<1>2. v.kind = "reg" /\ Defined(v, c) => v.n \in 1..Len(d) /\ d[v.n] = c[v.n]
  BY <1>1 DEF Defined, Extends
<1> QED
  BY <1>2 DEF Usable, Condition, Defined

\* An instruction whose operands fit is appended.
LEMMA AppendInstruction ==
  ASSUME NEW c, CodeTyped(c), NEW i \in Instructions,
         \A j \in 1..Len(i.args) : Fits(i.args[j], c, i.op)
  PROVE  /\ CodeTyped(Append(c, i)) /\ Extends(c, Append(c, i))
         /\ Len(c) + 1 \in 1..Len(Append(c, i)) /\ Append(c, i)[Len(c) + 1] = i
         /\ Reg(i.ty, Len(c) + 1) \in Values
<1> DEFINE d == Append(c, i)
<1>1. c \in Seq(Instructions) /\ Len(c) \in Nat
  BY DEF CodeTyped
<1>2. /\ d \in Seq(Instructions) /\ Len(d) = Len(c) + 1 /\ d[Len(c) + 1] = i
      /\ \A k \in 1..Len(c) : d[k] = c[k]
  BY <1>1
<1>3. Extends(c, d)
  BY <1>1, <1>2 DEF Extends
<1>4. ASSUME NEW k \in 1..Len(d), NEW j \in 1..Len(d[k].args)
      PROVE  FitsAt(d, k, d[k].args[j], d[k].op)
  <2> DEFINE v == d[k].args[j]
  <2>1. CASE k <= Len(c)
    <3>1. k \in 1..Len(c) /\ d[k] = c[k]
      BY <1>1, <1>2, <2>1
    <3>2. FitsAt(c, k, v, d[k].op)
      BY <1>4, <3>1 DEF CodeTyped
    <3>3. v.kind = "reg" => d[v.n] = c[v.n]
      BY <1>1, <1>2, <3>1, <3>2 DEF FitsAt
    <3> QED
      BY <3>2, <3>3 DEF FitsAt
  <2>2. CASE k = Len(c) + 1
    <3>1. d[k] = i /\ Fits(v, c, i.op)
      BY <1>2, <1>4, <2>2
    <3>2. Defined(v, c)
      BY <3>1 DEF Fits, Usable, Condition, IsNull, Const, Defined
    <3>3. v.kind = "reg" => v.n \in 1..(k - 1) /\ d[v.n] = c[v.n] /\ c[v.n].ty = v.ty
      BY <1>1, <1>2, <2>2, <3>2 DEF Defined
    <3>4. v.ty # OperandType(i.op) =>
            OperandType(i.op) = "i64" /\ (Usable(v, c) \/ (i.op = "sub" /\ IsNull(v)))
      BY <3>1 DEF Fits, Condition, OperandType
    <3>5. IsNull(v) => v.kind = "const" /\ v.ty \in ForeignTypes /\ v = Const(v.ty, 0)
      BY DEF IsNull, Const
    <3> QED
      BY <3>1, <3>3, <3>4, <3>5 DEF FitsAt, Usable
  <2> QED
    BY <1>1, <1>2, <2>1, <2>2
<1>5. CodeTyped(d)
  BY <1>2, <1>4 DEF CodeTyped
<1>6. Reg(i.ty, Len(c) + 1) \in Values
  BY <1>1 DEF Reg, Values, Instructions
<1> QED
  BY <1>1, <1>2, <1>3, <1>5, <1>6

\* Constants fold to constants of the operation's type.
LEMMA FoldTyped ==
  ASSUME NEW op \in Operations, NEW l \in Values, NEW r \in Values,
         IsConstant(l), IsConstant(r), op \in Connectives => r.ty = "i1",
         op \in Arithmetic => l.ty = "i64"
  PROVE  Fold(op, l, r) \in Values /\ Fold(op, l, r).ty = ResultType(op, l) /\ IsConstant(Fold(op, l, r))
<1>1. ResultType(op, l) \in {"i64", "i1"} /\ (op \in Connectives => ResultType(op, l) = "i1")
  BY DEF ResultType, Operations
<1>2. Poison(ResultType(op, l)) \in Values
  BY <1>1 DEF Poison, Values
<1>3. CASE l.kind = "poison" \/ (op \notin Connectives /\ r.kind = "poison")
  BY <1>2, <1>3 DEF Fold, Poison, IsConstant
<1>4. CASE /\ ~(l.kind = "poison" \/ (op \notin Connectives /\ r.kind = "poison"))
           /\ r.kind = "poison"
           /\ (op = "and") = (l.n # 0)
  <2>1. Fold(op, l, r) = r
    BY <1>4 DEF Fold
  <2> QED
    BY <1>1, <1>4, <2>1
<1>5. CASE /\ ~(l.kind = "poison" \/ (op \notin Connectives /\ r.kind = "poison"))
           /\ ~(r.kind = "poison" /\ (op = "and") = (l.n # 0))
  <2>1. CASE Undefined(op, l.n, r.n)
    BY <1>2, <1>5, <2>1 DEF Fold, Poison, IsConstant
  <2>2. CASE ~Undefined(op, l.n, r.n)
    <3>1. Fold(op, l, r) = Const(ResultType(op, l), Compute(op, l.n, r.n))
      BY <1>5, <2>2 DEF Fold
    <3>2. 0 \in Numbers
      BY LimitsAssumption, SMT DEF Numbers
    <3>3. l.n \in Numbers /\ r.n \in Numbers
      BY <3>2 DEF Values, IsConstant
    <3>4. Compute(op, l.n, r.n) \in Numbers
      BY <2>2, <3>3, ComputeInRange
    <3> QED
      BY <1>1, <3>1, <3>4 DEF Const, Values, IsConstant
  <2> QED
    BY <2>1, <2>2
<1> QED
  BY <1>3, <1>4, <1>5

\* NoEffect is a purpose like the others.
LEMMA NoPurpose == NoEffect \in Purposes
BY DEF Purposes

\* An operand of an instruction is a value, and is there.
LEMMA FitsTyped ==
  ASSUME NEW c, NEW op, NEW v, Fits(v, c, op)
  PROVE  v \in Values /\ Defined(v, c)
<1>1. ASSUME IsNull(v) PROVE v \in Values /\ Defined(v, c)
  <2>1. v = [kind |-> "const", ty |-> v.ty, n |-> 0] /\ v.ty \in ForeignTypes
    BY <1>1 DEF IsNull, Const
  <2> QED BY <2>1 DEF Values, Defined
<1> QED BY <1>1 DEF Fits, Usable, Condition

LEMMA ResultTypeTyped ==
  ASSUME NEW op, NEW l \in Values
  PROVE  ResultType(op, l) \in Types
<1>1. l.ty \in Types
  BY DEF Values, Types, ForeignTypes
<1> QED BY <1>1 DEF ResultType, Types

\* An operation on operands it takes.
LEMMA BuildTyped ==
  ASSUME NEW c, CodeTyped(c), NEW op \in Operations, NEW l, NEW r,
         Fits(l, c, op), Fits(r, c, op),
         IsNull(l) => r.kind = "reg" /\ r.ty = l.ty
  PROVE  IsBuilt(Build(c, op, l, r), c, ResultType(op, l))
<1>1. l \in Values /\ r \in Values /\ c \in Seq(Instructions)
  BY FitsTyped DEF CodeTyped
<1>2. CASE IsConstant(l) /\ IsConstant(r)
  <2>1. op \in Connectives => r.ty = "i1"
    BY DEF Fits, OperandType, Condition
  <2>2. op \in Arithmetic => l.ty = "i64"
    <3>1. ASSUME op \in Arithmetic PROVE OperandType(op) = "i64"
      BY <3>1 DEF OperandType, Arithmetic, Connectives
    <3> QED BY <1>2, <3>1 DEF Fits, Usable, IsConstant
  <2>3. Build(c, op, l, r) = [code |-> c, val |-> Fold(op, l, r)]
    BY <1>2 DEF Build
  <2>4. /\ Fold(op, l, r) \in Values /\ Fold(op, l, r).ty = ResultType(op, l)
        /\ IsConstant(Fold(op, l, r))
    BY <1>1, <1>2, <2>1, <2>2, FoldTyped
  <2> QED
    BY <1>1, <2>3, <2>4 DEF IsBuilt, Extends, Defined, IsConstant
<1>3. CASE ~(IsConstant(l) /\ IsConstant(r))
  <2> DEFINE i == Instr(op, ResultType(op, l), <<l, r>>, NoEffect)
  <2>1. i \in Instructions
    <3>1. <<l, r>> \in Seq(Values)
      BY <1>1
    <3>2. op \in Operations \cup Others /\ ResultType(op, l) \in Types
      BY <1>1, ResultTypeTyped
    <3> QED
      BY <3>1, <3>2, NoPurpose DEF Instr, Instructions
  <2>2. \A j \in 1..Len(i.args) : Fits(i.args[j], c, i.op)
    BY DEF Instr
  <2>3. i.ty = ResultType(op, l)
    BY DEF Instr
  <2>4. Build(c, op, l, r) = [code |-> Append(c, i), val |-> Reg(i.ty, Len(c) + 1)]
    BY <1>3, <2>3 DEF Build
  <2> HIDE DEF i
  <2>5. /\ CodeTyped(Append(c, i)) /\ Extends(c, Append(c, i))
        /\ Len(c) + 1 \in 1..Len(Append(c, i)) /\ Append(c, i)[Len(c) + 1] = i
        /\ Reg(i.ty, Len(c) + 1) \in Values
    BY <2>1, <2>2, AppendInstruction
  <2>6. /\ Defined(Reg(i.ty, Len(c) + 1), Append(c, i))
        /\ Reg(i.ty, Len(c) + 1).ty = ResultType(op, l)
    BY <2>3, <2>5 DEF Defined, Reg
  <2> QED
    BY <2>4, <2>5, <2>6 DEF IsBuilt
<1> QED
  BY <1>2, <1>3

\* Arithmetic on what may be handed up gives what may be handed up: where its
\* result is of a foreign type, so is an operand.
LEMMA ArithmeticTyped ==
  ASSUME NEW c, CodeTyped(c), NEW op \in Arithmetic, NEW l, NEW r,
         Fits(l, c, op), Usable(r, c),
         IsNull(l) => r.kind = "reg" /\ r.ty = l.ty
  PROVE  LET b == Build(c, op, l, r)
         IN  CodeTyped(b.code) /\ Extends(c, b.code) /\ Usable(b.val, b.code)
<1>1. op \in Operations /\ OperandType(op) = "i64" /\ ResultType(op, l) = l.ty
  BY DEF Operations, OperandType, ResultType, Arithmetic, Connectives, Comparisons
<1> DEFINE b == Build(c, op, l, r)
<1>2. IsBuilt(b, c, l.ty)
  <2>1. Fits(r, c, op)
    BY <1>1 DEF Fits
  <2> QED BY <1>1, <2>1, BuildTyped
<1>3. CASE l.ty = "i64"
  <2> HIDE DEF b
  <2>1. CodeTyped(b.code) /\ Extends(c, b.code) /\ Usable(b.val, b.code)
    BY <1>2, <1>3 DEF IsBuilt, Usable
  <2> QED BY <2>1 DEF b
<1>4. CASE l.ty # "i64"
  <2> DEFINE i == Instr(op, l.ty, <<l, r>>, NoEffect)
  <2>1. l.ty \in ForeignTypes /\ (l.kind = "reg" \/ (r.kind = "reg" /\ r.ty = l.ty))
    BY <1>1, <1>4 DEF Fits, Usable, IsNull
  <2>2. b = [code |-> Append(c, i), val |-> Reg(l.ty, Len(c) + 1)]
    BY <1>1, <2>1 DEF Build, IsConstant
  <2>3. i.op = op /\ i.ty = l.ty /\ i.args[1] = l /\ i.args[2] = r
    BY DEF Instr
  <2>4. GivesForeign(i)
    <3> HIDE DEF i
    <3> QED BY <2>1, <2>3 DEF GivesForeign
  <2> HIDE DEF i
  <2>5. Append(c, i)[Len(c) + 1] = i
    BY DEF CodeTyped
  <2>6. b.code = Append(c, i) /\ b.val = Reg(l.ty, Len(c) + 1)
    BY <2>2
  <2>7. b.val.n = Len(c) + 1 /\ b.val.kind = "reg"
    BY <2>6 DEF Reg
  <2> HIDE DEF b
  <2>8. GivesForeign(b.code[b.val.n])
    BY <2>4, <2>5, <2>6, <2>7
  <2>9. CodeTyped(b.code) /\ Extends(c, b.code) /\ Usable(b.val, b.code)
    BY <1>2, <2>1, <2>7, <2>8 DEF IsBuilt, Usable
  <2> QED BY <2>9 DEF b
<1> QED BY <1>3, <1>4

\* Zero is a number everywhere.
LEMMA ZeroUsable ==
  ASSUME NEW c
  PROVE  Usable(Zero, c)
<1>1. 0 \in Numbers
  BY LimitsAssumption, SMT DEF Numbers
<1> QED
  BY <1>1 DEF Usable, Zero, Const, Values, Defined

LEMMA ZeroNotNull == ~IsNull(Zero)
BY DEF IsNull, Zero, Const, ForeignTypes

\* A value that may be handed up is no such zero, nor is a condition.
LEMMA NotNull ==
  ASSUME NEW v, NEW c, Usable(v, c) \/ Condition(v, c)
  PROVE  ~IsNull(v)
<1>1. IsNull(v) => v.kind = "const" /\ v.ty \in ForeignTypes
  BY DEF IsNull, Const
<1> QED BY <1>1 DEF Usable, Condition, ForeignTypes

\* What a negation subtracts its operand from.
LEMMA NegationTyped ==
  ASSUME NEW c, NEW v, Usable(v, c)
  PROVE  LET zero == Const(v.ty, 0)
         IN  Fits(zero, c, "sub") /\ (IsNull(zero) => v.kind = "reg" /\ v.ty = zero.ty)
<1> DEFINE zero == Const(v.ty, 0)
<1>1. OperandType("sub") = "i64" /\ zero.ty = v.ty
  BY DEF OperandType, Connectives, Const
<1>2. CASE v.ty = "i64"
  <2>1. zero = Zero
    BY <1>2 DEF Zero
  <2> QED BY <1>1, <2>1, ZeroUsable, ZeroNotNull DEF Fits
<1>3. CASE v.ty # "i64"
  <2>1. v.kind = "reg" /\ v.ty \in ForeignTypes
    BY <1>3 DEF Usable
  <2>2. IsNull(zero)
    BY <1>1, <2>1 DEF IsNull
  <2> HIDE DEF zero
  <2>3. Fits(zero, c, "sub")
    BY <1>1, <2>2 DEF Fits
  <2> QED BY <1>1, <2>1, <2>3 DEF zero
<1> QED BY <1>2, <1>3

\* intToBoolean makes a condition of a value.
LEMMA IntToBooleanTyped ==
  ASSUME NEW c, CodeTyped(c), NEW v, Usable(v, c)
  PROVE  IsBuilt(IntToBoolean(c, v), c, "i1")
<1>1. "ne" \in Operations /\ ResultType("ne", Zero) = "i1" /\ OperandType("ne") = "i64"
  BY DEF Operations, Comparisons, Connectives, ResultType, OperandType
<1>2. Fits(Zero, c, "ne") /\ Fits(v, c, "ne") /\ ~IsNull(Zero)
  BY <1>1, ZeroUsable, ZeroNotNull DEF Fits
<1> QED
  BY <1>1, <1>2, BuildTyped DEF IntToBoolean

\* booleanToInt makes a number of a condition.
LEMMA BooleanToIntTyped ==
  ASSUME NEW c, c \in Seq(Instructions), NEW d, NEW v, IsBuilt([code |-> d, val |-> v], c, "i1")
  PROVE  IsBuilt(BooleanToInt([code |-> d, val |-> v]), c, "i64")
<1> DEFINE b == [code |-> d, val |-> v]
<1>1. /\ CodeTyped(d) /\ Extends(c, d) /\ v \in Values /\ Defined(v, d) /\ v.ty = "i1"
      /\ d \in Seq(Instructions)
  BY DEF IsBuilt, CodeTyped
<1>2. CASE IsConstant(v)
  <2> DEFINE w == [kind |-> v.kind, ty |-> "i64", n |-> v.n]
  <2>1. BooleanToInt(b) = [code |-> d, val |-> w]
    BY <1>2 DEF BooleanToInt
  <2>2. w \in Values /\ w.ty = "i64" /\ w.kind # "reg"
    BY <1>1, <1>2 DEF Values, IsConstant, ForeignTypes
  <2> HIDE DEF w
  <2> QED
    BY <1>1, <2>1, <2>2 DEF IsBuilt, Defined
<1>3. CASE ~IsConstant(v)
  <2> DEFINE i == Instr("zext", "i64", <<v>>, NoEffect)
  <2>1. i \in Instructions
    <3>1. <<v>> \in Seq(Values)
      BY <1>1
    <3> QED
      BY <3>1, NoPurpose DEF Instr, Instructions, Types, Others
  <2>2. \A j \in 1..Len(i.args) : Fits(i.args[j], d, i.op)
    BY <1>1 DEF Instr, Fits, OperandType, Condition
  <2>3. i.ty = "i64"
    BY DEF Instr
  <2>4. BooleanToInt(b) = [code |-> Append(d, i), val |-> Reg(i.ty, Len(d) + 1)]
    BY <1>3, <2>3 DEF BooleanToInt
  <2> HIDE DEF i
  <2>5. /\ CodeTyped(Append(d, i)) /\ Extends(d, Append(d, i))
        /\ Len(d) + 1 \in 1..Len(Append(d, i)) /\ Append(d, i)[Len(d) + 1] = i
        /\ Reg(i.ty, Len(d) + 1) \in Values
    BY <1>1, <2>1, <2>2, AppendInstruction
  <2>6. Defined(Reg(i.ty, Len(d) + 1), Append(d, i)) /\ Reg(i.ty, Len(d) + 1).ty = "i64"
    BY <2>3, <2>5 DEF Defined, Reg
  <2>7. Extends(c, Append(d, i))
    <3>1. Len(c) \in Nat /\ Len(d) \in Nat /\ Len(c) <= Len(d)
      BY <1>1 DEF Extends
    <3>2. \A k \in 1..Len(c) : k \in 1..Len(d)
      BY <3>1
    <3>3. Len(c) <= Len(Append(d, i))
      BY <1>1, <3>1
    <3> QED
      BY <1>1, <2>5, <3>2, <3>3 DEF Extends
  <2>8. /\ BooleanToInt(b).code = Append(d, i)
        /\ BooleanToInt(b).val = Reg(i.ty, Len(d) + 1)
    BY <2>4
  <2> HIDE DEF b
  <2>9. IsBuilt(BooleanToInt(b), c, "i64")
    BY <2>5, <2>6, <2>7, <2>8 DEF IsBuilt
  <2> QED
    BY <2>9 DEF b
<1> QED
  BY <1>2, <1>3

-----------------------------------------------------------------------------
(* The stack *)

StatementTokens == {"return", "exp", "condition", "assign"}
Nodes(forest) == forest \cup {TreeOf(s) : s \in Statements}

\* A frame holds values of children its node has, conditions if the node is
\* logical.
FrameTyped(f, c) ==
  /\ f.vals \in Seq(Values) /\ Len(f.vals) < Kids(f.node)
  /\ \A i \in 1..Len(f.vals) :
       IF f.node.tok \in Logical THEN Condition(f.vals[i], c) ELSE Usable(f.vals[i], c)

Frames(forest) == [node : Nodes(forest), vals : Seq(Values)]

\* The statement is at the bottom.
StackTyped(forest, st, c) ==
  /\ st \in Seq(Frames(forest)) /\ Len(st) > 0
  /\ st[1].node.tok \in StatementTokens
  /\ \A d \in 1..Len(st) : FrameTyped(st[d], c)

\* Nodes are expressions or statements, never both, and their children are
\* expressions.
LEMMA NodeTyped ==
  ASSUME NEW forest, IsForest(forest), NEW node \in Nodes(forest)
  PROVE  /\ node.name \in STRING /\ node.kids \in Seq(forest)
         /\ IsExpression(node) \/ IsStatement(node)
         /\ node \in forest => IsExpression(node) /\ node.n \in Nat
         /\ node.tok \in StatementTokens <=> ~IsExpression(node)
<1>1. CASE node \in forest
  BY <1>1 DEF IsForest, IsExpression, IsBinary, IsUnary, Logical, Relational, Additive,
    Multiplicative, UnaryOperators, StatementTokens
<1>2. CASE node \in {TreeOf(s) : s \in Statements}
  <2>1. PICK s \in Statements : node = TreeOf(s)
    BY <1>2
  <2>2. IsStatement(node) /\ node.name \in STRING /\ node.kids \in Seq(forest)
    BY <2>1, StatementsAssumption DEF IsForest
  <2>3. node.tok \in StatementTokens /\ ~IsExpression(node)
    BY <2>2 DEF IsStatement, IsExpression, IsBinary, IsUnary, Logical, Relational, Additive,
      Multiplicative, UnaryOperators, StatementTokens
  <2>4. node \notin forest
    BY <2>3 DEF IsForest
  <2> QED
    BY <2>2, <2>3, <2>4
<1> QED
  BY <1>1, <1>2 DEF Nodes

\* More code leaves the frames typed.
LEMMA StackStillTyped ==
  ASSUME NEW forest, NEW st, NEW c \in Seq(Instructions), NEW d \in Seq(Instructions),
         StackTyped(forest, st, c), Extends(c, d)
  PROVE  StackTyped(forest, st, d)
BY StillUsable DEF StackTyped, FrameTyped

\* A frame is put on top.
LEMMA StackPushed ==
  ASSUME NEW forest, NEW st, NEW c, StackTyped(forest, st, c),
         NEW f \in Frames(forest), FrameTyped(f, c)
  PROVE  StackTyped(forest, Append(st, f), c)
BY DEF StackTyped

\* A handler of an expression is left.
LEMMA StackPopped ==
  ASSUME NEW forest, NEW st, NEW c, StackTyped(forest, st, c),
         st[Len(st)].node.tok \notin StatementTokens
  PROVE  StackTyped(forest, SubSeq(st, 1, Len(st) - 1), c)
<1>1. st \in Seq(Frames(forest)) /\ Len(st) \in Nat /\ Len(st) > 1
  BY DEF StackTyped
<1>2. /\ SubSeq(st, 1, Len(st) - 1) \in Seq(Frames(forest))
      /\ Len(SubSeq(st, 1, Len(st) - 1)) = Len(st) - 1
      /\ \A d \in 1..(Len(st) - 1) : SubSeq(st, 1, Len(st) - 1)[d] = st[d]
  BY <1>1
<1> QED
  BY <1>1, <1>2 DEF StackTyped

\* A handler goes on: the frame on top is one for the same node.
LEMMA StackReplaced ==
  ASSUME NEW forest, NEW st, NEW c, StackTyped(forest, st, c),
         NEW f \in Frames(forest), FrameTyped(f, c), f.node = st[Len(st)].node
  PROVE  StackTyped(forest, Append(SubSeq(st, 1, Len(st) - 1), f), c)
<1> DEFINE below == SubSeq(st, 1, Len(st) - 1)
<1>1. st \in Seq(Frames(forest))
  BY DEF StackTyped
<1>2. Len(st) \in Nat /\ Len(st) > 0
  BY <1>1 DEF StackTyped
<1>3. \A i \in 1..(Len(st) - 1) : st[i] \in Frames(forest)
  BY <1>1, <1>2
<1>4. /\ below \in Seq(Frames(forest))
      /\ Len(below) = IF 1 <= Len(st) - 1 THEN Len(st) - 1 - 1 + 1 ELSE 0
      /\ \A i \in 1..(Len(st) - 1 - 1 + 1) : below[i] = st[1 + i - 1]
  BY <1>2, <1>3, SubSeqProperties
<1> HIDE DEF below
<1>5. Len(below) = Len(st) - 1
  <2>1. \A m \in Nat : m > 0 => (IF 1 <= m - 1 THEN m - 1 - 1 + 1 ELSE 0) = m - 1
    OBVIOUS
  <2>2. (IF 1 <= Len(st) - 1 THEN Len(st) - 1 - 1 + 1 ELSE 0) = Len(st) - 1
    BY <1>2, <2>1
  <2> QED
    BY <1>4, <2>2
<1>6. \A i \in 1..(Len(st) - 1) : below[i] = st[i]
  BY <1>2, <1>4
<1>7. /\ Append(below, f) \in Seq(Frames(forest)) /\ Len(Append(below, f)) = Len(st)
      /\ Append(below, f)[Len(st)] = f
      /\ \A d \in 1..(Len(st) - 1) : Append(below, f)[d] = st[d]
  BY <1>2, <1>4, <1>5, <1>6
<1>8. StackTyped(forest, Append(below, f), c)
  BY <1>1, <1>2, <1>7 DEF StackTyped
<1> QED
  BY <1>8 DEF below

-----------------------------------------------------------------------------
(* The inductive invariant *)

IInv(forest) ==
  /\ StackTyped(forest, stack, code)
  /\ entered = NoNode \/ entered \in forest
  /\ Usable(result, code)
  /\ CodeTyped(code)
  /\ status \in {"generating", "done", "crashed"}

\* A handler that hands up a value, with what is below it.
LEMMA HandUpTyped ==
  ASSUME NEW forest, IInv(forest), NEW below, StackTyped(forest, below, code),
         NEW built, CodeTyped(built.code), Extends(code, built.code),
         Usable(built.val, built.code), HandUp(below, built)
  PROVE  IInv(forest)'
<1>1. code \in Seq(Instructions) /\ built.code \in Seq(Instructions)
  BY DEF IInv, CodeTyped
<1>2. StackTyped(forest, below, built.code)
  BY <1>1, StackStillTyped
<1>3. stack' = below /\ entered' = NoNode /\ code' = built.code /\ result' = built.val
      /\ status' = status
  BY DEF HandUp
<1> QED
  BY <1>2, <1>3 DEF IInv

\* A handler that goes on with its next child.
LEMMA NextTyped ==
  ASSUME NEW forest, IsForest(forest), IInv(forest), NEW f \in Frames(forest),
         f.node = Top.node,
         CodeTyped(code'), Extends(code, code'), FrameTyped(f, code'), Call(Below, f)
  PROVE  IInv(forest)'
<1>1. code \in Seq(Instructions) /\ code' \in Seq(Instructions)
  BY DEF IInv, CodeTyped
<1>2. StackTyped(forest, stack, code') /\ Usable(result, code')
  BY <1>1, StackStillTyped, StillUsable DEF IInv
<1>3. StackTyped(forest, Append(Below, f), code')
  BY <1>2, StackReplaced DEF Below, Top
<1>4. f.node.kids \in Seq(forest) /\ Len(f.vals) + 1 \in 1..Len(f.node.kids)
  BY NodeTyped DEF Frames, FrameTyped, Kids
<1> QED
  BY <1>2, <1>3, <1>4 DEF Call, IInv

\* An effect is one more instruction, and its value can be used.
LEMMA EffectTyped ==
  ASSUME CodeTyped(code), NEW op \in Others \ {"zext", "condbr"}, NEW ty \in Types,
         NEW args \in Seq(Values), \A i \in 1..Len(args) : Usable(args[i], code),
         NEW for \in Purposes,
         \/ ty = "i64" \/ op \in {"store", "ret"}
         \/ ty \in ForeignTypes /\ GivesForeign(Instr(op, ty, args, for))
  PROVE  /\ CodeTyped(Effect(op, ty, args, for).code)
         /\ Extends(code, Effect(op, ty, args, for).code)
         /\ op \notin {"store", "ret"} =>
              Usable(Effect(op, ty, args, for).val, Effect(op, ty, args, for).code)
<1> DEFINE i == Instr(op, ty, args, for)
<1>1. i \in Instructions /\ i.op = op /\ i.ty = ty /\ i.args = args
  BY DEF Instr, Instructions
<1>2. OperandType(op) = "i64"
  BY DEF OperandType, Others, Connectives
<1>3. Effect(op, ty, args, for) = [code |-> Append(code, i), val |-> Reg(i.ty, Len(code) + 1)]
  BY <1>1 DEF Effect
<1> HIDE DEF i
<1>4. /\ CodeTyped(Append(code, i)) /\ Extends(code, Append(code, i))
      /\ Len(code) + 1 \in 1..Len(Append(code, i)) /\ Append(code, i)[Len(code) + 1] = i
      /\ Reg(i.ty, Len(code) + 1) \in Values
  BY <1>1, <1>2, AppendInstruction DEF Fits
<1>5. op \notin {"store", "ret"} => Usable(Reg(i.ty, Len(code) + 1), Append(code, i))
  <2>1. ty = "i64" \/ op \in {"store", "ret"} \/ (ty \in ForeignTypes /\ GivesForeign(i))
    BY DEF i
  <2> QED BY <1>1, <1>4, <2>1 DEF Usable, Defined, Reg
<1> QED
  BY <1>3, <1>4, <1>5

-----------------------------------------------------------------------------
(* Steps *)

\* What a handler finds when it is handed a value.
LEMMA TopTyped ==
  ASSUME NEW forest, IsForest(forest), IInv(forest)
  PROVE  /\ code \in Seq(Instructions) /\ result \in Values
         /\ Top \in Frames(forest) /\ FrameTyped(Top, code)
         /\ Top.node.name \in STRING /\ Kids(Top.node) \in Nat
         /\ Top.vals \in Seq(Values) /\ Len(Top.vals) \in Nat /\ Len(Top.vals) < Kids(Top.node)
         /\ Received \in Seq(Values) /\ Len(Received) = Len(Top.vals) + 1
         /\ Top.node.tok \notin Logical => \A i \in 1..Len(Received) : Usable(Received[i], code)
         /\ Top.node.tok \notin StatementTokens => StackTyped(forest, Below, code)
<1>1. /\ code \in Seq(Instructions) /\ Usable(result, code) /\ result \in Values
      /\ StackTyped(forest, stack, code)
  BY DEF IInv, CodeTyped, Usable
<1>2. Top \in Frames(forest) /\ FrameTyped(Top, code)
  BY <1>1 DEF Top, StackTyped
<1>3. Top.node \in Nodes(forest) /\ Top.vals \in Seq(Values)
  BY <1>2 DEF Frames
<1>4. Top.node.name \in STRING /\ Top.node.kids \in Seq(forest)
  BY <1>3, NodeTyped
<1>5. Len(Top.vals) < Kids(Top.node) /\ Kids(Top.node) \in Nat /\ Len(Top.vals) \in Nat
  BY <1>2, <1>3, <1>4 DEF FrameTyped, Kids
<1>6. /\ Received \in Seq(Values) /\ Len(Received) = Len(Top.vals) + 1
      /\ Received[Len(Top.vals) + 1] = result
      /\ \A i \in 1..Len(Top.vals) : Received[i] = Top.vals[i]
  BY <1>1, <1>3 DEF Received
<1>7. Top.node.tok \notin Logical => \A i \in 1..Len(Received) : Usable(Received[i], code)
  BY <1>1, <1>2, <1>5, <1>6 DEF FrameTyped
<1>8. Top.node.tok \notin StatementTokens => StackTyped(forest, Below, code)
  BY <1>1, StackPopped DEF Top, Below
<1> QED
  BY <1>1, <1>2, <1>3, <1>4, <1>5, <1>6, <1>7, <1>8

\* Code extends itself.
LEMMA Unextended ==
  ASSUME NEW c \in Seq(Instructions)
  PROVE  Extends(c, c)
BY DEF Extends

\* What a built value of a number's type is.
LEMMA BuiltUsable ==
  ASSUME NEW b, NEW c, IsBuilt(b, c, "i64")
  PROVE  CodeTyped(b.code) /\ Extends(c, b.code) /\ Usable(b.val, b.code)
BY DEF IsBuilt, Usable

\* A literal that is a long long makes a constant.
LEMMA NumberStep ==
  ASSUME NEW forest, IsForest(forest), IInv(forest), Number
  PROVE  IInv(forest)'
<1> DEFINE built == [code |-> code, val |-> Const("i64", NumberNode(entered.n))]
<1>1. entered.n \in Nat
  BY DEF Number, Entering, IInv, IsForest
<1>2. NumberNode(entered.n) \in (-IntLimit)..(IntLimit - 1)
  BY <1>1, LimitsAssumption, SignedInRange DEF NumberNode
<1>3. NumberNode(entered.n) \in Numbers
  BY <1>2, LimitsAssumption, SMT DEF Numbers
<1>4. Usable(Const("i64", NumberNode(entered.n)), code)
  BY <1>3 DEF Usable, Const, Values, Defined
<1>5. CodeTyped(code) /\ Extends(code, code) /\ StackTyped(forest, stack, code)
  BY TopTyped, Unextended DEF IInv
<1>6. HandUp(stack, built)
  BY DEF Number
<1>7. built.code = code /\ built.val = Const("i64", NumberNode(entered.n))
  OBVIOUS
<1> HIDE DEF built
<1> QED
  BY <1>4, <1>5, <1>6, <1>7, HandUpTyped

\* A variable is read.
LEMMA LoadStep ==
  ASSUME NEW forest, IsForest(forest), IInv(forest), Load
  PROVE  IInv(forest)'
<1> DEFINE built == Effect("load", ValueType(entered.name), << >>, entered.name)
<1>1. entered.name \in Purposes /\ ValueType(entered.name) \in Types
  BY DEF Load, Entering, IInv, IsForest, Purposes, ValueType, Types, ForeignTypes
<1>2. \/ ValueType(entered.name) = "i64"
      \/ /\ ValueType(entered.name) \in ForeignTypes
         /\ GivesForeign(Instr("load", ValueType(entered.name), << >>, entered.name))
  BY DEF ValueType, GivesForeign, Instr, ForeignTypes
<1>3. "load" \in Others \ {"zext", "condbr"}
  BY DEF Others
<1>4. CodeTyped(code) /\ StackTyped(forest, stack, code) /\ HandUp(stack, built)
  BY DEF Load, IInv
<1>5. << >> \in Seq(Values) /\ \A i \in 1..Len(<< >>) : Usable(<< >>[i], code)
  OBVIOUS
<1>6. CodeTyped(built.code) /\ Extends(code, built.code) /\ Usable(built.val, built.code)
  BY <1>2, <1>1, <1>3, <1>4, <1>5, EffectTyped
<1> HIDE DEF built
<1> QED
  BY <1>4, <1>6, HandUpTyped

\* A function without arguments is called.
LEMMA CallNoArgumentsStep ==
  ASSUME NEW forest, IsForest(forest), IInv(forest), CallNoArguments
  PROVE  IInv(forest)'
<1> DEFINE built == Effect("call", ReturnType(entered.name), << >>, entered.name)
<1>1. entered.name \in Purposes /\ ReturnType(entered.name) \in Types
  BY DEF CallNoArguments, Entering, IInv, IsForest, Purposes, ReturnType, Types, ForeignTypes
<1>2. \/ ReturnType(entered.name) = "i64"
      \/ /\ ReturnType(entered.name) \in ForeignTypes
         /\ GivesForeign(Instr("call", ReturnType(entered.name), << >>, entered.name))
  BY DEF ReturnType, GivesForeign, Instr, ForeignTypes
<1>3. "call" \in Others \ {"zext", "condbr"}
  BY DEF Others
<1>4. CodeTyped(code) /\ StackTyped(forest, stack, code) /\ HandUp(stack, built)
  BY DEF CallNoArguments, IInv
<1>5. << >> \in Seq(Values) /\ \A i \in 1..Len(<< >>) : Usable(<< >>[i], code)
  OBVIOUS
<1>6. CodeTyped(built.code) /\ Extends(code, built.code) /\ Usable(built.val, built.code)
  BY <1>2, <1>1, <1>3, <1>4, <1>5, EffectTyped
<1> HIDE DEF built
<1> QED
  BY <1>4, <1>6, HandUpTyped

\* A handler calls that of its first child.
LEMMA BeginStep ==
  ASSUME NEW forest, IsForest(forest), IInv(forest), Begin
  PROVE  IInv(forest)'
<1>1. entered \in forest /\ entered.kids \in Seq(forest) /\ Len(entered.kids) > 0
  BY DEF Begin, Entering, IInv, IsForest, Kids
<1>2. Len(entered.kids) \in Nat
  BY <1>1
<1> DEFINE f == Frame(entered, << >>)
<1>3. f \in Frames(forest) /\ f.node = entered /\ f.vals = << >>
  BY <1>1 DEF Frame, Frames, Nodes
<1>4. stack' = Append(stack, f) /\ entered' = f.node.kids[Len(f.vals) + 1]
  BY DEF Begin, Call
<1> HIDE DEF f
<1>5. FrameTyped(f, code)
  BY <1>1, <1>2, <1>3 DEF FrameTyped, Kids
<1>6. StackTyped(forest, stack', code)
  BY <1>3, <1>4, <1>5, StackPushed DEF IInv
<1>7. entered' \in forest
  <2>1. Len(f.vals) + 1 = 1
    BY <1>3
  <2> QED
    BY <1>1, <1>2, <1>3, <1>4, <2>1
<1> QED
  BY <1>6, <1>7 DEF Begin, Call, IInv

\* The left operand is there.
LEMMA AfterLeftStep ==
  ASSUME NEW forest, IsForest(forest), IInv(forest), AfterLeft
  PROVE  IInv(forest)'
<1> DEFINE built == IF Top.node.tok \in Logical THEN IntToBoolean(code, result)
                    ELSE [code |-> code, val |-> result]
           f == Frame(Top.node, <<built.val>>)
<1>1. /\ Usable(result, code) /\ CodeTyped(code) /\ code \in Seq(Instructions)
      /\ Top.node \in Nodes(forest) /\ Kids(Top.node) = 2 /\ result \in Values
  BY TopTyped DEF IInv, Frames, AfterLeft, IsBinary
<1>2. code' = built.code /\ Call(Below, f)
  BY DEF AfterLeft
<1>3. /\ CodeTyped(built.code) /\ Extends(code, built.code) /\ built.val \in Values
      /\ IF Top.node.tok \in Logical THEN Condition(built.val, built.code)
         ELSE Usable(built.val, built.code)
  <2>1. CASE Top.node.tok \in Logical
    BY <1>1, <2>1, IntToBooleanTyped DEF IsBuilt, Condition
  <2>2. CASE Top.node.tok \notin Logical
    BY <1>1, <2>2, Unextended
  <2> QED
    BY <2>1, <2>2
<1> HIDE DEF built
<1>4. f.node = Top.node /\ f.vals = <<built.val>> /\ f \in Frames(forest)
  BY <1>1, <1>3 DEF Frame, Frames
<1> HIDE DEF f
<1>5. FrameTyped(f, code')
  BY <1>1, <1>2, <1>3, <1>4 DEF FrameTyped
<1> QED
  BY <1>2, <1>3, <1>4, <1>5, NextTyped

\* A node's operator is one of IRBuilder's operations, and a value compares,
\* and computes, with a value.
LEMMA OpcodeTyped ==
  /\ \A tok \in Logical : Opcode(tok) \in Connectives
  /\ \A tok \in Relational : Opcode(tok) \in Comparisons
  /\ \A tok \in Additive \cup Multiplicative : Opcode(tok) \in Arithmetic
  /\ \A op \in Connectives : OperandType(op) = "i1" /\ \A l : ResultType(op, l) = "i1"
  /\ \A op \in Comparisons : OperandType(op) = "i64" /\ \A l : ResultType(op, l) = "i1"
  /\ \A op \in Arithmetic : OperandType(op) = "i64"
  /\ Connectives \cup Comparisons \cup Arithmetic \subseteq Operations
<1>1. \A tok \in Logical : Opcode(tok) \in Connectives
  BY DEF Opcode, Logical, Connectives
<1>2. \A tok \in Relational : Opcode(tok) \in Comparisons
  BY DEF Opcode, Relational, Comparisons
<1>3. \A tok \in Additive \cup Multiplicative : Opcode(tok) \in Arithmetic
  BY DEF Opcode, Additive, Multiplicative, Arithmetic
<1>4. \A op \in Connectives : OperandType(op) = "i1" /\ \A l : ResultType(op, l) = "i1"
  BY DEF OperandType, ResultType, Connectives
<1>5. \A op \in Comparisons : OperandType(op) = "i64" /\ \A l : ResultType(op, l) = "i1"
  BY DEF OperandType, ResultType, Connectives, Comparisons
<1>6. \A op \in Arithmetic : OperandType(op) = "i64"
  BY DEF OperandType, Connectives, Arithmetic
<1> QED
  BY <1>1, <1>2, <1>3, <1>4, <1>5, <1>6 DEF Operations

\* What IsBinary says of the frame on top when both operands are there.
LEMMA LeftTyped ==
  ASSUME NEW forest, IsForest(forest), IInv(forest), IsBinary(Top.node), ~MissesChild
  PROVE  /\ IF Top.node.tok \in Logical THEN Condition(Top.vals[1], code)
            ELSE Usable(Top.vals[1], code)
         /\ StackTyped(forest, Below, code)
         /\ Usable(result, code) /\ CodeTyped(code) /\ code \in Seq(Instructions)
<1>1. Len(Top.vals) = 1
  <2>1. Len(Top.vals) \in Nat /\ Len(Top.vals) < 2
    BY TopTyped DEF IsBinary
  <2>2. ~(Len(Top.vals) + 1 < 2)
    BY TopTyped DEF IsBinary, MissesChild
  <2>3. \A m \in Nat : m < 2 /\ ~(m + 1 < 2) => m = 1
    OBVIOUS
  <2> QED
    BY <2>1, <2>2, <2>3
<1>2. Top.node.tok \notin StatementTokens
  BY DEF IsBinary, StatementTokens, Logical, Relational, Additive, Multiplicative
<1> QED
  BY <1>1, <1>2, TopTyped DEF FrameTyped, IInv

\* A condition that is handed up as a number.
LEMMA BooleanBuilt ==
  ASSUME NEW c, CodeTyped(c), NEW op \in Comparisons \cup Connectives, NEW l, NEW r,
         Fits(l, c, op), Fits(r, c, op), ~IsNull(l)
  PROVE  LET built == BooleanToInt(Build(c, op, l, r))
         IN  CodeTyped(built.code) /\ Extends(c, built.code) /\ Usable(built.val, built.code)
<1> DEFINE b == Build(c, op, l, r)
           d == b.code
           v == b.val
<1>1. op \in Operations /\ ResultType(op, l) = "i1" /\ c \in Seq(Instructions)
  BY OpcodeTyped DEF CodeTyped
<1>2. b = [code |-> d, val |-> v]
  BY DEF Build
<1>3. IsBuilt(b, c, "i1")
  BY <1>1, BuildTyped
<1>4. IsBuilt([code |-> d, val |-> v], c, "i1")
  BY <1>2, <1>3
<1> HIDE DEF d, v
<1>5. IsBuilt(BooleanToInt([code |-> d, val |-> v]), c, "i64")
  BY <1>1, <1>4, BooleanToIntTyped
<1>6. IsBuilt(BooleanToInt(b), c, "i64")
  BY <1>2, <1>5
<1> QED
  BY <1>6, BuiltUsable

\* && and || have both operands.
LEMMA AfterRightLogicalStep ==
  ASSUME NEW forest, IsForest(forest), IInv(forest), AfterRightLogical
  PROVE  IInv(forest)'
<1> DEFINE rv == IntToBoolean(code, result)
           op == Opcode(Top.node.tok)
           built == BooleanToInt(Build(rv.code, op, Top.vals[1], rv.val))
<1>1. /\ Condition(Top.vals[1], code) /\ StackTyped(forest, Below, code)
      /\ Usable(result, code) /\ CodeTyped(code) /\ code \in Seq(Instructions)
      /\ HandUp(Below, built)
  BY LeftTyped DEF AfterRightLogical
<1>2. op \in Connectives /\ OperandType(op) = "i1"
  BY OpcodeTyped DEF AfterRightLogical
<1>3. IsBuilt(rv, code, "i1")
  BY <1>1, IntToBooleanTyped
<1> HIDE DEF rv, op
<1>4. /\ CodeTyped(rv.code) /\ Extends(code, rv.code) /\ rv.code \in Seq(Instructions)
      /\ Fits(rv.val, rv.code, op)
  BY <1>2, <1>3 DEF IsBuilt, Fits, Condition, CodeTyped
<1>5. Fits(Top.vals[1], rv.code, op)
  BY <1>1, <1>2, <1>4, StillUsable DEF Fits
<1>6. CodeTyped(built.code) /\ Extends(rv.code, built.code) /\ Usable(built.val, built.code)
  BY <1>1, <1>2, <1>4, <1>5, NotNull, BooleanBuilt
<1> HIDE DEF built
<1>7. Extends(code, built.code)
  <2>1. built.code \in Seq(Instructions)
    BY <1>6 DEF CodeTyped
  <2>2. Len(code) \in Nat /\ Len(rv.code) \in Nat /\ Len(built.code) \in Nat
    BY <1>1, <1>4, <2>1
  <2> QED
    BY <1>4, <1>6, <2>2 DEF Extends
<1> QED
  BY <1>1, <1>6, <1>7, HandUpTyped

\* A comparison has both operands.
LEMMA AfterRightRelationalStep ==
  ASSUME NEW forest, IsForest(forest), IInv(forest), AfterRightRelational
  PROVE  IInv(forest)'
<1> DEFINE op == Opcode(Top.node.tok)
           built == BooleanToInt(Build(code, op, Top.vals[1], result))
<1>1. /\ StackTyped(forest, Below, code) /\ CodeTyped(code) /\ HandUp(Below, built)
      /\ Usable(Top.vals[1], code) /\ Usable(result, code)
  BY LeftTyped DEF AfterRightRelational, Logical, Relational
<1>2. op \in Comparisons /\ OperandType(op) = "i64"
  BY OpcodeTyped DEF AfterRightRelational
<1> HIDE DEF op
<1>3. CodeTyped(built.code) /\ Extends(code, built.code) /\ Usable(built.val, built.code)
  BY <1>1, <1>2, NotNull, BooleanBuilt DEF Fits
<1> HIDE DEF built
<1> QED
  BY <1>1, <1>3, HandUpTyped

\* An operation on numbers has both operands.
LEMMA AfterRightArithmeticStep ==
  ASSUME NEW forest, IsForest(forest), IInv(forest), AfterRightArithmetic
  PROVE  IInv(forest)'
<1> DEFINE op == Opcode(Top.node.tok)
           built == Build(code, op, Top.vals[1], result)
<1>1. /\ StackTyped(forest, Below, code) /\ CodeTyped(code) /\ HandUp(Below, built)
      /\ Usable(Top.vals[1], code) /\ Usable(result, code)
  BY LeftTyped DEF AfterRightArithmetic, Logical, Additive, Multiplicative
<1>2. op \in Arithmetic /\ OperandType(op) = "i64"
  BY OpcodeTyped DEF AfterRightArithmetic
<1> HIDE DEF op
<1>3. Fits(Top.vals[1], code, op) /\ ~IsNull(Top.vals[1])
  BY <1>1, <1>2, NotNull DEF Fits
<1>4. CodeTyped(built.code) /\ Extends(code, built.code) /\ Usable(built.val, built.code)
  BY <1>1, <1>2, <1>3, ArithmeticTyped
<1> HIDE DEF built
<1> QED
  BY <1>1, <1>4, HandUpTyped

\* A sign or a negation has its operand.
LEMMA EndUnaryStep ==
  ASSUME NEW forest, IsForest(forest), IInv(forest), EndUnary
  PROVE  IInv(forest)'
<1>1. /\ CodeTyped(code) /\ code \in Seq(Instructions) /\ Usable(result, code)
      /\ Usable(Zero, code) /\ StackTyped(forest, Below, code)
  <2>1. Top.node.tok \notin StatementTokens
    BY DEF EndUnary, IsUnary, UnaryOperators, StatementTokens
  <2> QED
    BY <2>1, TopTyped, ZeroUsable DEF IInv
<1>2. CASE HandUp(Below, [code |-> code, val |-> result])
  <2> DEFINE built == [code |-> code, val |-> result]
  <2>1. CodeTyped(built.code) /\ Extends(code, built.code) /\ Usable(built.val, built.code)
    BY <1>1, Unextended
  <2> HIDE DEF built
  <2> QED
    BY <1>1, <1>2, <2>1, HandUpTyped DEF built
<1>3. CASE HandUp(Below, Build(code, "sub", Const(result.ty, 0), result))
  <2> DEFINE zero == Const(result.ty, 0)
             built == Build(code, "sub", zero, result)
  <2>1. "sub" \in Arithmetic
    BY DEF Arithmetic
  <2>2. Fits(zero, code, "sub") /\ (IsNull(zero) => result.kind = "reg" /\ result.ty = zero.ty)
    BY <1>1, NegationTyped
  <2> HIDE DEF zero
  <2>3. CodeTyped(built.code) /\ Extends(code, built.code) /\ Usable(built.val, built.code)
    BY <1>1, <2>1, <2>2, ArithmeticTyped
  <2>4. HandUp(Below, built)
    BY <1>3 DEF zero
  <2> HIDE DEF built
  <2> QED
    BY <1>1, <2>3, <2>4, HandUpTyped
<1>4. CASE HandUp(Below, BooleanToInt(Build(code, "eq", Zero, result)))
  <2>1. "eq" \in Comparisons /\ OperandType("eq") = "i64"
    BY OpcodeTyped DEF Comparisons
  <2> DEFINE built == BooleanToInt(Build(code, "eq", Zero, result))
  <2>2. CodeTyped(built.code) /\ Extends(code, built.code) /\ Usable(built.val, built.code)
    BY <1>1, <2>1, ZeroNotNull, BooleanBuilt DEF Fits
  <2> QED
    BY <1>1, <1>4, <2>2, HandUpTyped
<1> QED
  BY <1>2, <1>3, <1>4 DEF EndUnary

\* An element is read.
LEMMA EndElementStep ==
  ASSUME NEW forest, IsForest(forest), IInv(forest), EndElement
  PROVE  IInv(forest)'
<1> DEFINE ty == ElementType(Top.node.name)
           built == Effect("element", ty, Received, Top.node.name)
<1>1. Top.node.tok \notin StatementTokens /\ Top.node.tok \notin Logical
  BY DEF EndElement, StatementTokens, Logical
<1>2. /\ CodeTyped(code) /\ HandUp(Below, built) /\ StackTyped(forest, Below, code)
      /\ Received \in Seq(Values) /\ \A i \in 1..Len(Received) : Usable(Received[i], code)
      /\ Top.node.name \in Purposes
  BY <1>1, TopTyped DEF EndElement, IInv, Purposes
<1>3. "element" \in Others \ {"zext", "condbr"} /\ ty \in Types
  BY DEF Others, Types, ForeignTypes, ElementType, ValueType
<1>4. \/ ty = "i64"
      \/ ty \in ForeignTypes /\ GivesForeign(Instr("element", ty, Received, Top.node.name))
  BY DEF ElementType, ValueType, GivesForeign, Instr, ForeignTypes
<1> HIDE DEF ty
<1>5. CodeTyped(built.code) /\ Extends(code, built.code) /\ Usable(built.val, built.code)
  BY <1>4, <1>2, <1>3, EffectTyped
<1> HIDE DEF built
<1> QED
  BY <1>2, <1>5, HandUpTyped

\* An argument, or the value to assign, is there and another child is not.
LEMMA NextChildStep ==
  ASSUME NEW forest, IsForest(forest), IInv(forest), NextChild
  PROVE  IInv(forest)'
<1> DEFINE f == Frame(Top.node, Received)
<1>1. Top.node.tok \notin Logical
  BY DEF NextChild, Logical
<1>2. /\ Received \in Seq(Values) /\ \A i \in 1..Len(Received) : Usable(Received[i], code)
      /\ Top.node \in Nodes(forest) /\ CodeTyped(code) /\ Extends(code, code)
      /\ Len(Received) < Kids(Top.node) /\ Call(Below, f) /\ code' = code
  BY <1>1, TopTyped, Unextended DEF NextChild, IInv, Frames, MissesChild
<1>3. f.node = Top.node /\ f.vals = Received /\ f \in Frames(forest)
  BY <1>2 DEF Frame, Frames
<1> HIDE DEF f
<1>4. FrameTyped(f, code)
  BY <1>1, <1>2, <1>3 DEF FrameTyped
<1> QED
  BY <1>2, <1>3, <1>4, NextTyped

\* All arguments of a call are there.
LEMMA EndCallStep ==
  ASSUME NEW forest, IsForest(forest), IInv(forest), EndCall
  PROVE  IInv(forest)'
<1> DEFINE built == Effect("call", ReturnType(Top.node.name), Received, Top.node.name)
<1>1. Top.node.tok \notin StatementTokens /\ Top.node.tok \notin Logical
  BY DEF EndCall, StatementTokens, Logical
<1>2. /\ CodeTyped(code) /\ HandUp(Below, built) /\ StackTyped(forest, Below, code)
      /\ Received \in Seq(Values) /\ \A i \in 1..Len(Received) : Usable(Received[i], code)
      /\ Top.node.name \in Purposes
  BY <1>1, TopTyped DEF EndCall, IInv, Purposes
<1>3. "call" \in Others \ {"zext", "condbr"} /\ ReturnType(Top.node.name) \in Types
  BY DEF Others, Types, ForeignTypes, ReturnType
<1>4. \/ ReturnType(Top.node.name) = "i64"
      \/ /\ ReturnType(Top.node.name) \in ForeignTypes
         /\ GivesForeign(Instr("call", ReturnType(Top.node.name), Received, Top.node.name))
  BY DEF ReturnType, GivesForeign, Instr, ForeignTypes
<1>5. CodeTyped(built.code) /\ Extends(code, built.code) /\ Usable(built.val, built.code)
  BY <1>4, <1>2, <1>3, EffectTyped
<1> HIDE DEF built
<1> QED
  BY <1>2, <1>5, HandUpTyped

\* A statement that is finished keeps what it had.
LEMMA FinishTyped ==
  ASSUME NEW forest, IInv(forest), NEW built, CodeTyped(built.code), Extends(code, built.code),
         Finish(built)
  PROVE  IInv(forest)'
<1>1. /\ code \in Seq(Instructions) /\ built.code \in Seq(Instructions)
      /\ code' = built.code /\ stack' = stack /\ entered' = entered /\ result' = result
      /\ status' = "done"
  BY DEF IInv, CodeTyped, Finish
<1>2. StackTyped(forest, stack, built.code) /\ Usable(result, built.code)
  BY <1>1, StackStillTyped, StillUsable DEF IInv
<1> QED
  BY <1>1, <1>2 DEF IInv

\* A value is returned.
LEMMA EndReturnStep ==
  ASSUME NEW forest, IsForest(forest), IInv(forest), EndReturn
  PROVE  IInv(forest)'
<1> DEFINE built == Effect("ret", "void", <<result>>, "return")
<1>1. CodeTyped(code) /\ Usable(result, code) /\ result \in Values /\ Finish(built)
  BY TopTyped DEF IInv, EndReturn
<1>2. /\ "ret" \in Others \ {"zext", "condbr"} /\ "void" \in Types /\ "return" \in Purposes
  BY DEF Others, Types, Purposes
<1>3. <<result>> \in Seq(Values) /\ \A i \in 1..Len(<<result>>) : Usable(<<result>>[i], code)
  BY <1>1
<1>4. CodeTyped(built.code) /\ Extends(code, built.code)
  BY <1>1, <1>2, <1>3, EffectTyped
<1> HIDE DEF built
<1> QED
  BY <1>1, <1>4, FinishTyped

\* A value is dropped.
LEMMA EndExpStatementStep ==
  ASSUME NEW forest, IsForest(forest), IInv(forest), EndExpStatement
  PROVE  IInv(forest)'
<1> DEFINE built == [code |-> code, val |-> result]
<1>1. built.code = code /\ CodeTyped(code) /\ Extends(code, code) /\ Finish(built)
  BY TopTyped, Unextended DEF IInv, EndExpStatement
<1> HIDE DEF built
<1> QED
  BY <1>1, FinishTyped

\* A branch is taken on a condition.
LEMMA EndConditionStep ==
  ASSUME NEW forest, IsForest(forest), IInv(forest), EndCondition
  PROVE  IInv(forest)'
<1> DEFINE cond == IntToBoolean(code, result)
           i == Instr("condbr", "void", <<cond.val>>, "condition")
           c == Append(cond.code, i)
<1>1. CodeTyped(code) /\ Usable(result, code) /\ code \in Seq(Instructions)
  BY TopTyped DEF IInv
<1>2. IsBuilt(cond, code, "i1")
  BY <1>1, IntToBooleanTyped
<1>3. Finish([code |-> c, val |-> cond.val])
  BY DEF EndCondition, IntToBoolean, Build, Finish
<1> HIDE DEF cond
<1>4. /\ CodeTyped(cond.code) /\ Extends(code, cond.code) /\ cond.code \in Seq(Instructions)
      /\ Condition(cond.val, cond.code) /\ cond.val \in Values
  BY <1>2 DEF IsBuilt, CodeTyped, Condition
<1>5. /\ "condbr" \in Operations \cup Others /\ "void" \in Types /\ "condition" \in Purposes
      /\ OperandType("condbr") = "i1" /\ <<cond.val>> \in Seq(Values)
  BY <1>4 DEF Others, Types, Purposes, OperandType
<1>6. i \in Instructions /\ i.op = "condbr" /\ i.args = <<cond.val>>
  BY <1>5 DEF Instr, Instructions
<1> HIDE DEF i
<1>7. \A j \in 1..Len(i.args) : Fits(i.args[j], cond.code, i.op)
  BY <1>4, <1>5, <1>6 DEF Fits
<1>8. CodeTyped(c) /\ Extends(cond.code, c)
  BY <1>4, <1>6, <1>7, AppendInstruction
<1> HIDE DEF c
<1>9. Extends(code, c)
  <2>1. c \in Seq(Instructions)
    BY <1>8 DEF CodeTyped
  <2>2. Len(code) \in Nat /\ Len(cond.code) \in Nat /\ Len(c) \in Nat
    BY <1>1, <1>4, <2>1
  <2> QED
    BY <1>4, <1>8, <2>2 DEF Extends
<1> DEFINE built == [code |-> c, val |-> cond.val]
<1>10. CodeTyped(built.code) /\ Extends(code, built.code)
  BY <1>8, <1>9
<1> HIDE DEF built
<1> QED
  BY <1>3, <1>10, FinishTyped DEF built

\* A value is stored, in a global variable behind a load of it.
LEMMA EndAssignStep ==
  ASSUME NEW forest, IsForest(forest), IInv(forest), EndAssign
  PROVE  IInv(forest)'
<1> DEFINE name == Top.node.name
           load == Instr("load", ValueType(name), << >>, name)
           store == Instr("store", "void", Received, name)
           before == IF AssignsGlobal(Top.node) THEN Append(code, load) ELSE code
           built == [code |-> Append(before, store), val |-> result]
<1>1. Top.node.tok \notin Logical
  BY DEF EndAssign, Logical
<1>2. /\ CodeTyped(code) /\ code \in Seq(Instructions) /\ Finish(built) /\ name \in Purposes
      /\ Received \in Seq(Values) /\ \A i \in 1..Len(Received) : Usable(Received[i], code)
  BY <1>1, TopTyped DEF EndAssign, IInv, Purposes
<1>3. /\ load \in Instructions /\ load.args = << >>
      /\ store \in Instructions /\ store.args = Received /\ store.op = "store"
  BY <1>2 DEF Instr, Instructions, Others, Types, ForeignTypes, ValueType
<1>4. CodeTyped(before) /\ Extends(code, before) /\ before \in Seq(Instructions)
  <2> HIDE DEF load
  <2>1. CASE AssignsGlobal(Top.node)
    <3>1. \A j \in 1..Len(load.args) : Fits(load.args[j], code, load.op)
      BY <1>3
    <3>2. CodeTyped(Append(code, load)) /\ Extends(code, Append(code, load))
      BY <1>2, <1>3, <3>1, AppendInstruction
    <3> QED BY <2>1, <3>2 DEF CodeTyped
  <2>2. CASE ~AssignsGlobal(Top.node)
    BY <1>2, <2>2, Unextended
  <2> QED BY <2>1, <2>2
<1> HIDE DEF before, store, load
<1>5. \A i \in 1..Len(store.args) : Fits(store.args[i], before, store.op)
  <2>1. OperandType("store") = "i64"
    BY DEF OperandType, Connectives
  <2> QED BY <1>2, <1>3, <1>4, <2>1, StillUsable DEF Fits
<1>6. CodeTyped(Append(before, store)) /\ Extends(before, Append(before, store))
  BY <1>3, <1>4, <1>5, AppendInstruction
<1>7. Extends(code, Append(before, store))
  <2> DEFINE c == Append(before, store)
  <2>1. c \in Seq(Instructions)
    BY <1>6 DEF CodeTyped
  <2> HIDE DEF c
  <2>2. Len(code) \in Nat /\ Len(before) \in Nat /\ Len(c) \in Nat
    BY <1>2, <1>4, <2>1
  <2>3. Extends(before, c)
    BY <1>6 DEF c
  <2>4. Extends(code, c)
    BY <1>4, <2>2, <2>3 DEF Extends
  <2> QED BY <2>4 DEF c
<1>8. built.code = Append(before, store)
  OBVIOUS
<1> HIDE DEF built
<1> QED
  BY <1>2, <1>6, <1>7, <1>8, FinishTyped

-----------------------------------------------------------------------------
(* Theorems *)

\* A statement is about to be compiled.
LEMMA InitTyped ==
  ASSUME NEW forest, IsForest(forest), Init
  PROVE  IInv(forest)
<1>1. PICK s \in Statements :
        /\ stack = <<Frame(TreeOf(s), << >>)>> /\ entered = TreeOf(s).kids[1]
        /\ result = Zero /\ code = << >> /\ status = "generating"
  BY DEF Init
<1>2. IsStatement(TreeOf(s)) /\ TreeOf(s).kids \in Seq(forest) /\ TreeOf(s) \in Nodes(forest)
  BY StatementsAssumption DEF IsForest, Nodes
<1>3. TreeOf(s).tok \in StatementTokens /\ Len(TreeOf(s).kids) > 0 /\ Len(TreeOf(s).kids) \in Nat
  BY <1>2 DEF IsStatement, StatementTokens, Kids
<1>4. entered \in forest
  BY <1>1, <1>2, <1>3
<1>5. CodeTyped(code)
  BY <1>1 DEF CodeTyped
<1> DEFINE f == Frame(TreeOf(s), << >>)
<1>6. f \in Frames(forest) /\ f.node = TreeOf(s) /\ f.vals = << >>
  BY <1>2 DEF Frame, Frames
<1> HIDE DEF f
<1>7. FrameTyped(f, code)
  BY <1>3, <1>6 DEF FrameTyped, Kids
<1>8. stack = <<f>> /\ Len(stack) = 1 /\ stack[1] = f
  BY <1>1 DEF f
<1>9. StackTyped(forest, stack, code)
  BY <1>3, <1>6, <1>7, <1>8 DEF StackTyped
<1> QED
  BY <1>1, <1>4, <1>5, <1>9, ZeroUsable DEF IInv

\* Every step keeps the invariant.
LEMMA StepTyped ==
  ASSUME NEW forest, IsForest(forest), IInv(forest), [Next]_vars
  PROVE  IInv(forest)'
<1>1. CASE NumberThrows
  BY <1>1 DEF NumberThrows, IInv
<1>2. CASE UNCHANGED vars
  BY <1>2 DEF vars, IInv
<1> QED
  BY <1>1, <1>2, NumberStep, LoadStep, CallNoArgumentsStep, BeginStep, AfterLeftStep,
    AfterRightLogicalStep, AfterRightRelationalStep, AfterRightArithmeticStep, EndUnaryStep,
    EndElementStep, NextChildStep, EndCallStep, EndReturnStep, EndExpStatementStep,
    EndConditionStep, EndAssignStep DEF Next, Finished

\* The invariant holds of all statements of a forest.
LEMMA Invariant ==
  ASSUME NEW forest, IsForest(forest)
  PROVE  Spec => []IInv(forest)
<1>1. Init => IInv(forest)
  BY InitTyped
<1>2. IInv(forest) /\ [Next]_vars => IInv(forest)'
  BY StepTyped
<1> QED
  BY <1>1, <1>2, PTL DEF Spec

\* Handlers wait for a child they have, values are values, and a constant, from
\* a literal cut to an int or computed by IRBuilder, fits 64 bits.
THEOREM TypeCorrect ==
  ASSUME NEW forest, IsForest(forest)
  PROVE  Spec => []TypeOK
<1>1. ASSUME IInv(forest) PROVE TypeOK
  <2>1. ASSUME NEW d \in 1..Len(stack) PROVE IsFrame(stack[d])
    <3>1. stack[d] \in Frames(forest) /\ FrameTyped(stack[d], code)
      BY <1>1 DEF IInv, StackTyped
    <3>2. stack[d].node \in Nodes(forest)
      BY <3>1 DEF Frames
    <3> QED
      BY <3>1, <3>2, NodeTyped DEF IsFrame, FrameTyped
  <2> QED
    BY <1>1, <2>1 DEF IInv, IsForest, CodeTyped, Usable, TypeOK
<1> QED
  BY <1>1, Invariant, PTL

\* However operators are nested, intToBoolean and booleanToInt are where the
\* instructions need them, and operands are computed before they are used.  An
\* operand that is no number comes from the name of an array, an element of a
\* global array or a void call, with arithmetic in between.
THEOREM OperandsAreTyped ==
  ASSUME NEW forest, IsForest(forest)
  PROVE  Spec => []OperandsTyped
<1>1. IInv(forest) => OperandsTyped
  BY DEF IInv, CodeTyped, OperandsTyped
<1> QED
  BY <1>1, Invariant, PTL

-----------------------------------------------------------------------------
(* What the operators compute *)

\* Integers between which there is less than a modulus are in the same class
\* only when they are equal.
LEMMA SameClass ==
  ASSUME NEW m \in Nat \ {0}, NEW y \in 0..(m - 1), NEW z \in 0..(m - 1),
         NEW q \in Int, y - z = m * q
  PROVE  y = z
<1>1. m * q < m /\ -m < m * q
  BY SMT
<1>2. q < 1
  <2> SUFFICES ASSUME q >= 1 PROVE FALSE
    BY SMT
  <2>1. m * q >= m
    BY SMT
  <2> QED BY <1>1, <2>1, SMT
<1>3. q > -1
  <2> SUFFICES ASSUME q <= -1 PROVE FALSE
    BY SMT
  <2>1. m * q <= -m
    BY SMT
  <2> QED BY <1>1, <2>1, SMT
<1>4. q = 0
  BY <1>2, <1>3, SMT
<1> QED BY <1>4, SMT

\* A number that differs by a multiple of a modulus is the remainder.
LEMMA Remainder ==
  ASSUME NEW m \in Nat \ {0}, NEW y \in 0..(m - 1), NEW z \in Int, (y - z) % m = 0
  PROVE  z % m = y
<1>1. /\ (y - z) = m * ((y - z) \div m) /\ (y - z) \div m \in Int
      /\ z = m * (z \div m) + (z % m) /\ z \div m \in Int /\ z % m \in 0..(m - 1)
  BY SMT
<1> DEFINE a == (y - z) \div m
           b == z \div m
<1>2. a \in Int /\ b \in Int /\ z % m \in 0..(m - 1) /\ y - z = m * a /\ z = m * b + (z % m)
  BY <1>1
<1> HIDE DEF a, b
<1>3. y - (z % m) = m * (a + b)
  <2>1. m * (a + b) = m * a + m * b
    BY <1>2, SMT
  <2> QED BY <1>2, <2>1, SMT
<1>4. a + b \in Int
  BY <1>2
<1> QED BY <1>2, <1>3, <1>4, SameClass

\* A quotient that leaves a remainder below the divisor is the quotient.
LEMMA QuotientIsUnique ==
  ASSUME NEW m \in Nat, NEW d \in Nat \ {0}, NEW y \in Int, m - d * y \in 0..(d - 1)
  PROVE  y = m \div d
<1> DEFINE q == m \div d
<1>1. q \in Nat /\ m - d * q \in 0..(d - 1)
  BY Division
<1> HIDE DEF q
<1>2. (m - d * y) - (m - d * q) = d * (q - y)
  <2>1. d * (q - y) = d * q - d * y
    BY <1>1, SMT
  <2>2. d * q \in Int /\ d * y \in Int
    BY <1>1, SMT
  <2> QED BY <1>1, <2>1, <2>2, SMT
<1>3. m - d * y = m - d * q
  <2>1. q - y \in Int
    BY <1>1
  <2> QED BY <1>1, <1>2, <2>1, SameClass
<1>4. d * (q - y) = 0
  <2>1. d * q \in Int /\ d * y \in Int /\ d * (q - y) = d * q - d * y
    BY <1>1, SMT
  <2> QED BY <1>3, <2>1, SMT
<1>5. q - y = 0
  <2>1. q - y \in Int
    BY <1>1
  <2>2. q - y >= 1 => d * (q - y) >= d
    BY <2>1, SMT
  <2>3. q - y <= -1 => d * (q - y) <= -d
    BY <2>1, SMT
  <2> QED BY <1>4, <2>1, <2>2, <2>3, SMT
<1> QED BY <1>1, <1>5, SMT DEF q
\* Magnitudes are natural numbers.
LEMMA MagnitudeNat ==
  ASSUME NEW a \in Int
  PROVE  Magnitude(a) \in Nat /\ (a # 0 => Magnitude(a) # 0)
BY SMT DEF Magnitude

\* The quotient of the language is the one the instruction computes.
LEMMA QuotientMeans ==
  ASSUME NEW a \in Int, NEW b \in Int, NEW x \in Int, DividesBy(a, b, x), b # 0
  PROVE  x = Quotient(a, b)
<1> DEFINE m == Magnitude(a)
           d == Magnitude(b)
           y == IF (a < 0) = (b < 0) THEN x ELSE -x
           r == a - b * x
<1>1. m \in Nat /\ d \in Nat \ {0} /\ y \in Int /\ b * x \in Int
  <2>1. b * x \in Int
    BY SMT
  <2>2. y \in Int
    OBVIOUS
  <2> QED BY <2>1, <2>2, MagnitudeNat
<1>2. r \in Int /\ Magnitude(r) < d /\ (r = 0 \/ (r < 0) = (a < 0))
  BY <1>1, SMT DEF DividesBy
<1>3. m - d * y = IF a < 0 THEN -r ELSE r
  <2>1. CASE a < 0 /\ b < 0
    <3>1. m = -a /\ d = -b /\ y = x
      BY <2>1 DEF Magnitude
    <3>2. (-b) * x = -(b * x)
      BY SMT
    <3> QED BY <1>1, <2>1, <3>1, <3>2, SMT
  <2>2. CASE a < 0 /\ ~(b < 0)
    <3>1. m = -a /\ d = b /\ y = -x
      BY <2>2 DEF Magnitude
    <3>2. b * (-x) = -(b * x)
      BY SMT
    <3> QED BY <1>1, <2>2, <3>1, <3>2, SMT
  <2>3. CASE ~(a < 0) /\ b < 0
    <3>1. m = a /\ d = -b /\ y = -x
      BY <2>3 DEF Magnitude
    <3>2. (-b) * (-x) = b * x
      BY SMT
    <3> QED BY <1>1, <2>3, <3>1, <3>2, SMT
  <2>4. CASE ~(a < 0) /\ ~(b < 0)
    <3>1. m = a /\ d = b /\ y = x
      BY <2>4 DEF Magnitude
    <3> QED BY <1>1, <2>4, <3>1, SMT
  <2> QED BY <2>1, <2>2, <2>3, <2>4
<1>4. m - d * y \in 0..(d - 1)
  <2> HIDE DEF m, d, y, r
  <2> QED BY <1>1, <1>2, <1>3, SMT DEF Magnitude
<1>5. y = m \div d
  <2> HIDE DEF m, d, y
  <2> QED BY <1>1, <1>4, QuotientIsUnique
<1>6. Quotient(a, b) = IF (a < 0) = (b < 0) THEN y ELSE -y
  <2>1. Quotient(a, b) = IF (a < 0) = (b < 0) THEN m \div d ELSE -(m \div d)
    BY DEF Quotient
  <2> HIDE DEF y, m, d
  <2> QED BY <1>5, <2>1
<1> QED BY <1>1, <1>6, SMT

\* A quotient that fits is a defined one.
LEMMA DividesDefined ==
  ASSUME NEW a \in Int, NEW b \in Int, NEW x \in Numbers, DividesBy(a, b, x), b # 0, NEW op
  PROVE  ~Undefined(op, a, b) /\ x \in Int
<1>1. LongLimit \in Nat /\ x \in Int /\ x < LongLimit
  BY LimitsAssumption, SMT DEF Numbers
<1>2. SUFFICES ASSUME b = -1, a = -LongLimit PROVE FALSE
  BY <1>1 DEF Undefined
<1>3. Magnitude(a - b * x) < 1
  BY <1>2 DEF DividesBy, Magnitude
<1>4. a - b * x = x - LongLimit
  BY <1>1, <1>2, SMT
<1>5. x - LongLimit = 0
  BY <1>1, <1>3, <1>4, SMT DEF Magnitude
<1> QED BY <1>1, <1>5, SMT

\* Arithmetic of the language is that of the instructions.
LEMMA ArithmeticMeans ==
  ASSUME NEW tok \in Additive \cup Multiplicative, NEW a \in Int, NEW b \in Int,
         NEW x \in Means(tok, a, b)
  PROVE  /\ ~Undefined(Opcode(tok), a, b)
         /\ x = Compute(Opcode(tok), a, b) /\ x \in Int
<1>1. LongLimit \in Nat \ {0}
  BY LimitsAssumption
<1>2. CASE tok \in {"+", "-", "*"}
  <2> DEFINE n == IF tok = "+" THEN a + b ELSE IF tok = "-" THEN a - b ELSE a * b
  <2>1. n \in Int
    BY SMT
  <2>2. x \in Numbers /\ (x - n) % (2 * LongLimit) = 0
    BY <1>2 DEF Means
  <2>3. /\ ~Undefined(Opcode(tok), a, b)
        /\ Compute(Opcode(tok), a, b) = Signed(n, LongLimit)
    <3>1. CASE tok = "+"
      BY <3>1 DEF Opcode, Compute, Undefined
    <3>2. CASE tok = "-"
      BY <3>2 DEF Opcode, Compute, Undefined
    <3>3. CASE tok = "*"
      BY <3>3 DEF Opcode, Compute, Undefined
    <3> QED BY <1>2, <3>1, <3>2, <3>3
  <2> HIDE DEF n
  <2>4. x \in Int /\ x + LongLimit \in 0..(2 * LongLimit - 1) /\ 2 * LongLimit \in Nat \ {0}
    BY <1>1, <2>2, SMT DEF Numbers
  <2>5. PICK y \in Int, z \in Int, m \in Nat \ {0} :
               y = x + LongLimit /\ z = n + LongLimit /\ m = 2 * LongLimit
    BY <1>1, <2>1, <2>4
  <2>6. z % m = y
    <3>1. y - z = x - n /\ y \in 0..(m - 1)
      BY <1>1, <2>1, <2>4, <2>5
    <3>2. (y - z) % m = 0
      BY <2>2, <2>5, <3>1
    <3> QED BY <2>5, <3>1, <3>2, Remainder
  <2>7. Signed(n, LongLimit) = x
    BY <1>1, <2>4, <2>5, <2>6, SMT DEF Signed
  <2> QED BY <2>3, <2>4, <2>7
<1>3. CASE tok \in {"/", "%"}
  <2> DEFINE q == {y \in Numbers : DividesBy(a, b, y)}
  <2>1. Means(tok, a, b) = IF b = 0 \/ q = {} THEN {}
                           ELSE IF tok = "/" THEN q ELSE {a - b * y : y \in q}
    BY <1>3 DEF Means, Undetermined
  <2>2. b # 0 /\ x \in IF tok = "/" THEN q ELSE {a - b * y : y \in q}
    BY <2>1
  <2>3. PICK y \in q : x = IF tok = "/" THEN y ELSE a - b * y
    BY <1>3, <2>2
  <2>4. y \in Numbers /\ DividesBy(a, b, y)
    OBVIOUS
  <2>5. ~Undefined(Opcode(tok), a, b) /\ y \in Int /\ y = Quotient(a, b)
    BY <2>2, <2>4, DividesDefined, QuotientMeans
  <2>6. tok = "/" => Compute(Opcode(tok), a, b) = Quotient(a, b)
    BY DEF Opcode, Compute
  <2>7. tok = "%" => Compute(Opcode(tok), a, b) = a - b * Quotient(a, b)
    BY DEF Opcode, Compute
  <2>8. a - b * y \in Int
    BY <2>5, SMT
  <2> HIDE DEF q
  <2> QED BY <1>3, <2>3, <2>5, <2>6, <2>7, <2>8
<1> QED BY <1>2, <1>3 DEF Additive, Multiplicative

\* So are comparisons.
LEMMA RelationalMeans ==
  ASSUME NEW tok \in Relational, NEW a \in Int, NEW b \in Int, NEW x \in Means(tok, a, b)
  PROVE  /\ ~Undefined(Opcode(tok), a, b)
         /\ x = Compute(Opcode(tok), a, b) /\ x \in Int
<1>1. CASE tok = "=="
  BY <1>1 DEF Means, Opcode, Compute, Undefined, Truth
<1>2. CASE tok = "!="
  BY <1>2 DEF Means, Opcode, Compute, Undefined, Truth
<1>3. CASE tok = "<"
  BY <1>3 DEF Means, Opcode, Compute, Undefined, Truth
<1>4. CASE tok = ">"
  BY <1>4 DEF Means, Opcode, Compute, Undefined, Truth
<1>5. CASE tok = "<="
  BY <1>5 DEF Means, Opcode, Compute, Undefined, Truth
<1>6. CASE tok = ">="
  BY <1>6 DEF Means, Opcode, Compute, Undefined, Truth
<1> QED BY <1>1, <1>2, <1>3, <1>4, <1>5, <1>6 DEF Relational

\* The connectives compute on what intToBoolean makes of numbers.
LEMMA LogicalMeans ==
  ASSUME NEW tok \in Logical, NEW a \in Int, NEW b \in Int, NEW x \in Means(tok, a, b)
  PROVE  /\ ~Undefined(Opcode(tok), Truth(a # 0), Truth(b # 0))
         /\ x = Compute(Opcode(tok), Truth(a # 0), Truth(b # 0)) /\ x \in Int
<1>1. Truth(a # 0) # 0 <=> a # 0
  BY DEF Truth
<1>2. Truth(b # 0) # 0 <=> b # 0
  BY DEF Truth
<1>3. CASE tok = "&&"
  <2>1. x = Truth(0 \notin {a, b})
    BY <1>3 DEF Means
  <2>2. (0 \notin {a, b}) = (Truth(a # 0) # 0 /\ Truth(b # 0) # 0)
    BY <1>1, <1>2
  <2> QED BY <1>3, <2>1, <2>2 DEF Opcode, Compute, Undefined, Truth
<1>4. CASE tok = "||"
  <2>1. x = Truth({a, b} # {0})
    BY <1>4 DEF Means
  <2>2. ({a, b} # {0}) = (Truth(a # 0) # 0 \/ Truth(b # 0) # 0)
    BY <1>1, <1>2
  <2> QED BY <1>4, <2>1, <2>2 DEF Opcode, Compute, Undefined, Truth
<1> QED BY <1>3, <1>4 DEF Logical

-----------------------------------------------------------------------------
(* Functions that are defined by recursion *)

\* A set of numbers has a least one.
LEMMA Least ==
  ASSUME NEW T, T \in SUBSET Nat, T # {}
  PROVE  \E n \in T : \A k \in T : n <= k
<1> DEFINE Less == {p \in Nat \X Nat : p[1] < p[2]}
<1>1. IsWellFoundedOn(OpToRel(<, Nat), Nat)
  BY NatLessThanWellFounded
<1>2. Less = OpToRel(<, Nat)
  BY Zenon DEF OpToRel
<1>3. IsWellFoundedOn(Less, Nat)
  BY <1>1, <1>2, Zenon
<1> HIDE DEF Less
<1>4. PICK x \in T : \A y \in T : ~(<<y, x>> \in Less)
  BY <1>3, WFMin, Zenon
<1>5. \A y \in T : ~(y < x)
  BY <1>4 DEF Less
<1>6. x \in Nat /\ \A y \in T : y \in Nat
  BY <1>4
<1> QED BY <1>4, <1>5, <1>6

\* What holds of the first number, and of the next when of one, holds up to a bound.
LEMMA Induct ==
  ASSUME NEW N \in Nat, NEW T, 0 \in T, \A n \in 1..N : n - 1 \in T => n \in T
  PROVE  0..N \subseteq T
<1> SUFFICES ASSUME (0..N) \ T # {} PROVE FALSE
  OBVIOUS
<1>1. (0..N) \ T \in SUBSET Nat
  OBVIOUS
<1>2. PICK n \in (0..N) \ T : \A k \in (0..N) \ T : n <= k
  BY <1>1, Least
<1>3. n \in 1..N /\ n - 1 \in 0..N /\ ~(n <= n - 1)
  BY <1>2
<1> QED BY <1>2, <1>3

\* The trees that have their children in a set.
Grown(T) == {t \in [tok : STRING, name : Identifiers, n : Nat, kids : Seq(T)] : IsExpression(t)}
GrowsTo(f, m) == f = [h \in 0..m |-> IF h = 0 THEN {} ELSE Grown(f[h - 1])]

\* Trees is defined.
LEMMA TreesExist == \E f : GrowsTo(f, MaxHeight)
<1> DEFINE T == {m \in 0..MaxHeight : \E f : GrowsTo(f, m)}
<1>1. 0 \in T
  <2> DEFINE f == [h \in 0..0 |-> {}]
  <2>1. f = [h \in 0..0 |-> IF h = 0 THEN {} ELSE Grown(f[h - 1])]
    OBVIOUS
  <2>2. GrowsTo(f, 0)
    BY <2>1 DEF GrowsTo
  <2> QED BY <2>2, HeightAssumption
<1>2. ASSUME NEW m \in 1..MaxHeight, m - 1 \in T PROVE m \in T
  <2>1. PICK f : GrowsTo(f, m - 1)
    BY <1>2
  <2> DEFINE g == [h \in 0..m |-> IF h = m THEN Grown(f[m - 1]) ELSE f[h]]
  <2>2. \A h \in 0..(m - 1) : f[h] = IF h = 0 THEN {} ELSE Grown(f[h - 1])
    BY <2>1 DEF GrowsTo
  <2>3. ASSUME NEW h \in 0..m PROVE g[h] = IF h = 0 THEN {} ELSE Grown(g[h - 1])
    <3>1. CASE h = m
      <4>1. h # 0 /\ h - 1 = m - 1 /\ m - 1 \in 0..m /\ m - 1 # m
        BY <3>1
      <4>2. g[m - 1] = f[m - 1] /\ g[h] = Grown(f[m - 1])
        BY <3>1, <4>1
      <4> HIDE DEF g
      <4> QED BY <4>1, <4>2
    <3>2. CASE h # m
      <4>1. h \in 0..(m - 1) /\ g[h] = f[h]
        BY <3>2
      <4>2. h # 0 => g[h - 1] = f[h - 1]
        BY <3>2
      <4> HIDE DEF g
      <4> QED BY <2>2, <4>1, <4>2
    <3> QED BY <3>1, <3>2
  <2>4. g = [h \in 0..m |-> IF h = 0 THEN {} ELSE Grown(g[h - 1])]
    <3>1. g = [h \in 0..m |-> g[h]]
      OBVIOUS
    <3> HIDE DEF g
    <3> QED BY <2>3, <3>1
  <2>5. GrowsTo(g, m)
    <3> HIDE DEF g
    <3> QED BY <2>4 DEF GrowsTo
  <2> HIDE DEF g
  <2> QED BY <2>5
<1> HIDE DEF T
<1>3. 0..MaxHeight \subseteq T
  BY <1>1, <1>2, HeightAssumption, Induct
<1> QED BY <1>3, HeightAssumption DEF T

\* Trees one higher have these trees as children.
LEMMA TreesGrow ==
  /\ Trees[0] = {}
  /\ \A h \in 1..MaxHeight : Trees[h] = Grown(Trees[h - 1])
<1>1. \E f : f = [h \in 0..MaxHeight |-> IF h = 0 THEN {} ELSE Grown(f[h - 1])]
  BY TreesExist DEF GrowsTo
<1>2. Trees = CHOOSE f : f = [h \in 0..MaxHeight |-> IF h = 0 THEN {} ELSE Grown(f[h - 1])]
  BY DEF Trees, Grown
<1>3. Trees = [h \in 0..MaxHeight |-> IF h = 0 THEN {} ELSE Grown(Trees[h - 1])]
  BY <1>1, <1>2
<1>4. 0 \in 0..MaxHeight /\ \A h \in 1..MaxHeight : h \in 0..MaxHeight /\ h # 0
  BY HeightAssumption
<1> QED BY <1>3, <1>4

\* The next child is evaluated behind the others.
OneMore(s, kid, child) ==
  LET m == kid[<<child, s.seen>>] IN [vals |-> Append(s.vals, m.val), seen |-> m.seen]
NoChildren(seen) == [vals |-> << >>, seen |-> seen]
Evaluates(f, m, node, seen, kid) ==
  f = [k \in 0..m |-> IF k = 0 THEN NoChildren(seen) ELSE OneMore(f[k - 1], kid, node.kids[k])]

\* The values of the first children are defined.
LEMMA ChildrenExist ==
  ASSUME NEW node, Kids(node) \in Nat, NEW seen, NEW kid
  PROVE  \E f : Evaluates(f, Kids(node), node, seen, kid)
<1> DEFINE T == {m \in 0..Kids(node) : \E f : Evaluates(f, m, node, seen, kid)}
<1>1. 0 \in T
  <2> DEFINE f == [k \in 0..0 |-> NoChildren(seen)]
  <2>1. f = [k \in 0..0 |-> IF k = 0 THEN NoChildren(seen) ELSE OneMore(f[k - 1], kid, node.kids[k])]
    OBVIOUS
  <2>2. Evaluates(f, 0, node, seen, kid)
    BY <2>1 DEF Evaluates
  <2> QED BY <2>2
<1>2. ASSUME NEW m \in 1..Kids(node), m - 1 \in T PROVE m \in T
  <2>1. PICK f : Evaluates(f, m - 1, node, seen, kid)
    BY <1>2
  <2> DEFINE g == [k \in 0..m |-> IF k = m THEN OneMore(f[m - 1], kid, node.kids[m]) ELSE f[k]]
  <2>2. \A k \in 0..(m - 1) : f[k] = IF k = 0 THEN NoChildren(seen) ELSE OneMore(f[k - 1], kid, node.kids[k])
    BY <2>1 DEF Evaluates
  <2>3. ASSUME NEW k \in 0..m PROVE g[k] = IF k = 0 THEN NoChildren(seen) ELSE OneMore(g[k - 1], kid, node.kids[k])
    <3>1. CASE k = m
      <4>1. k # 0 /\ k - 1 = m - 1 /\ m - 1 \in 0..m /\ m - 1 # m
        BY <3>1
      <4>2. g[m - 1] = f[m - 1] /\ g[k] = OneMore(f[m - 1], kid, node.kids[m])
        BY <3>1, <4>1
      <4> HIDE DEF g
      <4> QED BY <3>1, <4>1, <4>2
    <3>2. CASE k # m
      <4>1. k \in 0..(m - 1) /\ g[k] = f[k]
        BY <3>2
      <4>2. k # 0 => g[k - 1] = f[k - 1]
        BY <3>2
      <4> HIDE DEF g
      <4> QED BY <2>2, <4>1, <4>2
    <3> QED BY <3>1, <3>2
  <2>4. g = [k \in 0..m |-> IF k = 0 THEN NoChildren(seen) ELSE OneMore(g[k - 1], kid, node.kids[k])]
    <3>1. g = [k \in 0..m |-> g[k]]
      OBVIOUS
    <3> HIDE DEF g
    <3> QED BY <2>3, <3>1
  <2>5. Evaluates(g, m, node, seen, kid)
    <3> HIDE DEF g
    <3> QED BY <2>4 DEF Evaluates
  <2> HIDE DEF g
  <2> QED BY <2>5
<1> HIDE DEF T
<1>3. 0..Kids(node) \subseteq T
  BY <1>1, <1>2, Induct
<1> QED BY <1>3 DEF T

\* Children are evaluated one after the other.
LEMMA ChildrenMean ==
  ASSUME NEW node, Kids(node) \in Nat, NEW seen, NEW kid
  PROVE  /\ Children(node, seen, kid, 0) = NoChildren(seen)
         /\ \A j \in 1..Kids(node) :
              Children(node, seen, kid, j) =
                OneMore(Children(node, seen, kid, j - 1), kid, node.kids[j])
<1> DEFINE h == CHOOSE f : f = [k \in 0..Kids(node) |->
                  IF k = 0 THEN NoChildren(seen) ELSE OneMore(f[k - 1], kid, node.kids[k])]
<1>1. \E f : f = [k \in 0..Kids(node) |->
                  IF k = 0 THEN NoChildren(seen) ELSE OneMore(f[k - 1], kid, node.kids[k])]
  <2>1. \E f : Evaluates(f, Kids(node), node, seen, kid)
    BY ChildrenExist
  <2> QED BY <2>1 DEF Evaluates
<1>2. h = [k \in 0..Kids(node) |->
             IF k = 0 THEN NoChildren(seen) ELSE OneMore(h[k - 1], kid, node.kids[k])]
  BY <1>1
<1>3. \A j : Children(node, seen, kid, j) = h[j]
  BY DEF Children, OneMore, NoChildren
<1> HIDE DEF h
<1>4. 0 \in 0..Kids(node) /\ \A k \in 1..Kids(node) : k \in 0..Kids(node) /\ k # 0
  OBVIOUS
<1> QED BY <1>2, <1>3, <1>4

\* Expressions one higher are evaluated from these.
Evaluated(h, kid, world) == [x \in Trees[h] \X Seen |-> Meaning(x[1], x[2], kid, world)]
MeansUpTo(f, m, world) ==
  f = [k \in 0..m |-> IF k = 0 THEN << >> ELSE Evaluated(k, f[k - 1], world)]

\* Evaluation is defined.
LEMMA EvaluationExists ==
  ASSUME NEW world
  PROVE  \E f : MeansUpTo(f, MaxHeight, world)
<1> DEFINE T == {m \in 0..MaxHeight : \E f : MeansUpTo(f, m, world)}
<1>1. 0 \in T
  <2> DEFINE f == [k \in 0..0 |-> << >>]
  <2>1. f = [k \in 0..0 |-> IF k = 0 THEN << >> ELSE Evaluated(k, f[k - 1], world)]
    OBVIOUS
  <2>2. MeansUpTo(f, 0, world)
    BY <2>1 DEF MeansUpTo
  <2> QED BY <2>2, HeightAssumption
<1>2. ASSUME NEW m \in 1..MaxHeight, m - 1 \in T PROVE m \in T
  <2>1. PICK f : MeansUpTo(f, m - 1, world)
    BY <1>2
  <2> DEFINE g == [k \in 0..m |-> IF k = m THEN Evaluated(m, f[m - 1], world) ELSE f[k]]
  <2>2. \A k \in 0..(m - 1) : f[k] = IF k = 0 THEN << >> ELSE Evaluated(k, f[k - 1], world)
    BY <2>1 DEF MeansUpTo
  <2>3. ASSUME NEW k \in 0..m PROVE g[k] = IF k = 0 THEN << >> ELSE Evaluated(k, g[k - 1], world)
    <3>1. CASE k = m
      <4>1. k # 0 /\ k - 1 = m - 1 /\ m - 1 \in 0..m /\ m - 1 # m
        BY <3>1
      <4>2. g[m - 1] = f[m - 1] /\ g[k] = Evaluated(m, f[m - 1], world)
        BY <3>1, <4>1
      <4> HIDE DEF g
      <4> QED BY <3>1, <4>1, <4>2
    <3>2. CASE k # m
      <4>1. k \in 0..(m - 1) /\ g[k] = f[k]
        BY <3>2
      <4>2. k # 0 => g[k - 1] = f[k - 1]
        BY <3>2
      <4> HIDE DEF g
      <4> QED BY <2>2, <4>1, <4>2
    <3> QED BY <3>1, <3>2
  <2>4. g = [k \in 0..m |-> IF k = 0 THEN << >> ELSE Evaluated(k, g[k - 1], world)]
    <3>1. g = [k \in 0..m |-> g[k]]
      OBVIOUS
    <3> HIDE DEF g
    <3> QED BY <2>3, <3>1
  <2>5. MeansUpTo(g, m, world)
    <3> HIDE DEF g
    <3> QED BY <2>4 DEF MeansUpTo
  <2> HIDE DEF g
  <2> QED BY <2>5
<1> HIDE DEF T
<1>3. 0..MaxHeight \subseteq T
  BY <1>1, <1>2, HeightAssumption, Induct
<1> QED BY <1>3, HeightAssumption DEF T

\* A tree is evaluated from the evaluation of its children.
LEMMA EvaluationMeans ==
  ASSUME NEW world, NEW h \in 1..MaxHeight, NEW t \in Trees[h], NEW seen \in Seen
  PROVE  Evaluation(world, h)[<<t, seen>>] = Meaning(t, seen, Evaluation(world, h - 1), world)
<1> DEFINE e == CHOOSE f : f = [k \in 0..MaxHeight |->
                                 IF k = 0 THEN << >> ELSE Evaluated(k, f[k - 1], world)]
<1>1. \E f : f = [k \in 0..MaxHeight |-> IF k = 0 THEN << >> ELSE Evaluated(k, f[k - 1], world)]
  BY EvaluationExists DEF MeansUpTo
<1>2. e = [k \in 0..MaxHeight |-> IF k = 0 THEN << >> ELSE Evaluated(k, e[k - 1], world)]
  BY <1>1
<1>3. \A k : Evaluation(world, k) = e[k]
  BY DEF Evaluation, Evaluated
<1> HIDE DEF e
<1>4. h \in 0..MaxHeight /\ h # 0
  BY HeightAssumption
<1>5. Evaluation(world, h) = Evaluated(h, Evaluation(world, h - 1), world)
  BY <1>2, <1>3, <1>4
<1> QED BY <1>5 DEF Evaluated

\* The n-th instruction is executed behind the others.
Nothing == [vals |-> << >>, seen |-> << >>]
Runs(f, m, c, world) ==
  f = [k \in 0..m |-> IF k = 0 THEN Nothing ELSE Execute(f[k - 1], c[k], world)]

\* The execution of each part of a code is defined.
LEMMA RunExists ==
  ASSUME NEW c, Len(c) \in Nat, NEW world
  PROVE  \E f : Runs(f, Len(c), c, world)
<1> DEFINE T == {m \in 0..Len(c) : \E f : Runs(f, m, c, world)}
<1>1. 0 \in T
  <2> DEFINE f == [k \in 0..0 |-> Nothing]
  <2>1. f = [k \in 0..0 |-> IF k = 0 THEN Nothing ELSE Execute(f[k - 1], c[k], world)]
    OBVIOUS
  <2>2. Runs(f, 0, c, world)
    BY <2>1 DEF Runs
  <2> QED BY <2>2
<1>2. ASSUME NEW m \in 1..Len(c), m - 1 \in T PROVE m \in T
  <2>1. PICK f : Runs(f, m - 1, c, world)
    BY <1>2
  <2> DEFINE g == [k \in 0..m |-> IF k = m THEN Execute(f[m - 1], c[m], world) ELSE f[k]]
  <2>2. \A k \in 0..(m - 1) : f[k] = IF k = 0 THEN Nothing ELSE Execute(f[k - 1], c[k], world)
    BY <2>1 DEF Runs
  <2>3. ASSUME NEW k \in 0..m PROVE g[k] = IF k = 0 THEN Nothing ELSE Execute(g[k - 1], c[k], world)
    <3>1. CASE k = m
      <4>1. k # 0 /\ k - 1 = m - 1 /\ m - 1 \in 0..m /\ m - 1 # m
        BY <3>1
      <4>2. g[m - 1] = f[m - 1] /\ g[k] = Execute(f[m - 1], c[m], world)
        BY <3>1, <4>1
      <4> HIDE DEF g
      <4> QED BY <3>1, <4>1, <4>2
    <3>2. CASE k # m
      <4>1. k \in 0..(m - 1) /\ g[k] = f[k]
        BY <3>2
      <4>2. k # 0 => g[k - 1] = f[k - 1]
        BY <3>2
      <4> HIDE DEF g
      <4> QED BY <2>2, <4>1, <4>2
    <3> QED BY <3>1, <3>2
  <2>4. g = [k \in 0..m |-> IF k = 0 THEN Nothing ELSE Execute(g[k - 1], c[k], world)]
    <3>1. g = [k \in 0..m |-> g[k]]
      OBVIOUS
    <3> HIDE DEF g
    <3> QED BY <2>3, <3>1
  <2>5. Runs(g, m, c, world)
    <3> HIDE DEF g
    <3> QED BY <2>4 DEF Runs
  <2> HIDE DEF g
  <2> QED BY <2>5
<1> HIDE DEF T
<1>3. 0..Len(c) \subseteq T
  BY <1>1, <1>2, Induct
<1> QED BY <1>3 DEF T

\* It is what Execution computes.
LEMMA RunMeans ==
  ASSUME NEW c, Len(c) \in Nat, NEW world
  PROVE  \E run : Execution(c, world) = run[Len(c)] /\ Runs(run, Len(c), c, world)
<1> DEFINE r == CHOOSE f : f = [k \in 0..Len(c) |->
                                 IF k = 0 THEN Nothing ELSE Execute(f[k - 1], c[k], world)]
<1>1. \E f : f = [k \in 0..Len(c) |-> IF k = 0 THEN Nothing ELSE Execute(f[k - 1], c[k], world)]
  BY RunExists DEF Runs
<1>2. r = [k \in 0..Len(c) |-> IF k = 0 THEN Nothing ELSE Execute(r[k - 1], c[k], world)]
  BY <1>1
<1>3. Execution(c, world) = r[Len(c)]
  BY DEF Execution, Nothing
<1> HIDE DEF r
<1> QED BY <1>2, <1>3 DEF Runs

\* Nothing is executed of no code.
LEMMA ExecutionStarts ==
  ASSUME NEW world
  PROVE  Execution(<< >>, world) = Nothing
<1>1. Len(<< >>) = 0 /\ 0 \in 0..0
  OBVIOUS
<1>2. PICK run : Execution(<< >>, world) = run[0] /\ Runs(run, 0, << >>, world)
  BY <1>1, RunMeans
<1> QED BY <1>1, <1>2 DEF Runs

\* An instruction is executed behind the code before.
LEMMA ExecutionGrows ==
  ASSUME NEW S, NEW c \in Seq(S), NEW i \in S, NEW world
  PROVE  Execution(Append(c, i), world) = Execute(Execution(c, world), i, world)
<1> DEFINE d == Append(c, i)
           n == Len(c)
<1>1. /\ d \in Seq(S) /\ n \in Nat /\ Len(d) = n + 1 /\ d[n + 1] = i
      /\ \A k \in 1..n : d[k] = c[k]
  OBVIOUS
<1> HIDE DEF d, n
<1>2. PICK f : Execution(c, world) = f[n] /\ Runs(f, n, c, world)
  BY <1>1, RunMeans DEF n
<1>3. PICK g : Execution(d, world) = g[n + 1] /\ Runs(g, n + 1, d, world)
  BY <1>1, RunMeans
<1>4. \A k \in 0..n : f[k] = IF k = 0 THEN Nothing ELSE Execute(f[k - 1], c[k], world)
  BY <1>2 DEF Runs
<1>5. \A k \in 0..(n + 1) : g[k] = IF k = 0 THEN Nothing ELSE Execute(g[k - 1], d[k], world)
  BY <1>3 DEF Runs
<1> DEFINE T == {k \in 0..n : f[k] = g[k]}
<1>6. 0 \in T
  <2>1. 0 \in 0..n /\ 0 \in 0..(n + 1)
    BY <1>1
  <2> QED BY <1>4, <1>5, <2>1
<1>7. ASSUME NEW k \in 1..n, k - 1 \in T PROVE k \in T
  <2>1. k \in 0..n /\ k \in 0..(n + 1) /\ k # 0 /\ f[k - 1] = g[k - 1] /\ d[k] = c[k]
    BY <1>1, <1>7
  <2>2. f[k] = Execute(f[k - 1], c[k], world) /\ g[k] = Execute(g[k - 1], d[k], world)
    BY <1>4, <1>5, <2>1
  <2> QED BY <2>1, <2>2
<1> HIDE DEF T
<1>8. n \in T
  <2>1. n \in Nat
    BY <1>1
  <2>2. 0..n \subseteq T
    BY <2>1, <1>6, <1>7, Induct
  <2> QED BY <2>1, <2>2
<1>9. f[n] = g[n]
  BY <1>8 DEF T
<1>10. n + 1 \in 0..(n + 1) /\ n + 1 # 0 /\ (n + 1) - 1 = n
  BY <1>1
<1>11. g[n + 1] = Execute(g[n], i, world)
  BY <1>1, <1>5, <1>10
<1> QED BY <1>2, <1>3, <1>9, <1>11 DEF d

-----------------------------------------------------------------------------
(* The values of the source *)

Binary == Logical \cup Relational \cup Additive \cup Multiplicative
Outcomes == [val : SUBSET Int, seen : Seen]

\* A value of an operation is one of its operands' values.
LEMMA LiftMeans ==
  ASSUME NEW tok \in Binary, NEW l \in SUBSET Int, NEW r \in SUBSET Int, NEW x \in Lift(tok, l, r)
  PROVE  x \in Int /\ \E a \in l, b \in r : x \in Means(tok, a, b)
<1>1. PICK p \in l \X r : x \in Means(tok, p[1], p[2])
  BY DEF Lift
<1>2. p[1] \in l /\ p[2] \in r /\ p[1] \in Int /\ p[2] \in Int
  OBVIOUS
<1>3. x \in Int
  BY <1>1, <1>2, ArithmeticMeans, RelationalMeans, LogicalMeans DEF Binary
<1> QED BY <1>1, <1>2, <1>3

\* They are numbers.
LEMMA LiftTyped ==
  ASSUME NEW tok \in Binary, NEW l \in SUBSET Int, NEW r \in SUBSET Int
  PROVE  Lift(tok, l, r) \in SUBSET Int
BY LiftMeans

\* What a node of a tree is when its children come from T.
Suits(node, T) ==
  /\ node.kids \in Seq(T) /\ node.name \in Identifiers
  /\ IsExpression(node) \/ IsStatement(node)
  /\ node.tok = "number" => node.n \in Nat

\* A tree has children one lower.
LEMMA TreeSuits ==
  ASSUME NEW h \in 1..MaxHeight, NEW t \in Trees[h]
  PROVE  Suits(t, Trees[h - 1]) /\ IsExpression(t) /\ t.n \in Nat
BY TreesGrow DEF Grown, Suits

\* A statement has trees of MaxHeight as children.
LEMMA StatementSuits ==
  ASSUME NEW s \in Statements
  PROVE  Suits(TreeOf(s), Trees[MaxHeight]) /\ IsStatement(TreeOf(s))
BY HeightAssumption, StatementsAssumption DEF Suits, IsStatement

\* kid evaluates the trees of T.
Answers(kid, T) == \A t \in T, seen \in Seen : kid[<<t, seen>>] \in Outcomes

\* The values of some children.
Some(j) == {s \in [vals : Seq(SUBSET Int), seen : Seen] : Len(s.vals) = j}

\* Children that are evaluated have values, each one.
LEMMA ChildrenTyped ==
  ASSUME NEW T, NEW node, Suits(node, T), NEW kid, Answers(kid, T), NEW seen \in Seen
  PROVE  Kids(node) \in Nat /\ \A j \in 0..Kids(node) : Children(node, seen, kid, j) \in Some(j)
<1>1. Kids(node) \in Nat
  BY DEF Suits, Kids
<1> DEFINE D == {j \in 0..Kids(node) : Children(node, seen, kid, j) \in Some(j)}
<1>2. 0 \in D
  <2>1. Children(node, seen, kid, 0) = [vals |-> << >>, seen |-> seen]
    BY <1>1, ChildrenMean DEF NoChildren
  <2>2. << >> \in Seq(SUBSET Int) /\ Len(<< >>) = 0
    OBVIOUS
  <2>3. [vals |-> << >>, seen |-> seen] \in [vals : Seq(SUBSET Int), seen : Seen]
    BY <2>2
  <2> DEFINE c == [vals |-> << >>, seen |-> seen]
  <2>4. c \in [vals : Seq(SUBSET Int), seen : Seen] /\ Len(c.vals) = 0
    BY <2>2, <2>3
  <2> HIDE DEF c
  <2>5. c \in Some(0)
    BY <2>4 DEF Some
  <2>6. Children(node, seen, kid, 0) = c
    BY <2>1 DEF c
  <2> QED BY <1>1, <2>5, <2>6
<1>3. ASSUME NEW j \in 1..Kids(node), j - 1 \in D PROVE j \in D
  <2> DEFINE s == Children(node, seen, kid, j - 1)
             m == kid[<<node.kids[j], s.seen>>]
  <2>1. s \in Some(j - 1)
    BY <1>3
  <2>2. node.kids[j] \in T
    BY DEF Suits, Kids
  <2>3. m \in Outcomes
    BY <2>1, <2>2 DEF Answers, Some
  <2>4. Children(node, seen, kid, j) = [vals |-> Append(s.vals, m.val), seen |-> m.seen]
    BY <1>1, ChildrenMean DEF OneMore
  <2>5. j \in Int /\ j \in 0..Kids(node)
    BY <1>1
  <2> HIDE DEF s, m
  <2>6. /\ Append(s.vals, m.val) \in Seq(SUBSET Int) /\ Len(Append(s.vals, m.val)) = j
        /\ m.seen \in Seen
    BY <2>1, <2>3, <2>5 DEF Some, Outcomes
  <2>7. Children(node, seen, kid, j) \in Some(j)
    BY <2>4, <2>6 DEF Some
  <2> QED BY <2>5, <2>7
<1> HIDE DEF D
<1>4. 0..Kids(node) \subseteq D
  BY <1>1, <1>2, <1>3, Induct
<1> QED BY <1>1, <1>4 DEF D

\* An effect is observed.
LEMMA SeenGrows ==
  ASSUME NEW seen \in Seen, NEW for \in Purposes, NEW args \in Seq(SUBSET Int)
  PROVE  Append(seen, Observed(for, args)) \in Seen
BY DEF Seen, Observed

\* What a world yields is a set of numbers.
LEMMA YieldTyped ==
  ASSUME NEW world \in Worlds, NEW seen, Len(seen) \in Nat
  PROVE  Yield(world, seen) \in SUBSET Numbers /\ Yield(world, seen) \in SUBSET Int
<1>1. world \in Seq(Numbers) /\ 0 \in Numbers /\ Numbers \subseteq Int
  BY WorldsAssumption, LimitsAssumption, SMT DEF Numbers
<1>2. Len(seen) < Len(world) => world[Len(seen) + 1] \in Numbers
  BY <1>1
<1> QED BY <1>1, <1>2 DEF Yield

\* A value and what is seen then.
LEMMA OutcomeTyped ==
  ASSUME NEW val \in SUBSET Int, NEW seen \in Seen
  PROVE  [val |-> val, seen |-> seen] \in Outcomes
BY DEF Outcomes

\* The arms of Meaning: m is what the node means whose children mean kids.
Arms(node, kids, world, m) ==
  /\ IsBinary(node) =>
       m = [val |-> Lift(node.tok, kids.vals[1], kids.vals[2]), seen |-> kids.seen]
  /\ IsUnary(node) =>
       m = [val |-> Lift(IF node.tok = "!" THEN "==" ELSE node.tok, {0}, kids.vals[1]),
            seen |-> kids.seen]
  /\ node.tok = "number" =>
       m = [val |-> IF node.n < IntLimit THEN {node.n} ELSE Undetermined, seen |-> kids.seen]
  /\ node.tok = "ident" =>
       m = [val |-> IF IsKnown(node) THEN Yield(world, kids.seen) ELSE Undetermined,
            seen |-> Append(kids.seen, Observed(node.name, kids.vals))]
  /\ node.tok = "call" =>
       m = [val |-> IF node.name \notin VoidFunctions THEN Yield(world, kids.seen)
                    ELSE Undetermined,
            seen |-> Append(kids.seen, Observed(node.name, kids.vals))]
  /\ node.tok = "exp" => m = [val |-> kids.vals[1], seen |-> kids.seen]
  /\ node.tok = "return" =>
       m = [val |-> Undetermined, seen |-> Append(kids.seen, Observed("return", kids.vals))]
  /\ node.tok = "condition" =>
       m = [val |-> Undetermined,
            seen |-> Append(kids.seen, Observed("condition", <<Lift("!=", {0}, kids.vals[1])>>))]
  /\ node.tok = "assign" =>
       m = [val |-> Undetermined, seen |-> Append(kids.seen, Observed(node.name, kids.vals))]

\* They are all the arms there are.
LEMMA MeaningIs ==
  ASSUME NEW node, IsExpression(node) \/ IsStatement(node), NEW seen, NEW kid, NEW world
  PROVE  Arms(node, Children(node, seen, kid, Kids(node)), world, Meaning(node, seen, kid, world))
<1> DEFINE kids == Children(node, seen, kid, Kids(node))
           m == Meaning(node, seen, kid, world)
<1> HIDE DEF kids
<1>1. ~(IsBinary(node) /\ IsUnary(node))
  BY DEF IsBinary, IsUnary
<1>2. CASE IsBinary(node)
  <2>1. node.tok \notin {"number", "ident", "call", "exp", "return", "condition", "assign"}
    BY <1>2 DEF IsBinary, Logical, Relational, Additive, Multiplicative
  <2> QED BY <1>1, <1>2, <2>1 DEF Arms, Meaning, kids
<1>3. CASE IsUnary(node)
  <2>1. node.tok \notin {"number", "ident", "call", "exp", "return", "condition", "assign"}
    BY <1>3 DEF IsUnary, UnaryOperators
  <2> QED BY <1>1, <1>3, <2>1 DEF Arms, Meaning, kids
<1>4. CASE ~IsBinary(node) /\ ~IsUnary(node)
  BY <1>4 DEF Arms, Meaning, kids
<1> HIDE DEF m
<1> QED BY <1>1, <1>2, <1>3, <1>4 DEF m, kids, Arms

\* What a node means is a set of numbers, and effects.
LEMMA MeaningTyped ==
  ASSUME NEW T, NEW node, Suits(node, T), NEW kid, Answers(kid, T), NEW seen \in Seen,
         NEW world \in Worlds
  PROVE  Meaning(node, seen, kid, world) \in Outcomes
<1> DEFINE kids == Children(node, seen, kid, Kids(node))
           m == Meaning(node, seen, kid, world)
<1>1. Kids(node) \in Nat /\ Kids(node) \in 0..Kids(node) /\ node.name \in Purposes
  BY ChildrenTyped DEF Suits, Identifiers, Purposes
<1>2. kids \in Some(Kids(node))
  BY <1>1, ChildrenTyped
<1>3. IsExpression(node) \/ IsStatement(node)
  BY DEF Suits
<1> HIDE DEF kids
<1>4. /\ kids.seen \in Seen /\ kids.vals \in Seq(SUBSET Int) /\ Len(kids.vals) = Kids(node)
      /\ \A j \in 1..Kids(node) : kids.vals[j] \in SUBSET Int
      /\ Yield(world, kids.seen) \in SUBSET Int /\ Undetermined \in SUBSET Int
  <2>1. kids.seen \in Seen /\ kids.vals \in Seq(SUBSET Int) /\ Len(kids.vals) = Kids(node)
    BY <1>2 DEF Some
  <2>2. Len(kids.seen) \in Nat
    BY <2>1 DEF Seen
  <2> QED BY <1>1, <2>1, <2>2, YieldTyped DEF Undetermined
<1>5. \A for \in Purposes, args \in Seq(SUBSET Int) : Append(kids.seen, Observed(for, args)) \in Seen
  BY <1>4, SeenGrows
<1>6. CASE IsBinary(node)
  <2>1. node.tok \in Binary /\ Kids(node) = 2
    BY <1>6 DEF IsBinary, Binary
  <2>2. m = [val |-> Lift(node.tok, kids.vals[1], kids.vals[2]), seen |-> kids.seen]
    BY <1>3, <1>6, MeaningIs DEF Arms, kids
  <2>3. kids.vals[1] \in SUBSET Int /\ kids.vals[2] \in SUBSET Int
    BY <1>4, <2>1
  <2>4. Lift(node.tok, kids.vals[1], kids.vals[2]) \in SUBSET Int
    BY <2>1, <2>3, LiftTyped
  <2> HIDE DEF m
  <2> QED BY <1>4, <2>2, <2>4, OutcomeTyped DEF m
<1>7. CASE IsUnary(node)
  <2> DEFINE tok == IF node.tok = "!" THEN "==" ELSE node.tok
  <2>1. tok \in Binary /\ Kids(node) = 1
    BY <1>7 DEF IsUnary, UnaryOperators, Binary, Relational, Additive
  <2>2. m = [val |-> Lift(tok, {0}, kids.vals[1]), seen |-> kids.seen]
    BY <1>3, <1>7, MeaningIs DEF Arms, kids
  <2>3. kids.vals[1] \in SUBSET Int /\ {0} \in SUBSET Int
    BY <1>4, <2>1
  <2> HIDE DEF tok
  <2>4. Lift(tok, {0}, kids.vals[1]) \in SUBSET Int
    BY <2>1, <2>3, LiftTyped
  <2> HIDE DEF m
  <2> QED BY <1>4, <2>2, <2>4, OutcomeTyped DEF m
<1>8. CASE node.tok = "number"
  <2> DEFINE v == IF node.n < IntLimit THEN {node.n} ELSE Undetermined
  <2>1. m = [val |-> v, seen |-> kids.seen]
    BY <1>3, <1>8, MeaningIs DEF Arms, kids
  <2>2. v \in SUBSET Int
    BY <1>8 DEF Suits, Undetermined
  <2> HIDE DEF m, v
  <2> QED BY <1>4, <2>1, <2>2, OutcomeTyped DEF m
<1>9. CASE node.tok = "ident"
  <2> DEFINE v == IF IsKnown(node) THEN Yield(world, kids.seen) ELSE Undetermined
  <2>1. m = [val |-> v, seen |-> Append(kids.seen, Observed(node.name, kids.vals))]
    BY <1>3, <1>9, MeaningIs DEF Arms, kids
  <2>2. v \in SUBSET Int /\ Append(kids.seen, Observed(node.name, kids.vals)) \in Seen
    BY <1>1, <1>4, <1>5
  <2> HIDE DEF m, v
  <2> QED BY <2>1, <2>2, OutcomeTyped DEF m
<1>10. CASE node.tok = "call"
  <2> DEFINE v == IF node.name \notin VoidFunctions THEN Yield(world, kids.seen) ELSE Undetermined
  <2>1. m = [val |-> v, seen |-> Append(kids.seen, Observed(node.name, kids.vals))]
    BY <1>3, <1>10, MeaningIs DEF Arms, kids
  <2>2. v \in SUBSET Int /\ Append(kids.seen, Observed(node.name, kids.vals)) \in Seen
    BY <1>1, <1>4, <1>5
  <2> HIDE DEF m, v
  <2> QED BY <2>1, <2>2, OutcomeTyped DEF m
<1>11. CASE node.tok = "exp"
  <2>1. m = [val |-> kids.vals[1], seen |-> kids.seen] /\ Kids(node) = 1
    BY <1>3, <1>11, MeaningIs DEF Arms, kids, IsExpression, IsStatement, IsBinary, IsUnary, Logical,
      Relational, Additive, Multiplicative, UnaryOperators
  <2>2. kids.vals[1] \in SUBSET Int
    BY <1>4, <2>1
  <2> HIDE DEF m
  <2> QED BY <1>4, <2>1, <2>2, OutcomeTyped DEF m
<1>12. CASE node.tok = "return"
  <2>1. m = [val |-> Undetermined, seen |-> Append(kids.seen, Observed("return", kids.vals))]
    BY <1>3, <1>12, MeaningIs DEF Arms, kids
  <2>2. Append(kids.seen, Observed("return", kids.vals)) \in Seen
    <3>1. "return" \in Purposes
      BY DEF Purposes
    <3> QED BY <1>4, <1>5, <3>1
  <2> HIDE DEF m
  <2> QED BY <1>4, <2>1, <2>2, OutcomeTyped DEF m
<1>13. CASE node.tok = "condition"
  <2>1. /\ m = [val |-> Undetermined,
                seen |-> Append(kids.seen, Observed("condition", <<Lift("!=", {0}, kids.vals[1])>>))]
        /\ Kids(node) = 1
    BY <1>3, <1>13, MeaningIs DEF Arms, kids, IsExpression, IsStatement, IsBinary, IsUnary, Logical,
      Relational, Additive, Multiplicative, UnaryOperators
  <2>2. kids.vals[1] \in SUBSET Int /\ {0} \in SUBSET Int /\ "!=" \in Binary
    BY <1>4, <2>1 DEF Binary, Relational
  <2>3. Lift("!=", {0}, kids.vals[1]) \in SUBSET Int
    BY <2>2, LiftTyped
  <2>4. <<Lift("!=", {0}, kids.vals[1])>> \in Seq(SUBSET Int)
    BY <2>3
  <2> DEFINE o == Append(kids.seen, Observed("condition", <<Lift("!=", {0}, kids.vals[1])>>))
  <2>5. o \in Seen
    <3>1. "condition" \in Purposes
      BY DEF Purposes
    <3> QED BY <1>5, <2>4, <3>1
  <2> HIDE DEF m, o
  <2>6. m = [val |-> Undetermined, seen |-> o]
    BY <2>1 DEF o
  <2> QED BY <1>4, <2>5, <2>6, OutcomeTyped DEF m
<1>14. CASE node.tok = "assign"
  <2>1. m = [val |-> Undetermined, seen |-> Append(kids.seen, Observed(node.name, kids.vals))]
    BY <1>3, <1>14, MeaningIs DEF Arms, kids
  <2>2. Append(kids.seen, Observed(node.name, kids.vals)) \in Seen
    BY <1>1, <1>4, <1>5
  <2> HIDE DEF m
  <2> QED BY <1>4, <2>1, <2>2, OutcomeTyped DEF m
<1> QED
  BY <1>3, <1>6, <1>7, <1>8, <1>9, <1>10, <1>11, <1>12, <1>13, <1>14 DEF IsExpression, IsStatement

\* So is what the trees of each height mean.
LEMMA EvaluationTyped ==
  ASSUME NEW world \in Worlds, NEW h \in 0..MaxHeight
  PROVE  Answers(Evaluation(world, h), Trees[h])
<1> DEFINE D == {k \in 0..MaxHeight : Answers(Evaluation(world, k), Trees[k])}
<1>1. 0 \in D
  BY TreesGrow, HeightAssumption DEF Answers
<1>2. ASSUME NEW k \in 1..MaxHeight, k - 1 \in D PROVE k \in D
  <2>1. k \in 0..MaxHeight /\ Answers(Evaluation(world, k - 1), Trees[k - 1])
    BY <1>2, HeightAssumption
  <2>2. ASSUME NEW t \in Trees[k], NEW seen \in Seen
        PROVE  Evaluation(world, k)[<<t, seen>>] \in Outcomes
    BY <2>1, TreeSuits, MeaningTyped, EvaluationMeans
  <2> QED BY <2>1, <2>2 DEF Answers
<1> HIDE DEF D
<1>3. 0..MaxHeight \subseteq D
  BY <1>1, <1>2, HeightAssumption, Induct
<1> QED BY <1>3 DEF D

-----------------------------------------------------------------------------
(* The values of the code *)

\* The values and effects of n instructions.
Behaviours(n) ==
  {e \in [vals : Seq(SUBSET Numbers), seen : Seq([for : Purposes, args : Seq(SUBSET Numbers)])] :
     Len(e.vals) = n}

\* f has the values of e, and more.
Keeps(e, f) == Len(e.vals) <= Len(f.vals) /\ \A k \in 1..Len(e.vals) : f.vals[k] = e.vals[k]

\* Values that are kept stay kept.
LEMMA KeepsMore ==
  ASSUME NEW l \in Nat, NEW m \in Nat, NEW n \in Nat, NEW e \in Behaviours(l),
         NEW f \in Behaviours(m), NEW g \in Behaviours(n), Keeps(e, f), Keeps(f, g)
  PROVE  Keeps(e, g)
<1>1. Len(e.vals) \in Nat /\ Len(f.vals) \in Nat /\ Len(g.vals) \in Nat
  BY DEF Behaviours
<1> QED BY <1>1 DEF Keeps

\* Nothing is lost of what stays.
LEMMA KeepsItself ==
  ASSUME NEW n \in Nat, NEW e \in Behaviours(n)
  PROVE  Keeps(e, e)
BY DEF Keeps, Behaviours

\* Zero and one are numbers.
LEMMA NumbersInt == Numbers \subseteq Int /\ 0 \in Numbers /\ 1 \in Numbers
BY LimitsAssumption, SMT DEF Numbers

\* A value that is there is a set of numbers, whatever is executed later.
LEMMA ValueTyped ==
  ASSUME NEW c \in Seq(Instructions), NEW v \in Values, Defined(v, c), NEW e \in Behaviours(Len(c))
  PROVE  ValueOf(v, e.vals) \in SUBSET Numbers
<1>1. e.vals \in Seq(SUBSET Numbers) /\ Len(e.vals) = Len(c) /\ Len(c) \in Nat
  BY DEF Behaviours
<1>2. CASE v.kind = "const"
  <2>1. v.n \in Numbers
    BY <1>2, NumbersInt DEF Values
  <2> QED BY <1>2, <2>1 DEF ValueOf
<1>3. CASE v.kind = "poison"
  BY <1>3 DEF ValueOf, Undetermined
<1>4. CASE v.kind = "reg"
  <2>1. v.n \in 1..Len(e.vals)
    BY <1>1, <1>4 DEF Defined
  <2>2. ValueOf(v, e.vals) = e.vals[v.n]
    BY <1>4 DEF ValueOf
  <2> QED BY <1>1, <2>1, <2>2
<1> QED BY <1>2, <1>3, <1>4 DEF Values

\* It is the same when more was executed.
LEMMA ValueKept ==
  ASSUME NEW c \in Seq(Instructions), NEW v \in Values, Defined(v, c), NEW e \in Behaviours(Len(c)),
         NEW f, Keeps(e, f)
  PROVE  ValueOf(v, f.vals) = ValueOf(v, e.vals)
<1>1. CASE v.kind = "const"
  BY <1>1 DEF ValueOf
<1>2. CASE v.kind = "poison"
  BY <1>2 DEF ValueOf
<1>3. CASE v.kind = "reg"
  BY <1>3 DEF ValueOf, Defined, Behaviours, Keeps
<1> QED BY <1>1, <1>2, <1>3 DEF Values

\* What the operands of an instruction are.
Arguments(i, vals) == [j \in 1..Len(i.args) |-> ValueOf(i.args[j], vals)]

\* They are sets of numbers.
LEMMA ArgumentsTyped ==
  ASSUME NEW c \in Seq(Instructions), NEW i, i.args \in Seq(Values),
         \A j \in 1..Len(i.args) : Defined(i.args[j], c), NEW e \in Behaviours(Len(c))
  PROVE  /\ Arguments(i, e.vals) \in Seq(SUBSET Numbers)
         /\ Len(Arguments(i, e.vals)) = Len(i.args)
<1>1. Len(i.args) \in Nat
  OBVIOUS
<1>2. \A j \in 1..Len(i.args) : ValueOf(i.args[j], e.vals) \in SUBSET Numbers
  BY ValueTyped
<1> QED BY <1>1, <1>2 DEF Arguments

\* An instruction without an effect has a value.
LEMMA ExecuteValue ==
  ASSUME NEW c \in Seq(Instructions), NEW i \in Instructions, NEW world \in Worlds,
         NEW e, e = Execution(c, world), e \in Behaviours(Len(c)), i.for = NoEffect,
         NEW r \in SUBSET Numbers, r = Result(i.op, Arguments(i, e.vals)),
         NEW f, f = Execution(Append(c, i), world)
  PROVE  /\ f \in Behaviours(Len(c) + 1) /\ Keeps(e, f) /\ f.seen = e.seen
         /\ \A ty : ValueOf(Reg(ty, Len(c) + 1), f.vals) = r
<1>1. f = Execute(e, i, world)
  BY ExecutionGrows
<1>2. f = [vals |-> Append(e.vals, r), seen |-> e.seen]
  BY <1>1 DEF Execute, Arguments
<1>3. e.vals \in Seq(SUBSET Numbers) /\ Len(e.vals) = Len(c) /\ Len(c) \in Nat
  BY DEF Behaviours
<1>4. /\ f.vals \in Seq(SUBSET Numbers) /\ Len(f.vals) = Len(c) + 1 /\ f.vals[Len(c) + 1] = r
      /\ \A k \in 1..Len(c) : f.vals[k] = e.vals[k]
  BY <1>2, <1>3
<1>5. f \in Behaviours(Len(c) + 1)
  BY <1>2, <1>4 DEF Behaviours
<1> QED BY <1>2, <1>3, <1>4, <1>5 DEF Keeps, ValueOf, Reg

\* One with an effect is observed, and yields a value when it is a number.
LEMMA ExecuteEffect ==
  ASSUME NEW c \in Seq(Instructions), NEW i \in Instructions, NEW world \in Worlds,
         NEW e, e = Execution(c, world), e \in Behaviours(Len(c)), i.for # NoEffect,
         \A j \in 1..Len(i.args) : Defined(i.args[j], c),
         NEW f, f = Execution(Append(c, i), world)
  PROVE  /\ f \in Behaviours(Len(c) + 1) /\ Keeps(e, f)
         /\ f.seen = Append(e.seen, Observed(i.for, Arguments(i, e.vals)))
         /\ i.ty = "i64" =>
              \A ty : ValueOf(Reg(ty, Len(c) + 1), f.vals) = Yield(world, e.seen)
<1> DEFINE y == IF i.ty = "i64" THEN Yield(world, e.seen) ELSE Undetermined
           o == Observed(i.for, Arguments(i, e.vals))
<1>1. f = Execute(e, i, world)
  BY ExecutionGrows
<1>2. f = [vals |-> Append(e.vals, y), seen |-> Append(e.seen, o)]
  BY <1>1 DEF Execute, Arguments
<1>3. /\ e.vals \in Seq(SUBSET Numbers) /\ Len(e.vals) = Len(c) /\ Len(c) \in Nat
      /\ e.seen \in Seq([for : Purposes, args : Seq(SUBSET Numbers)]) /\ Len(e.seen) \in Nat
  BY DEF Behaviours
<1>4. y \in SUBSET Numbers
  BY <1>3, YieldTyped DEF Undetermined
<1>5. o \in [for : Purposes, args : Seq(SUBSET Numbers)]
  <2>1. Arguments(i, e.vals) \in Seq(SUBSET Numbers)
    BY ArgumentsTyped DEF Instructions
  <2>2. i.for \in Purposes
    BY DEF Instructions
  <2> QED BY <2>1, <2>2 DEF Observed
<1> HIDE DEF y, o
<1>6. /\ f.vals \in Seq(SUBSET Numbers) /\ Len(f.vals) = Len(c) + 1 /\ f.vals[Len(c) + 1] = y
      /\ \A k \in 1..Len(c) : f.vals[k] = e.vals[k]
      /\ f.seen \in Seq([for : Purposes, args : Seq(SUBSET Numbers)])
  BY <1>2, <1>3, <1>4, <1>5
<1>7. f \in Behaviours(Len(c) + 1)
  BY <1>2, <1>6 DEF Behaviours
<1>8. Keeps(e, f)
  BY <1>3, <1>6 DEF Keeps
<1>9. \A ty : ValueOf(Reg(ty, Len(c) + 1), f.vals) = y
  BY <1>6 DEF ValueOf, Reg
<1>10. f.seen = Append(e.seen, o)
  BY <1>2
<1> QED BY <1>7, <1>8, <1>9, <1>10 DEF y, o

-----------------------------------------------------------------------------
(* What IRBuilder builds computes *)

Val(v, c, world) == ValueOf(v, Execution(c, world).vals)

\* d is executed without an effect behind c, and what c computed is still there.
Continues(c, d, world) ==
  /\ Execution(d, world) \in Behaviours(Len(d))
  /\ Keeps(Execution(c, world), Execution(d, world))
  /\ Execution(d, world).seen = Execution(c, world).seen

\* So it is when more code continues it.
LEMMA ContinuesMore ==
  ASSUME NEW c \in Seq(Instructions), NEW d \in Seq(Instructions), NEW a \in Seq(Instructions),
         NEW world, Execution(c, world) \in Behaviours(Len(c)),
         Continues(c, d, world), Continues(d, a, world)
  PROVE  Continues(c, a, world)
<1>1. Len(c) \in Nat /\ Len(d) \in Nat /\ Len(a) \in Nat
  OBVIOUS
<1>2. Keeps(Execution(c, world), Execution(a, world))
  BY <1>1, KeepsMore DEF Continues
<1> QED BY <1>2 DEF Continues

\* Code continues itself.
LEMMA ContinuesItself ==
  ASSUME NEW c \in Seq(Instructions), NEW world, Execution(c, world) \in Behaviours(Len(c))
  PROVE  Continues(c, c, world)
<1>1. Len(c) \in Nat
  OBVIOUS
<1> QED BY <1>1, KeepsItself DEF Continues

\* What an operation makes of values that are there.
LEMMA ResultTyped ==
  ASSUME NEW op \in Operations, NEW l \in SUBSET Numbers, NEW r \in SUBSET Numbers
  PROVE  /\ Result(op, <<l, r>>) \in SUBSET Numbers
         /\ \A x \in l, y \in r : ~Undefined(op, x, y) => Compute(op, x, y) \in Result(op, <<l, r>>)
<1>1. op # "zext"
  BY DEF Operations, Comparisons, Connectives, Arithmetic
<1>2. Result(op, <<l, r>>) =
        {Compute(op, p[1], p[2]) : p \in {q \in l \X r : ~Undefined(op, q[1], q[2])}}
  BY <1>1 DEF Result
<1>3. ASSUME NEW z \in Result(op, <<l, r>>) PROVE z \in Numbers
  <2>1. PICK p \in {q \in l \X r : ~Undefined(op, q[1], q[2])} : z = Compute(op, p[1], p[2])
    BY <1>2
  <2>2. p[1] \in Numbers /\ p[2] \in Numbers /\ ~Undefined(op, p[1], p[2])
    OBVIOUS
  <2> QED BY <2>1, <2>2, ComputeInRange
<1>4. ASSUME NEW x \in l, NEW y \in r, ~Undefined(op, x, y)
      PROVE  Compute(op, x, y) \in Result(op, <<l, r>>)
  <2>1. <<x, y>> \in {q \in l \X r : ~Undefined(op, q[1], q[2])}
    BY <1>4
  <2>2. <<x, y>>[1] = x /\ <<x, y>>[2] = y
    OBVIOUS
  <2> QED BY <1>2, <2>1, <2>2
<1> QED BY <1>3, <1>4

\* An operation on constants is computed at compile time.
LEMMA FoldComputes ==
  ASSUME NEW op, NEW l \in Values, NEW r \in Values, IsConstant(l), IsConstant(r), NEW vals,
         NEW x \in ValueOf(l, vals), NEW y \in ValueOf(r, vals), ~Undefined(op, x, y)
  PROVE  Compute(op, x, y) \in ValueOf(Fold(op, l, r), vals)
<1>1. l.kind = "const" /\ r.kind = "const"
  BY DEF ValueOf, Undetermined, IsConstant, Values
<1>2. x = l.n /\ y = r.n
  BY <1>1 DEF ValueOf
<1>3. Fold(op, l, r) = Const(ResultType(op, l), Compute(op, x, y))
  BY <1>1, <1>2 DEF Fold
<1> QED BY <1>3 DEF ValueOf, Const

\* What IRBuilder makes of an operation, a constant or an instruction, has the
\* value of the operation.
LEMMA BuildComputes ==
  ASSUME NEW c, CodeTyped(c), NEW op \in Operations, NEW l, NEW r, Fits(l, c, op), Fits(r, c, op),
         NEW world \in Worlds, Execution(c, world) \in Behaviours(Len(c)),
         NEW b, b = Build(c, op, l, r)
  PROVE  /\ Continues(c, b.code, world)
         /\ \A x \in Val(l, c, world), y \in Val(r, c, world) :
              ~Undefined(op, x, y) => Compute(op, x, y) \in Val(b.val, b.code, world)
<1>1. /\ l \in Values /\ r \in Values /\ c \in Seq(Instructions) /\ Len(c) \in Nat
      /\ Defined(l, c) /\ Defined(r, c)
  BY FitsTyped DEF CodeTyped
<1>2. CASE IsConstant(l) /\ IsConstant(r)
  <2>1. b.code = c /\ b.val = Fold(op, l, r)
    BY <1>2 DEF Build
  <2> QED BY <1>1, <1>2, <2>1, ContinuesItself, FoldComputes DEF Val
<1>3. CASE ~(IsConstant(l) /\ IsConstant(r))
  <2> DEFINE i == Instr(op, ResultType(op, l), <<l, r>>, NoEffect)
             e == Execution(c, world)
             res == Result(op, <<ValueOf(l, e.vals), ValueOf(r, e.vals)>>)
  <2>1. b.code = Append(c, i) /\ b.val = Reg(ResultType(op, l), Len(c) + 1)
    BY <1>3 DEF Build
  <2>2. i \in Instructions
    <3>1. <<l, r>> \in Seq(Values)
      BY <1>1
    <3>2. op \in Operations \cup Others /\ ResultType(op, l) \in Types
      BY <1>1, ResultTypeTyped
    <3> QED BY <3>1, <3>2, NoPurpose DEF Instr, Instructions
  <2>3. i.op = op /\ i.for = NoEffect /\ i.args = <<l, r>>
    BY DEF Instr
  <2>4. Arguments(i, e.vals) = <<ValueOf(l, e.vals), ValueOf(r, e.vals)>>
    <3> HIDE DEF i, e
    <3>1. Len(i.args) = 2 /\ i.args[1] = l /\ i.args[2] = r
      BY <2>3
    <3> QED BY <3>1 DEF Arguments
  <2>5. ValueOf(l, e.vals) \in SUBSET Numbers /\ ValueOf(r, e.vals) \in SUBSET Numbers
    BY <1>1, ValueTyped
  <2>6. /\ res \in SUBSET Numbers
        /\ \A x \in ValueOf(l, e.vals), y \in ValueOf(r, e.vals) :
             ~Undefined(op, x, y) => Compute(op, x, y) \in res
    BY <2>5, ResultTyped
  <2>7. res = Result(i.op, Arguments(i, e.vals))
    BY <2>3, <2>4
  <2> DEFINE f == Execution(Append(c, i), world)
  <2> HIDE DEF i, e, res, f
  <2>8. /\ f \in Behaviours(Len(c) + 1) /\ Keeps(e, f) /\ f.seen = e.seen
        /\ \A ty : ValueOf(Reg(ty, Len(c) + 1), f.vals) = res
    BY <1>1, <2>2, <2>3, <2>6, <2>7, ExecuteValue DEF e, f
  <2>9. Len(Append(c, i)) = Len(c) + 1
    BY <1>1, <2>2
  <2>10. Continues(c, b.code, world)
    BY <2>1, <2>8, <2>9 DEF Continues, e, f
  <2>11. Val(b.val, b.code, world) = res
    BY <2>1, <2>8 DEF Val, f
  <2> QED BY <2>6, <2>10, <2>11 DEF Val, e
<1> QED BY <1>2, <1>3

\* The constant zero is zero.
LEMMA ZeroIs ==
  ASSUME NEW c, NEW world
  PROVE  Val(Zero, c, world) = {0}
BY DEF Val, ValueOf, Zero, Const

\* intToBoolean makes 0 or 1 of a number.
LEMMA IntToBooleanComputes ==
  ASSUME NEW c, CodeTyped(c), NEW v, Usable(v, c), NEW world \in Worlds,
         Execution(c, world) \in Behaviours(Len(c)), NEW b, b = IntToBoolean(c, v)
  PROVE  /\ Continues(c, b.code, world)
         /\ \A x \in Val(v, c, world) : Truth(x # 0) \in Val(b.val, b.code, world)
<1>1. "ne" \in Operations /\ OperandType("ne") = "i64"
  BY DEF Operations, Comparisons, Connectives, OperandType
<1>2. Fits(Zero, c, "ne") /\ Fits(v, c, "ne")
  BY <1>1, ZeroUsable DEF Fits
<1>3. b = Build(c, "ne", Zero, v)
  BY DEF IntToBoolean
<1>4. /\ Continues(c, b.code, world)
      /\ \A x \in Val(Zero, c, world), y \in Val(v, c, world) :
           ~Undefined("ne", x, y) => Compute("ne", x, y) \in Val(b.val, b.code, world)
  BY <1>1, <1>2, <1>3, BuildComputes
<1>5. ASSUME NEW x \in Val(v, c, world) PROVE Truth(x # 0) \in Val(b.val, b.code, world)
  <2>1. 0 \in Val(Zero, c, world)
    BY ZeroIs
  <2>2. ~Undefined("ne", 0, x)
    BY DEF Undefined
  <2>3. Compute("ne", 0, x) = Truth(x # 0)
    BY DEF Compute, Truth
  <2>4. Compute("ne", 0, x) \in Val(b.val, b.code, world)
    BY <1>4, <2>1, <2>2
  <2> QED BY <2>3, <2>4
<1> QED BY <1>4, <1>5

\* booleanToInt keeps it.
LEMMA BooleanToIntComputes ==
  ASSUME NEW d, CodeTyped(d), NEW v, Condition(v, d), NEW world \in Worlds,
         Execution(d, world) \in Behaviours(Len(d)),
         NEW b, b = BooleanToInt([code |-> d, val |-> v])
  PROVE  Continues(d, b.code, world) /\ Val(b.val, b.code, world) = Val(v, d, world)
<1>1. v \in Values /\ Defined(v, d) /\ d \in Seq(Instructions) /\ Len(d) \in Nat
  BY DEF Condition, CodeTyped
<1>2. CASE IsConstant(v)
  <2>1. b.code = d /\ b.val = [kind |-> v.kind, ty |-> "i64", n |-> v.n]
    BY <1>2 DEF BooleanToInt
  <2>2. CASE v.kind = "const"
    BY <1>1, <2>1, <2>2, ContinuesItself DEF Val, ValueOf
  <2>3. CASE v.kind = "poison"
    BY <1>1, <2>1, <2>3, ContinuesItself DEF Val, ValueOf
  <2> QED BY <1>1, <1>2, <2>2, <2>3 DEF Values, IsConstant
<1>3. CASE ~IsConstant(v)
  <2> DEFINE i == Instr("zext", "i64", <<v>>, NoEffect)
             e == Execution(d, world)
             res == ValueOf(v, e.vals)
             f == Execution(Append(d, i), world)
  <2>1. b.code = Append(d, i) /\ b.val = Reg("i64", Len(d) + 1)
    BY <1>3 DEF BooleanToInt
  <2>2. i \in Instructions
    <3>1. <<v>> \in Seq(Values)
      BY <1>1
    <3> QED BY <3>1, NoPurpose DEF Instr, Instructions, Types, Others
  <2>3. i.op = "zext" /\ i.for = NoEffect /\ i.args = <<v>>
    BY DEF Instr
  <2>4. Arguments(i, e.vals) = <<res>>
    <3> HIDE DEF i, e
    <3>1. Len(i.args) = 1 /\ i.args[1] = v
      BY <2>3
    <3> QED BY <3>1 DEF Arguments
  <2>5. res \in SUBSET Numbers
    BY <1>1, ValueTyped
  <2>6. res = Result(i.op, Arguments(i, e.vals))
    <3>1. Result("zext", <<res>>) = <<res>>[1]
      BY DEF Result
    <3> QED BY <2>3, <2>4, <3>1
  <2> HIDE DEF i, e, res, f
  <2>7. /\ f \in Behaviours(Len(d) + 1) /\ Keeps(e, f) /\ f.seen = e.seen
        /\ \A ty : ValueOf(Reg(ty, Len(d) + 1), f.vals) = res
    BY <1>1, <2>2, <2>3, <2>5, <2>6, ExecuteValue DEF e, f
  <2>8. Len(Append(d, i)) = Len(d) + 1
    BY <1>1, <2>2
  <2>9. Continues(d, b.code, world)
    BY <2>1, <2>7, <2>8 DEF Continues, e, f
  <2>10. Val(b.val, b.code, world) = res
    BY <2>1, <2>7 DEF Val, f
  <2> QED BY <2>9, <2>10 DEF Val, res, e
<1> QED BY <1>2, <1>3

\* A comparison or a connective, handed up as a number.
LEMMA BooleanComputes ==
  ASSUME NEW c, CodeTyped(c), NEW op \in Comparisons \cup Connectives, NEW l, NEW r,
         Fits(l, c, op), Fits(r, c, op), ~IsNull(l), NEW world \in Worlds,
         Execution(c, world) \in Behaviours(Len(c)),
         NEW built, built = BooleanToInt(Build(c, op, l, r))
  PROVE  /\ Continues(c, built.code, world)
         /\ \A x \in Val(l, c, world), y \in Val(r, c, world) :
              ~Undefined(op, x, y) => Compute(op, x, y) \in Val(built.val, built.code, world)
<1> DEFINE b == Build(c, op, l, r)
           d == b.code
           v == b.val
<1>1. op \in Operations /\ ResultType(op, l) = "i1" /\ c \in Seq(Instructions)
  BY OpcodeTyped DEF CodeTyped
<1>2. b = [code |-> d, val |-> v]
  BY DEF Build
<1>3. IsBuilt(b, c, "i1")
  BY <1>1, BuildTyped
<1>4. /\ Continues(c, d, world)
      /\ \A x \in Val(l, c, world), y \in Val(r, c, world) :
           ~Undefined(op, x, y) => Compute(op, x, y) \in Val(v, d, world)
  BY <1>1, BuildComputes
<1> HIDE DEF b
<1>5. CodeTyped(d) /\ Condition(v, d) /\ d \in Seq(Instructions)
  BY <1>3 DEF IsBuilt, Condition, CodeTyped
<1>6. IsBuilt([code |-> d, val |-> v], c, "i1")
  BY <1>2, <1>3
<1> HIDE DEF d, v
<1>7. built = BooleanToInt([code |-> d, val |-> v])
  BY <1>2 DEF b
<1>8. Execution(d, world) \in Behaviours(Len(d))
  BY <1>4 DEF Continues
<1>9. Continues(d, built.code, world) /\ Val(built.val, built.code, world) = Val(v, d, world)
  BY <1>5, <1>7, <1>8, BooleanToIntComputes
<1>10. built.code \in Seq(Instructions)
  <2>1. IsBuilt(built, c, "i64")
    BY <1>1, <1>6, <1>7, BooleanToIntTyped
  <2> QED BY <2>1 DEF IsBuilt, CodeTyped
<1>11. Continues(c, built.code, world)
  BY <1>1, <1>4, <1>5, <1>9, <1>10, ContinuesMore
<1> QED BY <1>4, <1>9, <1>11

-----------------------------------------------------------------------------
(* What the handlers know of the source *)

\* One more effect is observed on both sides.
LEMMA ShowsMore ==
  ASSUME NEW S, NEW T, NEW target \in Seq(S), NEW source \in Seq(T), Shows(target, source),
         NEW o \in S, NEW q \in T, o.for = q.for, Len(o.args) = Len(q.args),
         \A j \in 1..Len(q.args) : q.args[j] \subseteq o.args[j]
  PROVE  Shows(Append(target, o), Append(source, q))
<1> DEFINE t == Append(target, o)
           s == Append(source, q)
           n == Len(source)
<1>1. /\ n \in Nat /\ Len(s) = n + 1 /\ s[n + 1] = q /\ \A i \in 1..n : s[i] = source[i]
      /\ Len(t) = n + 1 /\ t[n + 1] = o /\ \A i \in 1..n : t[i] = target[i]
  <2>1. Len(target) = n
    BY DEF Shows
  <2> QED BY <2>1
<1> HIDE DEF t, s
<1>2. ASSUME NEW i \in 1..(n + 1)
      PROVE  /\ t[i].for = s[i].for /\ Len(t[i].args) = Len(s[i].args)
             /\ \A j \in 1..Len(s[i].args) : s[i].args[j] \subseteq t[i].args[j]
  <2>1. CASE i = n + 1
    BY <1>1, <2>1
  <2>2. CASE i # n + 1
    <3>1. i \in 1..n /\ s[i] = source[i] /\ t[i] = target[i]
      BY <1>1, <2>2
    <3> QED BY <3>1 DEF Shows
  <2> QED BY <2>1, <2>2
<1>3. Shows(t, s)
  BY <1>1, <1>2 DEF Shows
<1> QED BY <1>3 DEF t, s

\* Where a handler is in the source: the height of its children, and what was
\* seen when it was entered.
Places == [h : 0..MaxHeight, seen : Seen]

\* The children it has the values of, and what is seen behind them.
Reached(f, p, world) == Children(f.node, p.seen, Evaluation(world, p.h), Len(f.vals))

\* What it waits for.
Awaited(f) == f.node.kids[Len(f.vals) + 1]
Answer(f, p, world) == Evaluation(world, p.h)[<<Awaited(f), Reached(f, p, world).seen>>]

\* What a handler keeps of a number.
Held(node, a) == IF node.tok \in Logical THEN Truth(a # 0) ELSE a

FrameMeans(f, p, world, c) ==
  /\ p \in Places /\ Suits(f.node, Trees[p.h])
  /\ \A i \in 1..Len(f.vals) : \A a \in Reached(f, p, world).vals[i] :
       Held(f.node, a) \in Val(f.vals[i], c, world)

\* A handler that was called by another.
Called(f, p, g, q, world) ==
  p.h = q.h + 1 /\ g.node = Awaited(f) /\ q.seen = Reached(f, p, world).seen

Tracks(at, st, world, c) ==
  /\ at \in Seq(Places) /\ Len(at) = Len(st)
  /\ at[1] = [h |-> MaxHeight, seen |-> << >>]
  /\ \A d \in 1..Len(st) : FrameMeans(st[d], at[d], world, c)
  /\ \A d \in 2..Len(st) : Called(st[d - 1], at[d - 1], st[d], at[d], world)

\* A handler is called where the source is, and hands up what the source means.
Goes(at, st, node, res, world, c) ==
  LET f == st[Len(st)]
      p == at[Len(st)]
      target == Execution(c, world).seen
  IN  IF node # NoNode
      THEN node = Awaited(f) /\ Shows(target, Reached(f, p, world).seen)
      ELSE /\ Shows(target, Answer(f, p, world).seen)
           /\ Answer(f, p, world).val \subseteq Val(res, c, world)

\* The invariant for a world.
MeaningInv(world) ==
  /\ IInv(Trees[MaxHeight])
  /\ Execution(code, world) \in Behaviours(Len(code))
  /\ status = "done" =>
       Shows(Execution(Needed(stack[1].node, code), world).seen, SourceEffects(stack[1].node, world))
  /\ status = "generating" =>
       \E at : Tracks(at, stack, world, code) /\ Goes(at, stack, entered, result, world, code)

\* The trees of a height have their children among them.
LEMMA TreesForest == IsForest(Trees[MaxHeight])
<1> DEFINE D == {h \in 0..MaxHeight : h # 0 => Trees[h - 1] \subseteq Trees[h]}
<1>1. MaxHeight \in Nat
  BY HeightAssumption
<1>2. 0 \in D
  BY <1>1
<1>3. ASSUME NEW h \in 1..MaxHeight, h - 1 \in D PROVE h \in D
  <2>1. h \in 0..MaxHeight /\ h - 1 \in 0..MaxHeight
    BY <1>1
  <2>2. CASE h = 1
    BY <2>1, <2>2, TreesGrow
  <2>3. CASE h # 1
    <3>1. h - 1 \in 1..MaxHeight /\ h - 1 # 0
      BY <1>1, <2>3
    <3>2. Trees[h - 1 - 1] \subseteq Trees[h - 1]
      BY <1>3, <3>1
    <3>3. Trees[h] = Grown(Trees[h - 1]) /\ Trees[h - 1] = Grown(Trees[h - 1 - 1])
      BY <3>1, TreesGrow
    <3>4. Grown(Trees[h - 1 - 1]) \subseteq Grown(Trees[h - 1])
      BY <3>2 DEF Grown
    <3> QED BY <2>1, <3>3, <3>4
  <2> QED BY <2>2, <2>3
<1> HIDE DEF D
<1>4. 0..MaxHeight \subseteq D
  BY <1>1, <1>2, <1>3, Induct
<1>5. MaxHeight # 0 => Trees[MaxHeight - 1] \subseteq Trees[MaxHeight]
  BY <1>1, <1>4 DEF D
<1>6. ASSUME NEW t \in Trees[MaxHeight]
      PROVE  t.name \in STRING /\ t.n \in Nat /\ IsExpression(t) /\ t.kids \in Seq(Trees[MaxHeight])
  <2>1. MaxHeight # 0 /\ MaxHeight \in 1..MaxHeight
    BY <1>1, TreesGrow
  <2>2. Suits(t, Trees[MaxHeight - 1]) /\ IsExpression(t) /\ t.n \in Nat
    BY <2>1, TreeSuits
  <2>3. t.kids \in Seq(Trees[MaxHeight])
    BY <1>5, <2>1, <2>2 DEF Suits
  <2> QED BY <2>2, <2>3 DEF Suits, Identifiers
<1>7. ASSUME NEW s \in Statements
      PROVE  TreeOf(s).name \in STRING /\ TreeOf(s).kids \in Seq(Trees[MaxHeight])
  BY HeightAssumption DEF Identifiers
<1> QED BY <1>6, <1>7 DEF IsForest

\* Frames keep what they know when no value is lost.
LEMMA FrameStillMeans ==
  ASSUME NEW f, NEW p, NEW world, NEW c \in Seq(Instructions), NEW d, FrameTyped(f, c),
         Execution(c, world) \in Behaviours(Len(c)),
         Keeps(Execution(c, world), Execution(d, world)), FrameMeans(f, p, world, c)
  PROVE  FrameMeans(f, p, world, d)
<1>1. ASSUME NEW i \in 1..Len(f.vals) PROVE Val(f.vals[i], d, world) = Val(f.vals[i], c, world)
  <2>1. f.vals[i] \in Values /\ Defined(f.vals[i], c)
    BY DEF FrameTyped, Usable, Condition
  <2> QED BY <2>1, ValueKept DEF Val
<1> QED BY <1>1 DEF FrameMeans

\* So do all the frames of a stack.
LEMMA StillTracks ==
  ASSUME NEW forest, NEW at, NEW st, NEW world, NEW c \in Seq(Instructions), NEW d,
         StackTyped(forest, st, c), Execution(c, world) \in Behaviours(Len(c)),
         Keeps(Execution(c, world), Execution(d, world)), Tracks(at, st, world, c)
  PROVE  Tracks(at, st, world, d)
<1>1. \A k \in 1..Len(st) : FrameMeans(st[k], at[k], world, d)
  BY FrameStillMeans DEF StackTyped, Tracks
<1> QED BY <1>1 DEF Tracks

\* What a sequence is without its last element.
LEMMA Front ==
  ASSUME NEW S, NEW s \in Seq(S), Len(s) > 0, NEW b, b = SubSeq(s, 1, Len(s) - 1)
  PROVE  /\ b \in Seq(S) /\ Len(b) = Len(s) - 1
         /\ \A i \in 1..(Len(s) - 1) : b[i] = s[i]
<1>1. Len(s) \in Nat /\ Len(s) - 1 \in Nat /\ \A i \in 1..(Len(s) - 1) : s[i] \in S
  OBVIOUS
<1>2. /\ b \in Seq(S)
      /\ Len(b) = IF 1 <= Len(s) - 1 THEN Len(s) - 1 - 1 + 1 ELSE 0
      /\ \A i \in 1..(Len(s) - 1 - 1 + 1) : b[i] = s[1 + i - 1]
  BY <1>1, SubSeqProperties
<1>3. \A m \in Nat : m > 0 => (IF 1 <= m - 1 THEN m - 1 - 1 + 1 ELSE 0) = m - 1
  OBVIOUS
<1>4. Len(b) = Len(s) - 1
  BY <1>1, <1>2, <1>3
<1>5. \A i \in 1..(Len(s) - 1) : b[i] = s[i]
  BY <1>1, <1>2
<1> QED BY <1>2, <1>4, <1>5

\* Of an expression's handler it is known who called it.
LEMMA CallerKnown ==
  ASSUME NEW forest, NEW at, NEW st, NEW world, NEW c, StackTyped(forest, st, c),
         Tracks(at, st, world, c), NEW k \in 2..Len(st)
  PROVE  /\ k - 1 \in 1..Len(st) /\ at[k - 1].h \in 1..MaxHeight /\ at[k - 1] \in Places
         /\ st[k].node \in Trees[at[k - 1].h] /\ st[k].node.tok \notin StatementTokens
<1>1. k - 1 \in 1..Len(st) /\ k \in 1..Len(st)
  BY DEF StackTyped
<1>2. /\ FrameMeans(st[k - 1], at[k - 1], world, c) /\ FrameTyped(st[k - 1], c)
      /\ Called(st[k - 1], at[k - 1], st[k], at[k], world) /\ at[k] \in Places
  BY <1>1 DEF Tracks, StackTyped, FrameMeans
<1>3. at[k - 1].h \in 1..MaxHeight
  <2>1. at[k].h \in 0..MaxHeight /\ at[k - 1].h \in 0..MaxHeight /\ at[k - 1].h = at[k].h + 1
    BY <1>2 DEF Called, FrameMeans, Places
  <2> QED BY <2>1, HeightAssumption
<1>4. st[k].node \in Trees[at[k - 1].h]
  <2>1. /\ st[k - 1].node.kids \in Seq(Trees[at[k - 1].h])
        /\ Len(st[k - 1].vals) + 1 \in 1..Len(st[k - 1].node.kids)
        /\ st[k].node = st[k - 1].node.kids[Len(st[k - 1].vals) + 1]
    BY <1>2 DEF FrameMeans, Suits, FrameTyped, Called, Awaited, Kids
  <2> QED BY <2>1
<1>5. IsExpression(st[k].node)
  BY <1>3, <1>4, TreeSuits
<1>6. st[k].node.tok \notin StatementTokens
  BY <1>5 DEF IsExpression, IsBinary, IsUnary, Logical, Relational, Additive, Multiplicative,
    UnaryOperators, StatementTokens
<1> QED BY <1>1, <1>2, <1>3, <1>4, <1>6 DEF FrameMeans

\* A handler is left.
LEMMA TracksBelow ==
  ASSUME NEW forest, NEW at, NEW st, NEW world, NEW c, StackTyped(forest, st, c),
         Tracks(at, st, world, c), Len(st) > 1
  PROVE  Tracks(SubSeq(at, 1, Len(st) - 1), SubSeq(st, 1, Len(st) - 1), world, c)
<1> DEFINE a == SubSeq(at, 1, Len(st) - 1)
           b == SubSeq(st, 1, Len(st) - 1)
           n == Len(st) - 1
<1>1. st \in Seq(Frames(forest)) /\ at \in Seq(Places) /\ Len(at) = Len(st) /\ Len(st) \in Nat
  BY DEF StackTyped, Tracks
<1>2. Len(b) = n /\ \A i \in 1..n : b[i] = st[i]
  BY <1>1, Front
<1>3. a \in Seq(Places) /\ Len(a) = n /\ \A i \in 1..n : a[i] = at[i]
  BY <1>1, Front
<1>4. n \in Nat /\ 1 \in 1..n /\ \A k \in 1..n : k \in 1..Len(st)
  BY <1>1
<1>5. \A k \in 2..n : k \in 1..n /\ k - 1 \in 1..n /\ k \in 2..Len(st)
  BY <1>1
<1> HIDE DEF a, b, n
<1>6. \A k \in 1..n : FrameMeans(b[k], a[k], world, c)
  BY <1>2, <1>3, <1>4 DEF Tracks
<1>7. \A k \in 2..n : Called(b[k - 1], a[k - 1], b[k], a[k], world)
  BY <1>2, <1>3, <1>5 DEF Tracks
<1>8. a[1] = [h |-> MaxHeight, seen |-> << >>]
  BY <1>3, <1>4 DEF Tracks
<1>9. Tracks(a, b, world, c)
  BY <1>2, <1>3, <1>6, <1>7, <1>8 DEF Tracks
<1> QED BY <1>9 DEF a, b, n

\* A handler is called.
LEMMA TracksCalled ==
  ASSUME NEW forest, NEW at, NEW st, NEW world, NEW c, StackTyped(forest, st, c),
         Tracks(at, st, world, c), NEW f, NEW p \in Places, FrameMeans(f, p, world, c),
         Called(st[Len(st)], at[Len(st)], f, p, world)
  PROVE  Tracks(Append(at, p), Append(st, f), world, c)
<1> DEFINE a == Append(at, p)
           b == Append(st, f)
           n == Len(st)
<1>1. /\ st \in Seq(Frames(forest)) /\ at \in Seq(Places) /\ Len(at) = n /\ n \in Nat /\ n > 0
  BY DEF StackTyped, Tracks
<1>2. Len(b) = n + 1 /\ b[n + 1] = f /\ \A i \in 1..n : b[i] = st[i]
  BY <1>1
<1>3. a \in Seq(Places) /\ Len(a) = n + 1 /\ a[n + 1] = p /\ \A i \in 1..n : a[i] = at[i]
  BY <1>1
<1> HIDE DEF a, b
<1>4. ASSUME NEW k \in 1..(n + 1) PROVE FrameMeans(b[k], a[k], world, c)
  <2>1. CASE k = n + 1
    BY <1>2, <1>3, <2>1
  <2>2. CASE k # n + 1
    <3>1. k \in 1..n
      BY <1>1, <2>2
    <3> QED BY <1>2, <1>3, <3>1 DEF Tracks
  <2> QED BY <2>1, <2>2
<1>5. ASSUME NEW k \in 2..(n + 1) PROVE Called(b[k - 1], a[k - 1], b[k], a[k], world)
  <2>1. CASE k = n + 1
    <3>1. k - 1 = n /\ n \in 1..n
      BY <1>1, <2>1
    <3> QED BY <1>2, <1>3, <2>1, <3>1
  <2>2. CASE k # n + 1
    <3>1. k \in 2..n /\ k \in 1..n /\ k - 1 \in 1..n
      BY <1>1, <2>2
    <3> QED BY <1>2, <1>3, <3>1 DEF Tracks
  <2> QED BY <2>1, <2>2
<1>6. a[1] = [h |-> MaxHeight, seen |-> << >>]
  <2>1. 1 \in 1..n
    BY <1>1
  <2> QED BY <1>3, <2>1 DEF Tracks
<1>7. Tracks(a, b, world, c)
  BY <1>2, <1>3, <1>4, <1>5, <1>6 DEF Tracks
<1> QED BY <1>7 DEF a, b

\* A handler goes on with its next child.
LEMMA TracksReplaced ==
  ASSUME NEW forest, NEW at, NEW st, NEW world, NEW c, StackTyped(forest, st, c),
         Tracks(at, st, world, c), NEW f, f.node = st[Len(st)].node,
         FrameMeans(f, at[Len(st)], world, c)
  PROVE  Tracks(at, Append(SubSeq(st, 1, Len(st) - 1), f), world, c)
<1> DEFINE below == SubSeq(st, 1, Len(st) - 1)
           b == Append(below, f)
           n == Len(st)
<1>1. /\ st \in Seq(Frames(forest)) /\ at \in Seq(Places) /\ Len(at) = n /\ n \in Nat /\ n > 0
  BY DEF StackTyped, Tracks
<1>2. /\ below \in Seq(Frames(forest)) /\ Len(below) = n - 1
      /\ \A i \in 1..(n - 1) : below[i] = st[i]
  BY <1>1, Front
<1> HIDE DEF below
<1>3. Len(b) = n /\ b[n] = f /\ \A i \in 1..(n - 1) : b[i] = st[i]
  <2>1. n - 1 + 1 = n /\ n - 1 \in Nat
    BY <1>1
  <2> QED BY <1>2, <2>1
<1> HIDE DEF b, n
<1>4. ASSUME NEW k \in 1..n PROVE FrameMeans(b[k], at[k], world, c)
  <2>1. CASE k = n
    BY <1>3, <2>1 DEF n
  <2>2. CASE k # n
    <3>1. k \in 1..(n - 1)
      BY <1>1, <2>2
    <3> QED BY <1>1, <1>3, <3>1 DEF Tracks, n
  <2> QED BY <2>1, <2>2
<1>5. ASSUME NEW k \in 2..n PROVE Called(b[k - 1], at[k - 1], b[k], at[k], world)
  <2>1. Called(st[k - 1], at[k - 1], st[k], at[k], world)
    BY DEF Tracks, n
  <2>2. k - 1 \in 1..(n - 1)
    BY <1>1
  <2>3. b[k - 1] = st[k - 1] /\ b[k].node = st[k].node
    <3>1. CASE k = n
      BY <1>3, <2>2, <3>1 DEF n
    <3>2. CASE k # n
      <4>1. k \in 1..(n - 1)
        BY <1>1, <3>2
      <4> QED BY <1>3, <2>2, <4>1
    <3> QED BY <3>1, <3>2
  <2> QED BY <2>1, <2>3 DEF Called
<1>6. Tracks(at, b, world, c)
  BY <1>1, <1>3, <1>4, <1>5 DEF Tracks
<1> QED BY <1>6 DEF b, below, n

\* A handler that is handed what the next child means.
LEMMA NextReached ==
  ASSUME NEW f, NEW p, NEW world \in Worlds, NEW c, FrameTyped(f, c), FrameMeans(f, p, world, c)
  PROVE  LET n == Len(f.vals)
             s == Reached(f, p, world)
             m == Answer(f, p, world)
             next == Children(f.node, p.seen, Evaluation(world, p.h), n + 1)
         IN  /\ n \in Nat /\ Kids(f.node) \in Nat /\ n + 1 \in 1..Kids(f.node)
             /\ s \in Some(n) /\ m \in Outcomes /\ next \in Some(n + 1)
             /\ next.seen = m.seen /\ next.vals[n + 1] = m.val
             /\ \A i \in 1..n : next.vals[i] = s.vals[i]
             /\ Awaited(f) \in Trees[p.h] /\ p.h \in 1..MaxHeight
<1> DEFINE n == Len(f.vals)
           s == Reached(f, p, world)
           m == Answer(f, p, world)
           kid == Evaluation(world, p.h)
           next == Children(f.node, p.seen, kid, n + 1)
<1>1. /\ p.h \in 0..MaxHeight /\ p.seen \in Seen /\ Suits(f.node, Trees[p.h])
      /\ n \in Nat /\ n < Kids(f.node)
  BY DEF FrameMeans, Places, FrameTyped
<1>2. Answers(kid, Trees[p.h])
  BY <1>1, EvaluationTyped
<1>3. /\ Kids(f.node) \in Nat
      /\ \A j \in 0..Kids(f.node) : Children(f.node, p.seen, kid, j) \in Some(j)
  BY <1>1, <1>2, ChildrenTyped
<1>4. n + 1 \in 1..Kids(f.node) /\ n + 1 \in 0..Kids(f.node) /\ n \in 0..Kids(f.node) /\ (n + 1) - 1 = n
  BY <1>1, <1>3
<1>5. s \in Some(n) /\ next \in Some(n + 1)
  BY <1>3, <1>4 DEF Reached
<1>6. Awaited(f) \in Trees[p.h]
  BY <1>1, <1>4 DEF Awaited, Suits, Kids
<1>7. p.h \in 1..MaxHeight
  BY <1>1, <1>6, TreesGrow
<1>8. m \in Outcomes
  BY <1>2, <1>5, <1>6 DEF Answer, Answers, Some
<1>9. next = OneMore(s, kid, f.node.kids[n + 1])
  BY <1>3, <1>4, ChildrenMean DEF Reached
<1>10. m = kid[<<f.node.kids[n + 1], s.seen>>]
  BY DEF Answer, Awaited
<1>11. next = [vals |-> Append(s.vals, m.val), seen |-> m.seen]
  BY <1>9, <1>10 DEF OneMore
<1>12. s.vals \in Seq(SUBSET Int) /\ Len(s.vals) = n /\ m.val \in SUBSET Int
  BY <1>5, <1>8 DEF Some, Outcomes
<1> HIDE DEF s, m, kid, next, n
<1>13. /\ next.seen = m.seen /\ next.vals[n + 1] = m.val
       /\ \A i \in 1..n : next.vals[i] = s.vals[i]
  BY <1>1, <1>11, <1>12
<1>14. /\ n \in Nat /\ Kids(f.node) \in Nat /\ n + 1 \in 1..Kids(f.node)
       /\ s \in Some(n) /\ m \in Outcomes /\ next \in Some(n + 1)
       /\ Awaited(f) \in Trees[p.h] /\ p.h \in 1..MaxHeight
  BY <1>1, <1>3, <1>4, <1>5, <1>6, <1>7, <1>8
<1> QED BY <1>13, <1>14 DEF n, s, m, kid, next

\* What a handler answers that was called.
LEMMA AnswerMeans ==
  ASSUME NEW f, NEW p, NEW world \in Worlds, NEW c, FrameTyped(f, c), FrameMeans(f, p, world, c)
  PROVE  /\ Suits(Awaited(f), Trees[p.h - 1]) /\ IsExpression(Awaited(f)) /\ Awaited(f).n \in Nat
         /\ Answer(f, p, world) =
              Meaning(Awaited(f), Reached(f, p, world).seen, Evaluation(world, p.h - 1), world)
         /\ Reached(f, p, world).seen \in Seen
<1>1. /\ Awaited(f) \in Trees[p.h] /\ p.h \in 1..MaxHeight
      /\ Reached(f, p, world) \in Some(Len(f.vals))
  BY NextReached
<1>2. Reached(f, p, world).seen \in Seen
  BY <1>1 DEF Some
<1> QED BY <1>1, <1>2, TreeSuits, EvaluationMeans DEF Answer

-----------------------------------------------------------------------------
(* Handlers that hand up *)

\* What a handler is called for, or is handed, in a state of the invariant.
LEMMA AtTop ==
  ASSUME NEW world \in Worlds, MeaningInv(world), status = "generating"
  PROVE  /\ StackTyped(Trees[MaxHeight], stack, code) /\ code \in Seq(Instructions)
         /\ CodeTyped(code) /\ Usable(result, code) /\ FrameTyped(Top, code)
         /\ Execution(code, world) \in Behaviours(Len(code))
         /\ Len(stack) \in Nat /\ Len(stack) > 0 /\ Len(stack) \in 1..Len(stack)
         /\ \E at : /\ Tracks(at, stack, world, code)
                    /\ Goes(at, stack, entered, result, world, code)
                    /\ FrameMeans(Top, at[Len(stack)], world, code)
<1>1. /\ StackTyped(Trees[MaxHeight], stack, code) /\ code \in Seq(Instructions)
      /\ CodeTyped(code) /\ Usable(result, code)
  BY DEF MeaningInv, IInv, CodeTyped
<1>2. Len(stack) \in Nat /\ Len(stack) > 0 /\ Len(stack) \in 1..Len(stack)
  BY <1>1 DEF StackTyped
<1>3. FrameTyped(Top, code)
  BY <1>1, <1>2 DEF StackTyped, Top
<1>4. PICK at : Tracks(at, stack, world, code) /\ Goes(at, stack, entered, result, world, code)
  BY DEF MeaningInv
<1>5. FrameMeans(Top, at[Len(stack)], world, code)
  BY <1>2, <1>4 DEF Tracks, Top
<1> QED BY <1>1, <1>2, <1>3, <1>4, <1>5 DEF MeaningInv

\* A value is handed up that contains what the source means.
LEMMA HandUpMeans ==
  ASSUME NEW world \in Worlds, MeaningInv(world), status = "generating", IInv(Trees[MaxHeight])',
         NEW below, NEW built, HandUp(below, built),
         NEW at, Tracks(at, below, world, code), StackTyped(Trees[MaxHeight], below, code),
         Execution(built.code, world) \in Behaviours(Len(built.code)),
         Keeps(Execution(code, world), Execution(built.code, world)),
         NEW m, m = Answer(below[Len(below)], at[Len(below)], world),
         Shows(Execution(built.code, world).seen, m.seen),
         m.val \subseteq Val(built.val, built.code, world)
  PROVE  MeaningInv(world)'
<1>1. /\ stack' = below /\ entered' = NoNode /\ code' = built.code /\ result' = built.val
      /\ status' = "generating"
  BY DEF HandUp
<1>2. code \in Seq(Instructions) /\ Execution(code, world) \in Behaviours(Len(code))
  BY AtTop
<1>3. Tracks(at, below, world, built.code)
  BY <1>2, StillTracks
<1>4. Goes(at, below, NoNode, built.val, world, built.code)
  BY DEF Goes
<1>5. Tracks(at, stack', world, code') /\ Goes(at, stack', entered', result', world, code')
  BY <1>1, <1>3, <1>4
<1>6. Execution(code', world) \in Behaviours(Len(code'))
  BY <1>1
<1> QED BY <1>1, <1>5, <1>6 DEF MeaningInv

\* The handler on top hands up what its node means.
LEMMA EndMeans ==
  ASSUME NEW world \in Worlds, MeaningInv(world), status = "generating", IInv(Trees[MaxHeight])',
         NEW at, Tracks(at, stack, world, code), Len(stack) > 1,
         NEW built, HandUp(Below, built),
         Execution(built.code, world) \in Behaviours(Len(built.code)),
         Keeps(Execution(code, world), Execution(built.code, world)),
         NEW p, p = at[Len(stack)],
         NEW m, m = Meaning(Top.node, p.seen, Evaluation(world, p.h), world),
         Shows(Execution(built.code, world).seen, m.seen),
         m.val \subseteq Val(built.val, built.code, world)
  PROVE  MeaningInv(world)'
<1> DEFINE k == Len(stack)
           a == SubSeq(at, 1, k - 1)
           g == stack[k - 1]
           q == at[k - 1]
<1>1. /\ StackTyped(Trees[MaxHeight], stack, code) /\ code \in Seq(Instructions)
      /\ k \in Nat /\ k \in 2..Len(stack) /\ stack \in Seq(Frames(Trees[MaxHeight]))
  BY AtTop DEF StackTyped
<1>2. at \in Seq(Places) /\ Len(at) = k
  BY DEF Tracks
<1>3. Tracks(a, Below, world, code)
  BY <1>1, TracksBelow DEF Below
<1>4. /\ k - 1 \in 1..k /\ q.h \in 1..MaxHeight /\ q \in Places
      /\ Top.node.tok \notin StatementTokens
  BY <1>1, CallerKnown DEF Top
<1>5. StackTyped(Trees[MaxHeight], Below, code)
  BY <1>1, <1>4, StackPopped DEF Below, Top
<1>6. Len(Below) = k - 1 /\ Below[k - 1] = g
  <2>1. Len(Below) = k - 1 /\ \A i \in 1..(k - 1) : Below[i] = stack[i]
    BY <1>1, Front DEF Below
  <2>2. k - 1 \in 1..(k - 1)
    BY <1>1
  <2> QED BY <2>1, <2>2
<1>7. a[k - 1] = q
  <2>1. \A i \in 1..(k - 1) : a[i] = at[i]
    BY <1>1, <1>2, Front
  <2>2. k - 1 \in 1..(k - 1)
    BY <1>1
  <2> QED BY <2>1, <2>2
<1>8. Called(g, q, Top, p, world)
  BY <1>1 DEF Tracks, Top
<1>9. FrameTyped(g, code) /\ FrameMeans(g, q, world, code)
  BY <1>1, <1>4 DEF StackTyped, Tracks
<1>10. Answer(g, q, world) = Meaning(Awaited(g), Reached(g, q, world).seen, Evaluation(world, q.h - 1), world)
  BY <1>9, AnswerMeans
<1>11. q.h - 1 = p.h
  <2>1. at[k] \in Places
    BY <1>1, <1>2
  <2>2. p.h \in Nat /\ q.h = p.h + 1
    BY <1>8, <2>1, HeightAssumption DEF Called, Places
  <2> QED BY <2>2
<1>12. m = Answer(g, q, world)
  BY <1>8, <1>10, <1>11 DEF Called
<1> HIDE DEF a, g, q, k
<1>13. m = Answer(Below[Len(Below)], a[Len(Below)], world)
  BY <1>6, <1>7, <1>12
<1> QED BY <1>3, <1>5, <1>13, HandUpMeans

\* What a handler has when it is handed a value.
LEMMA Given ==
  ASSUME NEW world \in Worlds, MeaningInv(world), HandedUp
  PROVE  \E at : LET p == at[Len(stack)]
                     n == Len(Top.vals)
                     next == Children(Top.node, p.seen, Evaluation(world, p.h), n + 1)
                 IN  /\ Tracks(at, stack, world, code) /\ FrameMeans(Top, p, world, code)
                     /\ n \in Nat /\ n + 1 \in 1..Kids(Top.node) /\ next \in Some(n + 1)
                     /\ Shows(Execution(code, world).seen, next.seen)
                     /\ \A i \in 1..n : \A a \in next.vals[i] :
                          Held(Top.node, a) \in Val(Top.vals[i], code, world)
                     /\ next.vals[n + 1] \subseteq Val(result, code, world)
<1>1. status = "generating" /\ entered = NoNode
  BY DEF HandedUp
<1>2. PICK at : /\ Tracks(at, stack, world, code) /\ Goes(at, stack, entered, result, world, code)
                /\ FrameMeans(Top, at[Len(stack)], world, code)
  BY <1>1, AtTop
<1> DEFINE p == at[Len(stack)]
           n == Len(Top.vals)
           next == Children(Top.node, p.seen, Evaluation(world, p.h), n + 1)
           m == Answer(Top, p, world)
           s == Reached(Top, p, world)
<1>3. FrameTyped(Top, code)
  BY <1>1, AtTop
<1>4. /\ n \in Nat /\ n + 1 \in 1..Kids(Top.node) /\ next \in Some(n + 1)
      /\ next.seen = m.seen /\ next.vals[n + 1] = m.val
      /\ \A i \in 1..n : next.vals[i] = s.vals[i]
  BY <1>2, <1>3, NextReached
<1>5. Shows(Execution(code, world).seen, m.seen) /\ m.val \subseteq Val(result, code, world)
  BY <1>1, <1>2 DEF Goes, Top
<1>6. \A i \in 1..n : \A a \in s.vals[i] : Held(Top.node, a) \in Val(Top.vals[i], code, world)
  BY <1>2 DEF FrameMeans
<1> HIDE DEF next, m, s, p, n
<1>7. /\ Shows(Execution(code, world).seen, next.seen)
      /\ \A i \in 1..n : \A a \in next.vals[i] : Held(Top.node, a) \in Val(Top.vals[i], code, world)
      /\ next.vals[n + 1] \subseteq Val(result, code, world)
  BY <1>4, <1>5, <1>6
<1> QED BY <1>2, <1>4, <1>7 DEF next, p, n

\* A handler goes on with what it was handed.
LEMMA GoesOn ==
  ASSUME NEW world \in Worlds, MeaningInv(world), HandedUp, IInv(Trees[MaxHeight])',
         NEW at, Tracks(at, stack, world, code), NEW p, p = at[Len(stack)],
         FrameMeans(Top, p, world, code),
         NEW next, next = Children(Top.node, p.seen, Evaluation(world, p.h), Len(Top.vals) + 1),
         Shows(Execution(code, world).seen, next.seen),
         NEW f, f.node = Top.node, Len(f.vals) = Len(Top.vals) + 1, FrameTyped(f, code'),
         Call(Below, f), Extends(code, code'), Continues(code, code', world),
         \A i \in 1..Len(f.vals) : \A a \in next.vals[i] :
           Held(f.node, a) \in Val(f.vals[i], code', world)
  PROVE  MeaningInv(world)'
<1>1. status = "generating" /\ entered = NoNode
  BY DEF HandedUp
<1>2. /\ stack' = Append(Below, f) /\ entered' = Awaited(f) /\ result' = result
      /\ status' = "generating"
  BY <1>1 DEF Call, Awaited
<1>3. /\ StackTyped(Trees[MaxHeight], stack, code) /\ code \in Seq(Instructions)
      /\ Execution(code, world) \in Behaviours(Len(code)) /\ Len(stack) \in Nat /\ Len(stack) > 0
      /\ stack \in Seq(Frames(Trees[MaxHeight]))
  BY <1>1, AtTop DEF StackTyped
<1>4. code' \in Seq(Instructions)
  BY DEF IInv, CodeTyped
<1>5. StackTyped(Trees[MaxHeight], stack, code')
  BY <1>3, <1>4, StackStillTyped
<1>6. Tracks(at, stack, world, code')
  BY <1>3, StillTracks DEF Continues
<1>7. FrameMeans(f, p, world, code')
  BY DEF FrameMeans, Reached
<1>8. Tracks(at, Append(Below, f), world, code')
  BY <1>5, <1>6, <1>7, TracksReplaced DEF Below, Top
<1>9. Len(Append(Below, f)) = Len(stack) /\ Append(Below, f)[Len(stack)] = f
  <2>1. Below \in Seq(Frames(Trees[MaxHeight])) /\ Len(Below) = Len(stack) - 1
    BY <1>3, Front DEF Below
  <2>2. Len(stack) - 1 + 1 = Len(stack)
    BY <1>3
  <2> QED BY <2>1, <2>2
<1>10. Awaited(f) # NoNode
  <2>1. IsExpression(Awaited(f))
    BY <1>7, AnswerMeans
  <2>2. ~IsExpression(NoNode)
    BY DEF NoNode, Tree, IsExpression, IsBinary, IsUnary, Logical, Relational, Additive,
      Multiplicative, UnaryOperators
  <2> QED BY <2>1, <2>2
<1>11. Shows(Execution(code', world).seen, Reached(f, p, world).seen)
  BY DEF Continues, Reached
<1>12. Goes(at, stack', entered', result', world, code')
  BY <1>2, <1>9, <1>10, <1>11 DEF Goes
<1>13. Execution(code', world) \in Behaviours(Len(code'))
  BY DEF Continues
<1>14. Tracks(at, stack', world, code')
  BY <1>2, <1>8
<1> QED BY <1>2, <1>12, <1>13, <1>14 DEF MeaningInv

\* The statement ends.
LEMMA FinishMeans ==
  ASSUME NEW world \in Worlds, MeaningInv(world), HandedUp, IInv(Trees[MaxHeight])',
         NEW at, Tracks(at, stack, world, code), NEW p, p = at[Len(stack)],
         Top.node.tok \in StatementTokens, NEW built, Finish(built),
         Execution(built.code, world) \in Behaviours(Len(built.code)),
         NEW m, m = Meaning(Top.node, p.seen, Evaluation(world, p.h), world),
         Shows(Execution(Needed(Top.node, built.code), world).seen, m.seen)
  PROVE  MeaningInv(world)'
<1>1. status = "generating"
  BY DEF HandedUp
<1>2. stack' = stack /\ code' = built.code /\ status' = "done"
  BY DEF Finish
<1>3. StackTyped(Trees[MaxHeight], stack, code) /\ Len(stack) \in Nat /\ Len(stack) > 0
  BY <1>1, AtTop
<1>4. Len(stack) = 1
  <2>1. ASSUME Len(stack) > 1 PROVE FALSE
    <3>1. Len(stack) \in 2..Len(stack)
      BY <1>3, <2>1
    <3> QED BY <1>3, <3>1, CallerKnown DEF Top
  <2>2. PICK k \in Nat : k = Len(stack) /\ k > 0 /\ ~(k > 1)
    BY <1>3, <2>1
  <2>3. k = 1
    BY <2>2
  <2> QED BY <2>2, <2>3
<1>5. p.h = MaxHeight /\ p.seen = << >> /\ Top = stack[1]
  BY <1>4 DEF Tracks, Top
<1>6. m.seen = SourceEffects(stack[1].node, world)
  BY <1>5 DEF SourceEffects
<1>7. Shows(Execution(Needed(stack'[1].node, code'), world).seen, SourceEffects(stack'[1].node, world))
  BY <1>2, <1>5, <1>6
<1>8. Execution(code', world) \in Behaviours(Len(code'))
  BY <1>2
<1> QED BY <1>2, <1>7, <1>8 DEF MeaningInv

-----------------------------------------------------------------------------
(* Effects *)

\* Purposes but for none.
LEMMA NamesAreEffects == \A name \in Identifiers : name \in Purposes /\ name # NoEffect
BY DEF Identifiers, Purposes

\* An instruction with an effect does what the source does.
LEMMA EffectMeans ==
  ASSUME NEW world \in Worlds, NEW c, CodeTyped(c), Execution(c, world) \in Behaviours(Len(c)),
         NEW op \in Others, NEW ty \in Types, NEW args \in Seq(Values),
         \A j \in 1..Len(args) : Defined(args[j], c),
         NEW for \in Purposes, for # NoEffect,
         NEW vals \in Seq(SUBSET Int), Len(vals) = Len(args), NEW seen \in Seen,
         \A j \in 1..Len(args) : vals[j] \subseteq Val(args[j], c, world),
         Shows(Execution(c, world).seen, seen)
  PROVE  LET d == Append(c, Instr(op, ty, args, for))
         IN  /\ Execution(d, world) \in Behaviours(Len(d))
             /\ Keeps(Execution(c, world), Execution(d, world))
             /\ Shows(Execution(d, world).seen, Append(seen, Observed(for, vals)))
             /\ ty = "i64" => Val(Reg(ty, Len(c) + 1), d, world) = Yield(world, seen)
<1> DEFINE d == Append(c, Instr(op, ty, args, for))
           i == Instr(op, ty, args, for)
           e == Execution(c, world)
           f == Execution(d, world)
           o == Observed(for, Arguments(i, e.vals))
           q == Observed(for, vals)
<1>1. i \in Instructions /\ i.args = args /\ i.for = for /\ i.ty = ty
  BY DEF Instr, Instructions
<1>2. c \in Seq(Instructions) /\ Len(c) \in Nat
  BY DEF CodeTyped
<1> HIDE DEF i, e, f
<1>3. \A j \in 1..Len(i.args) : Defined(i.args[j], c)
  BY <1>1
<1>4. /\ f \in Behaviours(Len(c) + 1) /\ Keeps(e, f)
      /\ f.seen = Append(e.seen, Observed(i.for, Arguments(i, e.vals)))
      /\ i.ty = "i64" => \A t : ValueOf(Reg(t, Len(c) + 1), f.vals) = Yield(world, e.seen)
  BY <1>1, <1>2, <1>3, ExecuteEffect DEF e, f, i
<1>5. Len(d) = Len(c) + 1
  BY <1>1, <1>2 DEF i
<1>6. Arguments(i, e.vals) \in Seq(SUBSET Numbers) /\ Len(Arguments(i, e.vals)) = Len(args)
  BY <1>1, <1>2, <1>3, ArgumentsTyped DEF e
<1>7. \A j \in 1..Len(vals) : vals[j] \subseteq Arguments(i, e.vals)[j]
  BY <1>1 DEF Arguments, Val, e
<1>8. o \in [for : Purposes, args : Seq(SUBSET Numbers)] /\ o.for = for /\ o.args = Arguments(i, e.vals)
  BY <1>6 DEF Observed
<1>9. q \in [for : Purposes, args : Seq(SUBSET Int)] /\ q.for = for /\ q.args = vals
  BY DEF Observed
<1> HIDE DEF o, q
<1>10. e.seen \in Seq([for : Purposes, args : Seq(SUBSET Numbers)])
  BY DEF e, Behaviours
<1>11. seen \in Seq([for : Purposes, args : Seq(SUBSET Int)]) /\ Shows(e.seen, seen)
  BY DEF Seen, e
<1>12. Len(o.args) = Len(q.args) /\ \A j \in 1..Len(q.args) : q.args[j] \subseteq o.args[j]
  BY <1>6, <1>7, <1>8, <1>9
<1>13. Shows(Append(e.seen, o), Append(seen, q))
  BY <1>8, <1>9, <1>10, <1>11, <1>12, ShowsMore
<1>14. f.seen = Append(e.seen, o)
  BY <1>1, <1>4 DEF o
<1>15. Yield(world, e.seen) = Yield(world, seen)
  <2>1. Len(e.seen) = Len(seen)
    BY <1>11 DEF Shows
  <2> QED BY <2>1 DEF Yield
<1>16. ty = "i64" => Val(Reg(ty, Len(c) + 1), d, world) = Yield(world, seen)
  BY <1>1, <1>4, <1>15 DEF Val, f
<1>17. Shows(f.seen, Append(seen, q))
  BY <1>13, <1>14
<1> HIDE DEF d
<1>18. /\ f \in Behaviours(Len(d)) /\ Keeps(e, f) /\ Shows(f.seen, Append(seen, q))
       /\ ty = "i64" => Val(Reg(ty, Len(c) + 1), d, world) = Yield(world, seen)
  BY <1>4, <1>5, <1>16, <1>17
<1> QED BY <1>18 DEF d, e, f, q

\* A number of a width is not cut to it.
LEMMA NothingCut ==
  ASSUME NEW limit \in Nat \ {0}, NEW n \in Int, -limit <= n, n < limit
  PROVE  Signed(n, limit) = n
<1>1. n + limit \in 0..(2 * limit - 1)
  BY SMT
<1>2. \A k \in 0..(2 * limit - 1) : (k % (2 * limit)) = k
  BY SMT
<1>3. ((n + limit) % (2 * limit)) = n + limit
  BY <1>1, <1>2
<1> QED BY <1>3, SMT DEF Signed

-----------------------------------------------------------------------------
(* Handlers that are entered *)

\* What a handler is to answer that is called.
Due(at, seen, kid, world) ==
  /\ Tracks(at, stack, world, code) /\ FrameMeans(Top, at[Len(stack)], world, code)
  /\ at[Len(stack)].h \in 1..MaxHeight /\ entered = Awaited(Top)
  /\ seen = Reached(Top, at[Len(stack)], world).seen /\ seen \in Seen
  /\ Shows(Execution(code, world).seen, seen)
  /\ kid = Evaluation(world, at[Len(stack)].h - 1)
  /\ Suits(entered, Trees[at[Len(stack)].h - 1]) /\ IsExpression(entered) /\ entered.n \in Nat
  /\ Kids(entered) \in Nat /\ Children(entered, seen, kid, 0) = NoChildren(seen)
  /\ Answer(Top, at[Len(stack)], world) = Meaning(entered, seen, kid, world)

\* It evaluates the source from where its caller has come to.
LEMMA EnteredMeans ==
  ASSUME NEW world \in Worlds, MeaningInv(world), Entering
  PROVE  \E at, seen, kid : Due(at, seen, kid, world)
<1>1. status = "generating" /\ entered # NoNode
  BY DEF Entering
<1>2. PICK at : /\ Tracks(at, stack, world, code) /\ Goes(at, stack, entered, result, world, code)
                /\ FrameMeans(Top, at[Len(stack)], world, code)
  BY <1>1, AtTop
<1>3. FrameTyped(Top, code)
  BY <1>1, AtTop
<1> DEFINE p == at[Len(stack)]
           seen == Reached(Top, p, world).seen
           kid == Evaluation(world, p.h - 1)
<1>4. entered = Awaited(Top) /\ Shows(Execution(code, world).seen, seen)
  BY <1>1, <1>2 DEF Goes, Top
<1>5. p.h \in 1..MaxHeight
  BY <1>2, <1>3, NextReached
<1>6. /\ Suits(entered, Trees[p.h - 1]) /\ IsExpression(entered) /\ entered.n \in Nat
      /\ Answer(Top, p, world) = Meaning(entered, seen, kid, world) /\ seen \in Seen
  BY <1>2, <1>3, <1>4, AnswerMeans
<1>7. Kids(entered) \in Nat
  BY <1>6 DEF Suits, Kids
<1>8. Children(entered, seen, kid, 0) = NoChildren(seen)
  BY <1>7, ChildrenMean
<1> HIDE DEF seen, kid
<1>9. Due(at, seen, kid, world)
  BY <1>2, <1>4, <1>5, <1>6, <1>7, <1>8 DEF Due, seen, kid
<1> QED BY <1>9

\* A node without children hands up what it means.
LEMMA LeafMeans ==
  ASSUME NEW world \in Worlds, MeaningInv(world), Entering, IInv(Trees[MaxHeight])',
         NEW at, NEW seen, NEW kid, Due(at, seen, kid, world),
         NEW built, HandUp(stack, built),
         Execution(built.code, world) \in Behaviours(Len(built.code)),
         Keeps(Execution(code, world), Execution(built.code, world)),
         NEW m, m = Meaning(entered, seen, kid, world),
         Shows(Execution(built.code, world).seen, m.seen),
         m.val \subseteq Val(built.val, built.code, world)
  PROVE  MeaningInv(world)'
<1>1. status = "generating" /\ StackTyped(Trees[MaxHeight], stack, code)
  BY AtTop DEF Entering
<1>2. Tracks(at, stack, world, code) /\ m = Answer(stack[Len(stack)], at[Len(stack)], world)
  BY DEF Due, Top
<1> QED BY <1>1, <1>2, HandUpMeans

\* A literal hands up its number.
LEMMA NumberMeans ==
  ASSUME NEW world \in Worlds, MeaningInv(world), Number, IInv(Trees[MaxHeight])'
  PROVE  MeaningInv(world)'
<1>1. Entering /\ entered.tok = "number"
  BY DEF Number
<1>2. PICK at, seen, kid : Due(at, seen, kid, world)
  BY <1>1, EnteredMeans
<1> DEFINE m == Meaning(entered, seen, kid, world)
           built == [code |-> code, val |-> Const("i64", NumberNode(entered.n))]
<1>3. /\ IsExpression(entered) /\ entered.n \in Nat /\ Kids(entered) = 0
      /\ Children(entered, seen, kid, Kids(entered)) = [vals |-> << >>, seen |-> seen]
      /\ Shows(Execution(code, world).seen, seen)
  BY <1>1, <1>2 DEF Due, NoChildren, IsExpression, IsBinary, IsUnary, Logical, Relational, Additive,
    Multiplicative, UnaryOperators
<1>4. m = [val |-> IF entered.n < IntLimit THEN {entered.n} ELSE Undetermined, seen |-> seen]
  <2> DEFINE kids == Children(entered, seen, kid, Kids(entered))
  <2>1. kids.seen = seen /\ Arms(entered, kids, world, m)
    BY <1>3, MeaningIs
  <2> HIDE DEF kids, m
  <2> QED BY <1>1, <2>1 DEF Arms
<1>5. m.seen = seen
  BY <1>4
<1>6. m.val \subseteq Val(built.val, built.code, world)
  <2>1. CASE entered.n < IntLimit
    <3>1. -IntLimit <= entered.n /\ IntLimit \in Nat \ {0}
      BY <1>3, LimitsAssumption, SMT
    <3>2. NumberNode(entered.n) = entered.n
      BY <1>3, <2>1, <3>1, NothingCut DEF NumberNode
    <3>3. Val(Const("i64", entered.n), code, world) = {entered.n}
      BY DEF Val, ValueOf, Const
    <3>4. built.val = Const("i64", entered.n) /\ built.code = code
      BY <3>2
    <3> HIDE DEF built
    <3>5. m.val = {entered.n}
      BY <1>4, <2>1
    <3> QED BY <3>3, <3>4, <3>5
  <2>2. CASE ~(entered.n < IntLimit)
    <3>1. m.val = {}
      BY <1>4, <2>2 DEF Undetermined
    <3> HIDE DEF m, built
    <3> QED BY <3>1
  <2> QED BY <2>1, <2>2
<1>7. Execution(code, world) \in Behaviours(Len(code)) /\ Len(code) \in Nat
  BY <1>1, AtTop DEF Entering
<1>8. built.code = code /\ HandUp(stack, built)
  BY DEF Number
<1>9. Keeps(Execution(code, world), Execution(code, world))
  BY <1>7, KeepsItself
<1> HIDE DEF m, built
<1>10. m = Meaning(entered, seen, kid, world)
  BY DEF m
<1> QED BY <1>1, <1>2, <1>3, <1>5, <1>6, <1>7, <1>8, <1>9, <1>10, LeafMeans

\* An effect, with what it yields.
LEMMA EffectAnswers ==
  ASSUME NEW world \in Worlds, CodeTyped(code), Execution(code, world) \in Behaviours(Len(code)),
         NEW op \in Others, NEW ty \in Types, NEW args \in Seq(Values),
         \A j \in 1..Len(args) : Defined(args[j], code),
         NEW for \in Purposes, for # NoEffect,
         NEW vals \in Seq(SUBSET Int), Len(vals) = Len(args), NEW seen \in Seen,
         \A j \in 1..Len(args) : vals[j] \subseteq Val(args[j], code, world),
         Shows(Execution(code, world).seen, seen)
  PROVE  LET built == Effect(op, ty, args, for)
         IN  /\ Execution(built.code, world) \in Behaviours(Len(built.code))
             /\ Keeps(Execution(code, world), Execution(built.code, world))
             /\ Shows(Execution(built.code, world).seen, Append(seen, Observed(for, vals)))
             /\ ty = "i64" => Val(built.val, built.code, world) = Yield(world, seen)
<1> DEFINE d == Append(code, Instr(op, ty, args, for))
           built == Effect(op, ty, args, for)
<1>1. built.code = d /\ built.val = Reg(ty, Len(code) + 1)
  BY DEF Effect
<1>3. /\ Execution(d, world) \in Behaviours(Len(d))
      /\ Keeps(Execution(code, world), Execution(d, world))
      /\ Shows(Execution(d, world).seen, Append(seen, Observed(for, vals)))
      /\ ty = "i64" => Val(Reg(ty, Len(code) + 1), d, world) = Yield(world, seen)
  BY EffectMeans
<1> HIDE DEF built, d
<1> QED BY <1>1, <1>3 DEF built

\* One without operands.
LEMMA ReadAnswers ==
  ASSUME NEW world \in Worlds, CodeTyped(code), Execution(code, world) \in Behaviours(Len(code)),
         NEW op \in Others, NEW ty \in Types, NEW for \in Purposes, for # NoEffect,
         NEW seen \in Seen, Shows(Execution(code, world).seen, seen)
  PROVE  LET built == Effect(op, ty, << >>, for)
         IN  /\ Execution(built.code, world) \in Behaviours(Len(built.code))
             /\ Keeps(Execution(code, world), Execution(built.code, world))
             /\ Shows(Execution(built.code, world).seen, Append(seen, Observed(for, << >>)))
             /\ ty = "i64" => Val(built.val, built.code, world) = Yield(world, seen)
<1>1. \E none : none \in Seq(Values) /\ none \in Seq(SUBSET Int) /\ none = << >>
  <2>1. << >> \in Seq(Values) /\ << >> \in Seq(SUBSET Int)
    OBVIOUS
  <2> QED BY <2>1, Zenon
<1>2. PICK none : none \in Seq(Values) /\ none \in Seq(SUBSET Int) /\ none = << >>
  BY <1>1
<1>3. \A j \in 1..Len(none) : FALSE
  BY <1>2
<1>4. none \in Seq(Values) /\ none \in Seq(SUBSET Int)
  BY <1>2
<1>5. LET built == Effect(op, ty, none, for)
      IN  /\ Execution(built.code, world) \in Behaviours(Len(built.code))
          /\ Keeps(Execution(code, world), Execution(built.code, world))
          /\ Shows(Execution(built.code, world).seen, Append(seen, Observed(for, none)))
          /\ ty = "i64" => Val(built.val, built.code, world) = Yield(world, seen)
  BY <1>3, <1>4, EffectAnswers
<1> QED BY <1>2, <1>5

\* A variable is loaded.
LEMMA LoadMeans ==
  ASSUME NEW world \in Worlds, MeaningInv(world), Load, IInv(Trees[MaxHeight])'
  PROVE  MeaningInv(world)'
<1>1. Entering /\ entered.tok = "ident" /\ Kids(entered) = 0
  BY DEF Load
<1>2. PICK at, seen, kid : Due(at, seen, kid, world)
  BY <1>1, EnteredMeans
<1> DEFINE m == Meaning(entered, seen, kid, world)
           kids == Children(entered, seen, kid, Kids(entered))
           ty == ValueType(entered.name)
           built == Effect("load", ty, << >>, entered.name)
           val == IF entered.name \notin Arrays THEN Yield(world, seen) ELSE Undetermined
<1>3. /\ IsExpression(entered) /\ entered.name \in Identifiers /\ seen \in Seen
      /\ kids.vals = << >> /\ kids.seen = seen /\ Shows(Execution(code, world).seen, seen)
  BY <1>1, <1>2 DEF Due, NoChildren, Suits
<1>4. m.val = val /\ m.seen = Append(seen, Observed(entered.name, << >>))
  <2>1. Arms(entered, kids, world, m)
    BY <1>3, MeaningIs
  <2> HIDE DEF kids, m
  <2>2. m = [val |-> IF IsKnown(entered) THEN Yield(world, kids.seen) ELSE Undetermined,
             seen |-> Append(kids.seen, Observed(entered.name, kids.vals))]
    BY <1>1, <2>1 DEF Arms
  <2>3. IsKnown(entered) <=> entered.name \notin Arrays
    BY <1>1 DEF IsKnown
  <2> QED BY <1>3, <2>2, <2>3
<1>5. /\ "load" \in Others /\ ty \in Types /\ entered.name \in Purposes /\ entered.name # NoEffect
      /\ val = Undetermined \/ (ty = "i64" /\ val = Yield(world, seen))
  BY <1>3, NamesAreEffects DEF Others, ValueType, Types
<1>6. CodeTyped(code) /\ Execution(code, world) \in Behaviours(Len(code))
  BY <1>1, AtTop DEF Entering
<1>7. HandUp(stack, built)
  BY DEF Load
<1> HIDE DEF m, ty, val, kids
<1>8. /\ Execution(built.code, world) \in Behaviours(Len(built.code))
      /\ Keeps(Execution(code, world), Execution(built.code, world))
      /\ Shows(Execution(built.code, world).seen, Append(seen, Observed(entered.name, << >>)))
      /\ ty = "i64" => Val(built.val, built.code, world) = Yield(world, seen)
  BY <1>3, <1>5, <1>6, ReadAnswers
<1> HIDE DEF built
<1>9. Shows(Execution(built.code, world).seen, m.seen) /\ m.val \subseteq Val(built.val, built.code, world)
  BY <1>4, <1>5, <1>8 DEF Undetermined
<1>10. m = Meaning(entered, seen, kid, world)
  BY DEF m
<1> QED BY <1>1, <1>2, <1>7, <1>8, <1>9, <1>10, LeafMeans

\* A function without parameters is called.
LEMMA CallNoArgumentsMeans ==
  ASSUME NEW world \in Worlds, MeaningInv(world), CallNoArguments, IInv(Trees[MaxHeight])'
  PROVE  MeaningInv(world)'
<1>1. Entering /\ entered.tok = "call" /\ Kids(entered) = 0
  BY DEF CallNoArguments
<1>2. PICK at, seen, kid : Due(at, seen, kid, world)
  BY <1>1, EnteredMeans
<1> DEFINE m == Meaning(entered, seen, kid, world)
           kids == Children(entered, seen, kid, Kids(entered))
           ty == ReturnType(entered.name)
           built == Effect("call", ty, << >>, entered.name)
           val == IF entered.name \notin VoidFunctions THEN Yield(world, seen) ELSE Undetermined
<1>3. /\ IsExpression(entered) /\ entered.name \in Identifiers /\ seen \in Seen
      /\ kids.vals = << >> /\ kids.seen = seen /\ Shows(Execution(code, world).seen, seen)
  BY <1>1, <1>2 DEF Due, NoChildren, Suits
<1>4. m.val = val /\ m.seen = Append(seen, Observed(entered.name, << >>))
  <2>1. Arms(entered, kids, world, m)
    BY <1>3, MeaningIs
  <2> HIDE DEF kids, m
  <2>2. m = [val |-> IF entered.name \notin VoidFunctions THEN Yield(world, kids.seen)
                    ELSE Undetermined,
             seen |-> Append(kids.seen, Observed(entered.name, kids.vals))]
    BY <1>1, <2>1 DEF Arms
  <2> QED BY <1>1, <1>3, <2>2
<1>5. /\ "call" \in Others /\ ty \in Types /\ entered.name \in Purposes /\ entered.name # NoEffect
      /\ val = Undetermined \/ (ty = "i64" /\ val = Yield(world, seen))
  BY <1>3, NamesAreEffects DEF Others, ReturnType, Types
<1>6. CodeTyped(code) /\ Execution(code, world) \in Behaviours(Len(code))
  BY <1>1, AtTop DEF Entering
<1>7. HandUp(stack, built)
  BY DEF CallNoArguments
<1> HIDE DEF m, ty, val, kids
<1>8. /\ Execution(built.code, world) \in Behaviours(Len(built.code))
      /\ Keeps(Execution(code, world), Execution(built.code, world))
      /\ Shows(Execution(built.code, world).seen, Append(seen, Observed(entered.name, << >>)))
      /\ ty = "i64" => Val(built.val, built.code, world) = Yield(world, seen)
  BY <1>3, <1>5, <1>6, ReadAnswers
<1> HIDE DEF built
<1>9. Shows(Execution(built.code, world).seen, m.seen) /\ m.val \subseteq Val(built.val, built.code, world)
  BY <1>4, <1>5, <1>8 DEF Undetermined
<1>10. m = Meaning(entered, seen, kid, world)
  BY DEF m
<1> QED BY <1>1, <1>2, <1>7, <1>8, <1>9, <1>10, LeafMeans

\* A handler calls that of its first child.
LEMMA BeginMeans ==
  ASSUME NEW world \in Worlds, MeaningInv(world), Begin, IInv(Trees[MaxHeight])'
  PROVE  MeaningInv(world)'
<1>1. Entering /\ Kids(entered) > 0 /\ status = "generating"
  BY DEF Begin, Entering
<1>2. PICK at, seen, kid : Due(at, seen, kid, world)
  BY <1>1, EnteredMeans
<1> DEFINE k == Len(stack)
           p == at[k]
           q == [h |-> p.h - 1, seen |-> seen]
           f == Frame(entered, << >>)
           b == Append(at, q)
<1>3. /\ stack' = Append(stack, f) /\ entered' = Awaited(f) /\ result' = result
      /\ status' = status /\ code' = code
  BY DEF Begin, Call, Awaited
<1>4. /\ StackTyped(Trees[MaxHeight], stack, code) /\ k \in Nat
      /\ Execution(code, world) \in Behaviours(Len(code))
  BY <1>1, AtTop
<1>5. f.node = entered /\ f.vals = << >> /\ Len(f.vals) = 0 /\ q.seen = seen /\ q.h = p.h - 1
  BY DEF Frame
<1>6. p.h \in 1..MaxHeight /\ p.h \in Nat /\ q.h \in 0..MaxHeight /\ p.h = q.h + 1 /\ seen \in Seen
  BY <1>2, <1>5, HeightAssumption DEF Due
<1>7. q \in Places
  BY <1>6 DEF Places
<1>8. Reached(f, q, world) = NoChildren(seen)
  BY <1>2, <1>5 DEF Due, Reached
<1>9. FrameMeans(f, q, world, code)
  BY <1>2, <1>5, <1>7 DEF Due, FrameMeans
<1>10. Called(stack[k], p, f, q, world)
  BY <1>2, <1>5, <1>6 DEF Due, Called, Top
<1>11. Tracks(at, stack, world, code)
  BY <1>2 DEF Due
<1> HIDE DEF q, f, p
<1>12. Tracks(b, stack', world, code)
  BY <1>3, <1>4, <1>7, <1>9, <1>10, <1>11, TracksCalled DEF p
<1>13. Len(stack') = k + 1 /\ stack'[k + 1] = f /\ b[k + 1] = q
  BY <1>3, <1>4, <1>11 DEF StackTyped, Tracks
<1>14. Awaited(f) # NoNode
  <2>1. FrameTyped(f, code)
    <3>1. StackTyped(Trees[MaxHeight], stack', code')
      BY DEF IInv
    <3>2. k + 1 \in 1..Len(stack')
      BY <1>4, <1>13
    <3> QED BY <1>3, <1>13, <3>1, <3>2 DEF StackTyped
  <2>2. IsExpression(Awaited(f))
    BY <1>9, <2>1, AnswerMeans
  <2>3. ~IsExpression(NoNode)
    BY DEF NoNode, Tree, IsExpression, IsBinary, IsUnary, Logical, Relational, Additive,
      Multiplicative, UnaryOperators
  <2> QED BY <2>2, <2>3
<1>15. Shows(Execution(code, world).seen, Reached(f, q, world).seen)
  BY <1>2, <1>8 DEF Due, NoChildren
<1> HIDE DEF b
<1>16. Goes(b, stack', entered', result', world, code')
  BY <1>3, <1>13, <1>14, <1>15 DEF Goes
<1>17. Tracks(b, stack', world, code')
  BY <1>3, <1>12
<1> QED BY <1>1, <1>3, <1>4, <1>16, <1>17 DEF MeaningInv

-----------------------------------------------------------------------------
(* Handlers that are handed a value *)

\* What a handler has when it has all it waits for.
Complete(at, kids, world) ==
  /\ Tracks(at, stack, world, code) /\ FrameMeans(Top, at[Len(stack)], world, code)
  /\ Suits(Top.node, Trees[at[Len(stack)].h])
  /\ Kids(Top.node) \in Nat /\ Len(Top.vals) \in Nat /\ Kids(Top.node) = Len(Top.vals) + 1
  /\ kids = Children(Top.node, at[Len(stack)].seen, Evaluation(world, at[Len(stack)].h), Kids(Top.node))
  /\ kids \in Some(Kids(Top.node))
  /\ Shows(Execution(code, world).seen, kids.seen)
  /\ \A i \in 1..Len(Top.vals) : \A a \in kids.vals[i] :
       Held(Top.node, a) \in Val(Top.vals[i], code, world)
  /\ kids.vals[Kids(Top.node)] \subseteq Val(result, code, world)

\* That is what its children mean.
LEMMA Completed ==
  ASSUME NEW world \in Worlds, MeaningInv(world), HandedUp, ~MissesChild
  PROVE  \E at, kids : Complete(at, kids, world)
<1> DEFINE n == Len(Top.vals)
<1>1. PICK at, next :
        /\ next = Children(Top.node, at[Len(stack)].seen, Evaluation(world, at[Len(stack)].h), n + 1)
        /\ Tracks(at, stack, world, code) /\ FrameMeans(Top, at[Len(stack)], world, code)
        /\ n \in Nat /\ n + 1 \in 1..Kids(Top.node) /\ next \in Some(n + 1)
        /\ Shows(Execution(code, world).seen, next.seen)
        /\ \A i \in 1..n : \A a \in next.vals[i] :
             Held(Top.node, a) \in Val(Top.vals[i], code, world)
        /\ next.vals[n + 1] \subseteq Val(result, code, world)
  BY Given
<1>2. FrameTyped(Top, code) /\ result \in Values
  BY AtTop DEF HandedUp, Usable
<1>3. Top.vals \in Seq(Values) /\ Len(Received) = n + 1
  BY <1>2 DEF FrameTyped, Received
<1>4. Suits(Top.node, Trees[at[Len(stack)].h])
  BY <1>1 DEF FrameMeans
<1>5. Kids(Top.node) \in Nat
  BY <1>4 DEF Suits, Kids
<1>6. ~(n + 1 < Kids(Top.node))
  BY <1>3 DEF MissesChild
<1> HIDE DEF n
<1>7. n + 1 = Kids(Top.node)
  BY <1>1, <1>5, <1>6
<1>8. Complete(at, next, world)
  BY <1>1, <1>4, <1>5, <1>7 DEF Complete, n
<1> QED BY <1>8

\* The values a handler that is not && or || received.
LEMMA ReceivedMeans ==
  ASSUME NEW world \in Worlds, MeaningInv(world), HandedUp, NEW vals, Top.node.tok \notin Logical,
         Len(Top.vals) \in Nat,
         \A i \in 1..Len(Top.vals) : \A a \in vals[i] :
           Held(Top.node, a) \in Val(Top.vals[i], code, world),
         vals[Len(Top.vals) + 1] \subseteq Val(result, code, world)
  PROVE  /\ Received \in Seq(Values) /\ Len(Received) = Len(Top.vals) + 1
         /\ \A i \in 1..Len(Received) :
              Defined(Received[i], code) /\ vals[i] \subseteq Val(Received[i], code, world)
<1>1. IInv(Trees[MaxHeight])
  BY DEF MeaningInv
<1>2. /\ Received \in Seq(Values) /\ Len(Received) = Len(Top.vals) + 1
      /\ \A i \in 1..Len(Received) : Usable(Received[i], code)
      /\ Top.vals \in Seq(Values) /\ result \in Values
  BY <1>1, TreesForest, TopTyped
<1>3. /\ Received[Len(Top.vals) + 1] = result
      /\ \A i \in 1..Len(Top.vals) : Received[i] = Top.vals[i]
  BY <1>2 DEF Received
<1>4. ASSUME NEW i \in 1..Len(Received) PROVE vals[i] \subseteq Val(Received[i], code, world)
  <2>1. CASE i = Len(Top.vals) + 1
    BY <1>3, <2>1
  <2>2. CASE i # Len(Top.vals) + 1
    <3>1. i \in 1..Len(Top.vals)
      BY <1>2, <2>2
    <3>2. \A a \in vals[i] : a \in Val(Top.vals[i], code, world)
      BY <3>1 DEF Held
    <3> QED BY <1>3, <3>1, <3>2
  <2> QED BY <2>1, <2>2
<1> QED BY <1>2, <1>4 DEF Usable

\* The left operand is there.
LEMMA AfterLeftMeans ==
  ASSUME NEW world \in Worlds, MeaningInv(world), AfterLeft, IInv(Trees[MaxHeight])'
  PROVE  MeaningInv(world)'
<1>1. HandedUp /\ IsBinary(Top.node) /\ MissesChild
  BY DEF AfterLeft
<1> DEFINE built == IF Top.node.tok \in Logical THEN IntToBoolean(code, result)
                    ELSE [code |-> code, val |-> result]
           f == Frame(Top.node, <<built.val>>)
<1>2. code' = built.code /\ Call(Below, f)
  BY DEF AfterLeft
<1>3. PICK at, next :
        /\ next = Children(Top.node, at[Len(stack)].seen, Evaluation(world, at[Len(stack)].h), Len(Top.vals) + 1)
        /\ Tracks(at, stack, world, code) /\ FrameMeans(Top, at[Len(stack)], world, code)
        /\ Len(Top.vals) \in Nat /\ Len(Top.vals) + 1 \in 1..Kids(Top.node)
        /\ Shows(Execution(code, world).seen, next.seen)
        /\ next.vals[Len(Top.vals) + 1] \subseteq Val(result, code, world)
  BY <1>1, Given
<1>4. /\ IInv(Trees[MaxHeight]) /\ CodeTyped(code) /\ Usable(result, code) /\ result \in Values
      /\ code \in Seq(Instructions) /\ Execution(code, world) \in Behaviours(Len(code))
  BY <1>1, AtTop DEF MeaningInv, HandedUp, Usable
<1>5. Len(Top.vals) = 0
  <2>1. Len(Received) = Len(Top.vals) + 1 /\ Kids(Top.node) = 2
    BY <1>1, <1>4, TreesForest, TopTyped DEF IsBinary
  <2>2. Len(Top.vals) + 1 < 2
    BY <1>1, <2>1 DEF MissesChild
  <2> QED BY <1>3, <2>2
<1>6. /\ Continues(code, built.code, world) /\ Extends(code, built.code) /\ built.val \in Values
      /\ \A a \in Val(result, code, world) :
           Held(Top.node, a) \in Val(built.val, built.code, world)
      /\ IF Top.node.tok \in Logical THEN Condition(built.val, built.code)
         ELSE Usable(built.val, built.code)
  <2>1. CASE Top.node.tok \in Logical
    <3>1. built = IntToBoolean(code, result)
      BY <2>1
    <3> HIDE DEF built
    <3>2. /\ Continues(code, built.code, world)
          /\ \A x \in Val(result, code, world) : Truth(x # 0) \in Val(built.val, built.code, world)
      BY <1>4, <3>1, IntToBooleanComputes
    <3>3. IsBuilt(built, code, "i1")
      BY <1>4, <3>1, IntToBooleanTyped
    <3> QED BY <2>1, <3>2, <3>3 DEF Held, IsBuilt, Condition
  <2>2. CASE Top.node.tok \notin Logical
    <3>1. built.code = code /\ built.val = result
      BY <2>2
    <3> HIDE DEF built
    <3>2. Continues(code, code, world) /\ Extends(code, code)
      BY <1>4, ContinuesItself, Unextended
    <3> QED BY <1>4, <2>2, <3>1, <3>2 DEF Held
  <2> QED BY <2>1, <2>2
<1> HIDE DEF built
<1>7. f.node = Top.node /\ f.vals = <<built.val>> /\ Len(f.vals) = 1 /\ f.vals[1] = built.val
  BY DEF Frame
<1> HIDE DEF f
<1>8. Len(f.vals) = Len(Top.vals) + 1
  BY <1>5, <1>7
<1>9. FrameTyped(f, code')
  <2>1. <<built.val>> \in Seq(Values)
    BY <1>6
  <2>2. Len(f.vals) < Kids(f.node)
    BY <1>1, <1>7 DEF IsBinary
  <2>3. \A i \in 1..Len(f.vals) : f.vals[i] = built.val
    BY <1>7
  <2> QED BY <1>2, <1>6, <1>7, <2>1, <2>2, <2>3 DEF FrameTyped
<1>10. Extends(code, code') /\ Continues(code, code', world)
  BY <1>2, <1>6
<1>11. \A i \in 1..Len(f.vals) : \A a \in next.vals[i] :
         Held(f.node, a) \in Val(f.vals[i], code', world)
  <2>1. next.vals[1] \subseteq Val(result, code, world)
    BY <1>3, <1>5
  <2>2. \A i \in 1..Len(f.vals) : i = 1
    BY <1>7
  <2> QED BY <1>2, <1>6, <1>7, <2>1, <2>2
<1> QED BY <1>1, <1>2, <1>3, <1>7, <1>8, <1>9, <1>10, <1>11, GoesOn

\* An argument, or the value to assign, is there and another child is not.
LEMMA NextChildMeans ==
  ASSUME NEW world \in Worlds, MeaningInv(world), NextChild, IInv(Trees[MaxHeight])'
  PROVE  MeaningInv(world)'
<1>1. HandedUp /\ Top.node.tok \notin Logical /\ MissesChild /\ code' = code
  BY DEF NextChild, Logical
<1> DEFINE f == Frame(Top.node, Received)
<1>2. Call(Below, f)
  BY DEF NextChild
<1>3. PICK at, next :
        /\ next = Children(Top.node, at[Len(stack)].seen, Evaluation(world, at[Len(stack)].h), Len(Top.vals) + 1)
        /\ Tracks(at, stack, world, code) /\ FrameMeans(Top, at[Len(stack)], world, code)
        /\ Len(Top.vals) \in Nat /\ Len(Top.vals) + 1 \in 1..Kids(Top.node)
        /\ Shows(Execution(code, world).seen, next.seen)
        /\ \A i \in 1..Len(Top.vals) : \A a \in next.vals[i] :
             Held(Top.node, a) \in Val(Top.vals[i], code, world)
        /\ next.vals[Len(Top.vals) + 1] \subseteq Val(result, code, world)
  BY <1>1, Given
<1>4. /\ Received \in Seq(Values) /\ Len(Received) = Len(Top.vals) + 1
      /\ \A i \in 1..Len(Received) :
           Defined(Received[i], code) /\ next.vals[i] \subseteq Val(Received[i], code, world)
  BY <1>1, <1>3, ReceivedMeans
<1>5. /\ IInv(Trees[MaxHeight]) /\ code \in Seq(Instructions)
      /\ Execution(code, world) \in Behaviours(Len(code))
  BY <1>1, AtTop DEF MeaningInv, HandedUp
<1>6. f.node = Top.node /\ f.vals = Received
  BY DEF Frame
<1> HIDE DEF f
<1>7. FrameTyped(f, code')
  <2>1. \A i \in 1..Len(Received) : Usable(Received[i], code)
    BY <1>1, <1>5, TreesForest, TopTyped
  <2> QED BY <1>1, <1>4, <1>6, <2>1 DEF FrameTyped, MissesChild
<1>8. Extends(code, code') /\ Continues(code, code', world)
  BY <1>1, <1>5, Unextended, ContinuesItself
<1>9. \A i \in 1..Len(f.vals) : \A a \in next.vals[i] :
        Held(f.node, a) \in Val(f.vals[i], code', world)
  BY <1>1, <1>4, <1>6 DEF Held
<1>10. Len(f.vals) = Len(Top.vals) + 1
  BY <1>4, <1>6
<1> QED BY <1>1, <1>2, <1>3, <1>6, <1>7, <1>8, <1>9, <1>10, GoesOn

-----------------------------------------------------------------------------
(* Handlers that end *)

\* An expression's handler was called by another.
LEMMA NotBottom ==
  ASSUME NEW world \in Worlds, MeaningInv(world), HandedUp, Top.node.tok \notin StatementTokens
  PROVE  Len(stack) > 1
<1>1. StackTyped(Trees[MaxHeight], stack, code) /\ Len(stack) \in Nat /\ Len(stack) > 0
  BY AtTop DEF HandedUp
<1>2. ASSUME Len(stack) = 1 PROVE FALSE
  BY <1>1, <1>2 DEF StackTyped, Top
<1>3. \A k \in Nat : k > 0 /\ k # 1 => k > 1
  OBVIOUS
<1> QED BY <1>1, <1>2, <1>3

\* What an expression's handler hands up.
LEMMA Ends ==
  ASSUME NEW world \in Worlds, MeaningInv(world), HandedUp, IInv(Trees[MaxHeight])',
         NEW at, NEW kids, Complete(at, kids, world), Top.node.tok \notin StatementTokens,
         NEW built, HandUp(Below, built),
         Execution(built.code, world) \in Behaviours(Len(built.code)),
         Keeps(Execution(code, world), Execution(built.code, world)),
         NEW m, m = Meaning(Top.node, at[Len(stack)].seen, Evaluation(world, at[Len(stack)].h), world),
         Shows(Execution(built.code, world).seen, m.seen),
         m.val \subseteq Val(built.val, built.code, world)
  PROVE  MeaningInv(world)'
<1>1. Tracks(at, stack, world, code) /\ Len(stack) > 1 /\ status = "generating"
  BY NotBottom DEF Complete, HandedUp
<1> DEFINE p == at[Len(stack)]
<1>2. m = Meaning(Top.node, p.seen, Evaluation(world, p.h), world) /\ p = at[Len(stack)]
  OBVIOUS
<1> HIDE DEF p
<1> QED BY <1>1, <1>2, EndMeans

\* What the handler's node means, given what its children mean.
LEMMA TopMeans ==
  ASSUME NEW world \in Worlds, NEW at, NEW kids, Complete(at, kids, world),
         IsExpression(Top.node) \/ IsStatement(Top.node)
  PROVE  Arms(Top.node, kids, world,
              Meaning(Top.node, at[Len(stack)].seen, Evaluation(world, at[Len(stack)].h), world))
BY MeaningIs DEF Complete

\* One without an effect of its own.
LEMMA Computes ==
  ASSUME NEW world \in Worlds, MeaningInv(world), HandedUp, IInv(Trees[MaxHeight])',
         NEW at, NEW kids, Complete(at, kids, world), Top.node.tok \notin StatementTokens,
         NEW built, HandUp(Below, built), Continues(code, built.code, world),
         NEW val, val \subseteq Val(built.val, built.code, world),
         Meaning(Top.node, at[Len(stack)].seen, Evaluation(world, at[Len(stack)].h), world)
           = [val |-> val, seen |-> kids.seen]
  PROVE  MeaningInv(world)'
<1> DEFINE m == Meaning(Top.node, at[Len(stack)].seen, Evaluation(world, at[Len(stack)].h), world)
<1>1. m.val = val /\ m.seen = kids.seen
  OBVIOUS
<1> HIDE DEF m
<1>2. Shows(Execution(built.code, world).seen, m.seen) /\ m.val \subseteq Val(built.val, built.code, world)
  BY <1>1 DEF Complete, Continues
<1>3. m = Meaning(Top.node, at[Len(stack)].seen, Evaluation(world, at[Len(stack)].h), world)
  BY DEF m
<1>4. /\ Execution(built.code, world) \in Behaviours(Len(built.code))
      /\ Keeps(Execution(code, world), Execution(built.code, world))
  BY DEF Continues
<1> QED BY <1>2, <1>3, <1>4, Ends

\* What the operands of a binary node are.
LEMMA OperandsMean ==
  ASSUME NEW world \in Worlds, MeaningInv(world), HandedUp, IsBinary(Top.node),
         NEW at, NEW kids, Complete(at, kids, world)
  PROVE  /\ kids.vals[1] \in SUBSET Int /\ kids.vals[2] \in SUBSET Int
         /\ \A a \in kids.vals[1] : Held(Top.node, a) \in Val(Top.vals[1], code, world)
         /\ kids.vals[2] \subseteq Val(result, code, world)
         /\ Meaning(Top.node, at[Len(stack)].seen, Evaluation(world, at[Len(stack)].h), world)
              = [val |-> Lift(Top.node.tok, kids.vals[1], kids.vals[2]), seen |-> kids.seen]
         /\ Top.node.tok \in Binary /\ Top.node.tok \notin StatementTokens
<1>1. Kids(Top.node) = 2 /\ Len(Top.vals) = 1 /\ Top.node.tok \in Binary
  <2>1. Kids(Top.node) = 2 /\ Kids(Top.node) = Len(Top.vals) + 1 /\ Len(Top.vals) \in Nat
    BY DEF Complete, IsBinary
  <2>2. \A k \in Nat : 2 = k + 1 => k = 1
    OBVIOUS
  <2>3. Len(Top.vals) = 1
    BY <2>1, <2>2
  <2> QED BY <2>1, <2>3 DEF IsBinary, Binary
<1>2. kids.vals[1] \in SUBSET Int /\ kids.vals[2] \in SUBSET Int
  <2>1. kids.vals \in Seq(SUBSET Int) /\ Len(kids.vals) = 2
    BY <1>1 DEF Complete, Some
  <2> QED BY <2>1
<1>3. IsExpression(Top.node)
  BY DEF IsExpression
<1>4. Meaning(Top.node, at[Len(stack)].seen, Evaluation(world, at[Len(stack)].h), world)
        = [val |-> Lift(Top.node.tok, kids.vals[1], kids.vals[2]), seen |-> kids.seen]
  BY <1>3, TopMeans DEF Arms
<1>5. /\ \A a \in kids.vals[1] : Held(Top.node, a) \in Val(Top.vals[1], code, world)
      /\ kids.vals[2] \subseteq Val(result, code, world)
  BY <1>1 DEF Complete
<1>6. Top.node.tok \notin StatementTokens
  BY <1>1 DEF Binary, StatementTokens, Logical, Relational, Additive, Multiplicative
<1> QED BY <1>1, <1>2, <1>4, <1>5, <1>6

\* && and || have both operands.
LEMMA AfterRightLogicalMeans ==
  ASSUME NEW world \in Worlds, MeaningInv(world), AfterRightLogical, IInv(Trees[MaxHeight])'
  PROVE  MeaningInv(world)'
<1>1. HandedUp /\ IsBinary(Top.node) /\ ~MissesChild /\ Top.node.tok \in Logical
  BY DEF AfterRightLogical
<1>2. PICK at, kids : Complete(at, kids, world)
  BY <1>1, Completed
<1> DEFINE rv == IntToBoolean(code, result)
           op == Opcode(Top.node.tok)
           l == Top.vals[1]
           built == BooleanToInt(Build(rv.code, op, l, rv.val))
           val == Lift(Top.node.tok, kids.vals[1], kids.vals[2])
<1>3. /\ kids.vals[1] \in SUBSET Int /\ kids.vals[2] \in SUBSET Int
      /\ \A a \in kids.vals[1] : Truth(a # 0) \in Val(l, code, world)
      /\ kids.vals[2] \subseteq Val(result, code, world)
      /\ Meaning(Top.node, at[Len(stack)].seen, Evaluation(world, at[Len(stack)].h), world)
           = [val |-> val, seen |-> kids.seen]
      /\ Top.node.tok \in Binary /\ Top.node.tok \notin StatementTokens
  BY <1>1, <1>2, OperandsMean DEF Held
<1>4. /\ IInv(Trees[MaxHeight]) /\ CodeTyped(code) /\ Usable(result, code)
      /\ code \in Seq(Instructions) /\ Execution(code, world) \in Behaviours(Len(code))
  BY <1>1, AtTop DEF MeaningInv, HandedUp
<1>5. Condition(l, code) /\ HandUp(Below, built)
  BY <1>1, <1>4, TreesForest, LeftTyped DEF AfterRightLogical
<1>6. op \in Connectives /\ OperandType(op) = "i1"
  BY <1>1, OpcodeTyped
<1>7. /\ IsBuilt(rv, code, "i1") /\ Continues(code, rv.code, world)
      /\ \A x \in Val(result, code, world) : Truth(x # 0) \in Val(rv.val, rv.code, world)
  BY <1>4, IntToBooleanTyped, IntToBooleanComputes
<1> HIDE DEF rv
<1>8. /\ CodeTyped(rv.code) /\ Extends(code, rv.code) /\ rv.code \in Seq(Instructions)
      /\ Fits(rv.val, rv.code, op) /\ Execution(rv.code, world) \in Behaviours(Len(rv.code))
      /\ Keeps(Execution(code, world), Execution(rv.code, world))
  BY <1>6, <1>7 DEF IsBuilt, Fits, Condition, CodeTyped, Continues
<1>9. /\ Fits(l, rv.code, op) /\ ~IsNull(l)
      /\ Val(l, rv.code, world) = Val(l, code, world)
  <2>1. Condition(l, rv.code)
    BY <1>4, <1>5, <1>8, StillUsable
  <2>2. Val(l, rv.code, world) = Val(l, code, world)
    BY <1>4, <1>5, <1>8, ValueKept DEF Val, Condition
  <2> QED BY <1>6, <2>1, <2>2, NotNull DEF Fits
<1> HIDE DEF l, op
<1>10. /\ Continues(rv.code, built.code, world)
       /\ \A x \in Val(l, rv.code, world), y \in Val(rv.val, rv.code, world) :
            ~Undefined(op, x, y) => Compute(op, x, y) \in Val(built.val, built.code, world)
  BY <1>6, <1>8, <1>9, BooleanComputes
<1>11. CodeTyped(built.code)
  BY <1>6, <1>8, <1>9, BooleanBuilt
<1> HIDE DEF built
<1>12. Continues(code, built.code, world)
  BY <1>4, <1>7, <1>8, <1>10, <1>11, ContinuesMore DEF CodeTyped
<1>13. ASSUME NEW x \in val PROVE x \in Val(built.val, built.code, world)
  <2>1. PICK a \in kids.vals[1], b \in kids.vals[2] : x \in Means(Top.node.tok, a, b)
    BY <1>3, LiftMeans
  <2>2. a \in Int /\ b \in Int
    BY <1>3
  <2>3. /\ ~Undefined(op, Truth(a # 0), Truth(b # 0))
        /\ x = Compute(op, Truth(a # 0), Truth(b # 0))
    BY <1>1, <2>1, <2>2, LogicalMeans DEF op
  <2>4. Truth(a # 0) \in Val(l, rv.code, world) /\ Truth(b # 0) \in Val(rv.val, rv.code, world)
    BY <1>3, <1>7, <1>9
  <2> QED BY <1>10, <2>3, <2>4
<1> HIDE DEF val
<1>14. val \subseteq Val(built.val, built.code, world)
  BY <1>13
<1> QED BY <1>1, <1>2, <1>3, <1>5, <1>12, <1>14, Computes

\* A comparison has both operands.
LEMMA AfterRightRelationalMeans ==
  ASSUME NEW world \in Worlds, MeaningInv(world), AfterRightRelational, IInv(Trees[MaxHeight])'
  PROVE  MeaningInv(world)'
<1>1. HandedUp /\ IsBinary(Top.node) /\ ~MissesChild /\ Top.node.tok \in Relational
  BY DEF AfterRightRelational
<1>2. PICK at, kids : Complete(at, kids, world)
  BY <1>1, Completed
<1> DEFINE op == Opcode(Top.node.tok)
           l == Top.vals[1]
           built == BooleanToInt(Build(code, op, l, result))
           val == Lift(Top.node.tok, kids.vals[1], kids.vals[2])
<1>3. /\ kids.vals[1] \in SUBSET Int /\ kids.vals[2] \in SUBSET Int
      /\ \A a \in kids.vals[1] : a \in Val(l, code, world)
      /\ kids.vals[2] \subseteq Val(result, code, world)
      /\ Meaning(Top.node, at[Len(stack)].seen, Evaluation(world, at[Len(stack)].h), world)
           = [val |-> val, seen |-> kids.seen]
      /\ Top.node.tok \in Binary /\ Top.node.tok \notin StatementTokens
  BY <1>1, <1>2, OperandsMean DEF Held, Logical, Relational
<1>4. /\ IInv(Trees[MaxHeight]) /\ CodeTyped(code) /\ Usable(result, code)
      /\ Execution(code, world) \in Behaviours(Len(code))
  BY <1>1, AtTop DEF MeaningInv, HandedUp
<1>5. Usable(l, code) /\ HandUp(Below, built)
  BY <1>1, <1>4, TreesForest, LeftTyped DEF AfterRightRelational, Logical, Relational
<1>6. op \in Comparisons /\ OperandType(op) = "i64"
  BY <1>1, OpcodeTyped
<1> HIDE DEF l, op
<1>7. /\ Continues(code, built.code, world)
      /\ \A x \in Val(l, code, world), y \in Val(result, code, world) :
           ~Undefined(op, x, y) => Compute(op, x, y) \in Val(built.val, built.code, world)
  BY <1>4, <1>5, <1>6, NotNull, BooleanComputes DEF Fits
<1> HIDE DEF built
<1>8. ASSUME NEW x \in val PROVE x \in Val(built.val, built.code, world)
  <2>1. PICK a \in kids.vals[1], b \in kids.vals[2] : x \in Means(Top.node.tok, a, b)
    BY <1>3, LiftMeans
  <2>2. a \in Int /\ b \in Int
    BY <1>3
  <2>3. ~Undefined(op, a, b) /\ x = Compute(op, a, b)
    BY <1>1, <2>1, <2>2, RelationalMeans DEF op
  <2> QED BY <1>3, <1>7, <2>3
<1> HIDE DEF val
<1>9. val \subseteq Val(built.val, built.code, world)
  BY <1>8
<1> QED BY <1>1, <1>2, <1>3, <1>5, <1>7, <1>9, Computes

\* An operation on numbers has both operands.
LEMMA AfterRightArithmeticMeans ==
  ASSUME NEW world \in Worlds, MeaningInv(world), AfterRightArithmetic, IInv(Trees[MaxHeight])'
  PROVE  MeaningInv(world)'
<1>1. /\ HandedUp /\ IsBinary(Top.node) /\ ~MissesChild
      /\ Top.node.tok \in Additive \cup Multiplicative
  BY DEF AfterRightArithmetic
<1>2. PICK at, kids : Complete(at, kids, world)
  BY <1>1, Completed
<1> DEFINE op == Opcode(Top.node.tok)
           l == Top.vals[1]
           built == Build(code, op, l, result)
           val == Lift(Top.node.tok, kids.vals[1], kids.vals[2])
<1>3. /\ kids.vals[1] \in SUBSET Int /\ kids.vals[2] \in SUBSET Int
      /\ \A a \in kids.vals[1] : a \in Val(l, code, world)
      /\ kids.vals[2] \subseteq Val(result, code, world)
      /\ Meaning(Top.node, at[Len(stack)].seen, Evaluation(world, at[Len(stack)].h), world)
           = [val |-> val, seen |-> kids.seen]
      /\ Top.node.tok \in Binary /\ Top.node.tok \notin StatementTokens
  BY <1>1, <1>2, OperandsMean DEF Held, Logical, Additive, Multiplicative
<1>4. /\ IInv(Trees[MaxHeight]) /\ CodeTyped(code) /\ Usable(result, code)
      /\ Execution(code, world) \in Behaviours(Len(code))
  BY <1>1, AtTop DEF MeaningInv, HandedUp
<1>5. Usable(l, code) /\ HandUp(Below, built)
  BY <1>1, <1>4, TreesForest, LeftTyped DEF AfterRightArithmetic, Logical, Additive, Multiplicative
<1>6. op \in Operations /\ OperandType(op) = "i64"
  BY <1>1, OpcodeTyped
<1> HIDE DEF l, op
<1>7. /\ Continues(code, built.code, world)
      /\ \A x \in Val(l, code, world), y \in Val(result, code, world) :
           ~Undefined(op, x, y) => Compute(op, x, y) \in Val(built.val, built.code, world)
  BY <1>4, <1>5, <1>6, BuildComputes DEF Fits
<1> HIDE DEF built
<1>8. ASSUME NEW x \in val PROVE x \in Val(built.val, built.code, world)
  <2>1. PICK a \in kids.vals[1], b \in kids.vals[2] : x \in Means(Top.node.tok, a, b)
    BY <1>3, LiftMeans
  <2>2. a \in Int /\ b \in Int
    BY <1>3
  <2>3. ~Undefined(op, a, b) /\ x = Compute(op, a, b)
    BY <1>1, <2>1, <2>2, ArithmeticMeans DEF op
  <2> QED BY <1>3, <1>7, <2>3
<1> HIDE DEF val
<1>9. val \subseteq Val(built.val, built.code, world)
  BY <1>8
<1> QED BY <1>1, <1>2, <1>3, <1>5, <1>7, <1>9, Computes

\* Nodes that have one child.
LEMMA OneChild ==
  ASSUME NEW world \in Worlds, MeaningInv(world), HandedUp,
         IsUnary(Top.node) \/ Top.node.tok \in {"ident", "return", "exp", "condition"}
  PROVE  Kids(Top.node) = 1 /\ ~MissesChild
<1>1. /\ Top \in Frames(Trees[MaxHeight]) /\ Kids(Top.node) \in Nat /\ Len(Top.vals) \in Nat
      /\ Len(Top.vals) < Kids(Top.node) /\ Len(Received) = Len(Top.vals) + 1
  BY TreesForest, TopTyped DEF MeaningInv
<1>2. IsExpression(Top.node) \/ IsStatement(Top.node)
  BY <1>1, TreesForest, NodeTyped DEF Frames
<1>3. Kids(Top.node) \in 0..1
  BY <1>2 DEF IsExpression, IsStatement, IsBinary, IsUnary, Logical, Relational, Additive,
    Multiplicative, UnaryOperators
<1>4. \A k, n \in Nat : k < n /\ n \in 0..1 => n = 1 /\ ~(k + 1 < n)
  OBVIOUS
<1> QED BY <1>1, <1>3, <1>4 DEF MissesChild

\* What an operation on zero is one of.
LEMMA LiftZero ==
  ASSUME NEW tok \in Binary, NEW r \in SUBSET Int, NEW x \in Lift(tok, {0}, r)
  PROVE  \E b \in r : x \in Means(tok, 0, b)
<1>1. \E a \in {0}, b \in r : x \in Means(tok, a, b)
  BY LiftMeans
<1> QED BY <1>1

\* A sign or a negation has its operand, and is an operation on zero.
LEMMA EndUnaryMeans ==
  ASSUME NEW world \in Worlds, MeaningInv(world), EndUnary, IInv(Trees[MaxHeight])'
  PROVE  MeaningInv(world)'
<1>1. HandedUp /\ IsUnary(Top.node)
  BY DEF EndUnary
<1>2. Kids(Top.node) = 1 /\ ~MissesChild
  BY <1>1, OneChild
<1>3. PICK at, kids : Complete(at, kids, world)
  BY <1>1, <1>2, Completed
<1> DEFINE tok == IF Top.node.tok = "!" THEN "==" ELSE Top.node.tok
           val == Lift(tok, {0}, kids.vals[1])
<1>4. Top.node.tok \in UnaryOperators /\ Top.node.tok \notin StatementTokens
  BY <1>1 DEF IsUnary, UnaryOperators, StatementTokens
<1>5. Meaning(Top.node, at[Len(stack)].seen, Evaluation(world, at[Len(stack)].h), world)
        = [val |-> val, seen |-> kids.seen]
  <2>1. IsExpression(Top.node)
    BY <1>1 DEF IsExpression
  <2> QED BY <1>1, <1>3, <2>1, TopMeans DEF Arms
<1>6. kids.vals[1] \in SUBSET Int /\ kids.vals[1] \subseteq Val(result, code, world)
  <2>1. kids.vals \in Seq(SUBSET Int) /\ Len(kids.vals) = 1
    BY <1>2, <1>3 DEF Complete, Some
  <2> QED BY <1>2, <1>3, <2>1 DEF Complete
<1>7. /\ CodeTyped(code) /\ Usable(result, code) /\ Usable(Zero, code) /\ code \in Seq(Instructions)
      /\ Execution(code, world) \in Behaviours(Len(code))
  BY <1>1, AtTop, ZeroUsable DEF HandedUp
<1>8. 0 \in Val(Zero, code, world) /\ ~IsNull(Zero)
  BY ZeroIs, ZeroNotNull
<1> HIDE DEF val
<1>9. CASE Top.node.tok = "+"
  <2>1. HandUp(Below, [code |-> code, val |-> result])
    BY <1>9 DEF EndUnary
  <2>2. ASSUME NEW x \in val PROVE x \in Val(result, code, world)
    <3>1. tok = "+" /\ tok \in Binary
      BY <1>9 DEF Binary, Additive
    <3> HIDE DEF tok
    <3>2. PICK b \in kids.vals[1] : x \in Means(tok, 0, b)
      BY <1>6, <3>1, LiftZero DEF val
    <3>3. b \in Int /\ b \in Val(result, code, world)
      BY <1>6
    <3>4. x = Compute("add", 0, b)
      <4>1. Opcode("+") = "add" /\ "+" \in Additive \cup Multiplicative
        BY DEF Opcode, Additive
      <4>2. x = Compute(Opcode("+"), 0, b)
        BY <3>1, <3>2, <3>3, <4>1, ArithmeticMeans
      <4> QED BY <4>1, <4>2
    <3>5. Val(result, code, world) \in SUBSET Numbers
      BY <1>7, ValueTyped DEF Val, Usable
    <3>6. LongLimit \in Nat \ {0} /\ -LongLimit <= b /\ b < LongLimit /\ 0 + b = b
      <4>1. b \in Numbers /\ LongLimit \in Nat \ {0}
        BY <3>3, <3>5, LimitsAssumption
      <4> QED BY <3>3, <4>1, SMT DEF Numbers
    <3>7. Compute("add", 0, b) = b
      <4>1. Compute("add", 0, b) = Signed(0 + b, LongLimit)
        BY DEF Compute
      <4>2. Signed(b, LongLimit) = b
        BY <3>3, <3>6, NothingCut
      <4> QED BY <3>6, <4>1, <4>2
    <3> QED BY <3>3, <3>4, <3>7
  <2> DEFINE built == [code |-> code, val |-> result]
  <2>3. built.code = code /\ built.val = result /\ HandUp(Below, built)
    BY <2>1
  <2>4. Continues(code, code, world)
    BY <1>7, ContinuesItself
  <2> HIDE DEF built
  <2>5. val \subseteq Val(built.val, built.code, world) /\ Continues(code, built.code, world)
    BY <2>2, <2>3, <2>4
  <2> QED BY <1>1, <1>3, <1>4, <1>5, <2>3, <2>5, Computes
<1>10. CASE Top.node.tok = "-"
  <2> DEFINE zero == Const(result.ty, 0)
             built == Build(code, "sub", zero, result)
  <2>1. HandUp(Below, built)
    BY <1>10 DEF EndUnary
  <2>2. 0 \in Val(zero, code, world)
    BY DEF Val, ValueOf, Const
  <2>3. "sub" \in Operations /\ OperandType("sub") = "i64"
    BY OpcodeTyped DEF Arithmetic
  <2>4. /\ Continues(code, built.code, world)
        /\ \A x \in Val(zero, code, world), y \in Val(result, code, world) :
             ~Undefined("sub", x, y) => Compute("sub", x, y) \in Val(built.val, built.code, world)
    <3>1. Fits(zero, code, "sub")
      BY <1>7, NegationTyped
    <3> HIDE DEF zero
    <3> QED BY <1>7, <2>3, <3>1, BuildComputes DEF Fits
  <2> HIDE DEF built, zero
  <2>5. ASSUME NEW x \in val PROVE x \in Val(built.val, built.code, world)
    <3>1. tok = "-" /\ tok \in Binary
      BY <1>10 DEF Binary, Additive
    <3> HIDE DEF tok
    <3>2. PICK b \in kids.vals[1] : x \in Means(tok, 0, b)
      BY <1>6, <3>1, LiftZero DEF val
    <3>3. b \in Int /\ b \in Val(result, code, world)
      BY <1>6
    <3>4. ~Undefined("sub", 0, b) /\ x = Compute("sub", 0, b)
      <4>1. Opcode("-") = "sub" /\ "-" \in Additive \cup Multiplicative
        BY DEF Opcode, Additive
      <4>2. x = Compute(Opcode("-"), 0, b) /\ ~Undefined(Opcode("-"), 0, b)
        BY <3>1, <3>2, <3>3, <4>1, ArithmeticMeans
      <4> QED BY <4>1, <4>2
    <3> QED BY <2>2, <2>4, <3>3, <3>4
  <2>6. val \subseteq Val(built.val, built.code, world)
    BY <2>5
  <2> QED BY <1>1, <1>3, <1>4, <1>5, <2>1, <2>4, <2>6, Computes
<1>11. CASE Top.node.tok = "!"
  <2> DEFINE built == BooleanToInt(Build(code, "eq", Zero, result))
  <2>1. HandUp(Below, built)
    BY <1>11 DEF EndUnary
  <2>2. "eq" \in Comparisons /\ OperandType("eq") = "i64"
    BY OpcodeTyped DEF Comparisons
  <2>3. /\ Continues(code, built.code, world)
        /\ \A x \in Val(Zero, code, world), y \in Val(result, code, world) :
             ~Undefined("eq", x, y) => Compute("eq", x, y) \in Val(built.val, built.code, world)
    BY <1>7, <1>8, <2>2, BooleanComputes DEF Fits
  <2> HIDE DEF built
  <2>4. ASSUME NEW x \in val PROVE x \in Val(built.val, built.code, world)
    <3>1. tok = "==" /\ tok \in Binary
      BY <1>11 DEF Binary, Relational
    <3> HIDE DEF tok
    <3>2. PICK b \in kids.vals[1] : x \in Means(tok, 0, b)
      BY <1>6, <3>1, LiftZero DEF val
    <3>3. b \in Int /\ b \in Val(result, code, world)
      BY <1>6
    <3>4. ~Undefined("eq", 0, b) /\ x = Compute("eq", 0, b)
      <4>1. Opcode("==") = "eq" /\ "==" \in Relational
        BY DEF Opcode, Relational
      <4>2. x = Compute(Opcode("=="), 0, b) /\ ~Undefined(Opcode("=="), 0, b)
        BY <3>1, <3>2, <3>3, <4>1, RelationalMeans
      <4> QED BY <4>1, <4>2
    <3> QED BY <1>8, <2>3, <3>3, <3>4
  <2>5. val \subseteq Val(built.val, built.code, world)
    BY <2>4
  <2> QED BY <1>1, <1>3, <1>4, <1>5, <2>1, <2>3, <2>5, Computes
<1> QED BY <1>4, <1>9, <1>10, <1>11 DEF UnaryOperators

\* A handler's effect with all it received.
LEMMA ReceivedAnswers ==
  ASSUME NEW world \in Worlds, MeaningInv(world), HandedUp, NEW at, NEW kids, Complete(at, kids, world),
         Top.node.tok \notin Logical, NEW op \in Others, NEW ty \in Types,
         NEW for \in Purposes, for # NoEffect
  PROVE  LET built == Effect(op, ty, Received, for)
         IN  /\ Execution(built.code, world) \in Behaviours(Len(built.code))
             /\ Keeps(Execution(code, world), Execution(built.code, world))
             /\ Shows(Execution(built.code, world).seen, Append(kids.seen, Observed(for, kids.vals)))
             /\ ty = "i64" => Val(built.val, built.code, world) = Yield(world, kids.seen)
<1> DEFINE vals == kids.vals
           seen == kids.seen
<1>1. /\ Len(Top.vals) \in Nat /\ vals \in Seq(SUBSET Int) /\ Len(vals) = Len(Top.vals) + 1
      /\ seen \in Seen /\ Shows(Execution(code, world).seen, seen)
      /\ \A i \in 1..Len(Top.vals) : \A a \in vals[i] :
           Held(Top.node, a) \in Val(Top.vals[i], code, world)
      /\ vals[Len(Top.vals) + 1] \subseteq Val(result, code, world)
  BY DEF Complete, Some
<1> HIDE DEF vals, seen
<1>2. /\ Received \in Seq(Values) /\ Len(Received) = Len(Top.vals) + 1
      /\ \A i \in 1..Len(Received) :
           Defined(Received[i], code) /\ vals[i] \subseteq Val(Received[i], code, world)
  BY <1>1, ReceivedMeans
<1>3. CodeTyped(code) /\ Execution(code, world) \in Behaviours(Len(code))
  BY AtTop DEF HandedUp
<1>4. LET built == Effect(op, ty, Received, for)
      IN  /\ Execution(built.code, world) \in Behaviours(Len(built.code))
          /\ Keeps(Execution(code, world), Execution(built.code, world))
          /\ Shows(Execution(built.code, world).seen, Append(seen, Observed(for, vals)))
          /\ ty = "i64" => Val(built.val, built.code, world) = Yield(world, seen)
  BY <1>1, <1>2, <1>3, EffectAnswers
<1> QED BY <1>4 DEF vals, seen

\* A name that a node of the source has.
LEMMA NameKnown ==
  ASSUME NEW world \in Worlds, NEW at, NEW kids, Complete(at, kids, world)
  PROVE  /\ Top.node.name \in Purposes /\ Top.node.name # NoEffect
         /\ IsExpression(Top.node) \/ IsStatement(Top.node)
BY NamesAreEffects DEF Complete, Suits

\* An element is read.
LEMMA EndElementMeans ==
  ASSUME NEW world \in Worlds, MeaningInv(world), EndElement, IInv(Trees[MaxHeight])'
  PROVE  MeaningInv(world)'
<1>1. HandedUp /\ Top.node.tok = "ident"
  BY DEF EndElement
<1>2. Kids(Top.node) = 1 /\ ~MissesChild
  BY <1>1, OneChild
<1>3. PICK at, kids : Complete(at, kids, world)
  BY <1>1, <1>2, Completed
<1> DEFINE ty == ElementType(Top.node.name)
           built == Effect("element", ty, Received, Top.node.name)
           m == Meaning(Top.node, at[Len(stack)].seen, Evaluation(world, at[Len(stack)].h), world)
           name == Top.node.name
           val == IF IsKnown(Top.node) THEN Yield(world, kids.seen) ELSE Undetermined
<1>4. name \in Purposes /\ name # NoEffect /\ (IsExpression(Top.node) \/ IsStatement(Top.node))
  BY <1>3, NameKnown
<1>5. /\ "element" \in Others /\ ty \in Types /\ Top.node.tok \notin Logical
      /\ Top.node.tok \notin StatementTokens
  BY <1>1 DEF Others, Types, Logical, StatementTokens, ElementType, ValueType
<1>6. val = Undetermined \/ (ty = "i64" /\ val = Yield(world, kids.seen))
  BY <1>2 DEF IsKnown, ElementType
<1>7. m = [val |-> val, seen |-> Append(kids.seen, Observed(name, kids.vals))]
  BY <1>1, <1>3, <1>4, TopMeans DEF Arms
<1>8. HandUp(Below, built)
  BY DEF EndElement
<1> HIDE DEF m, ty, val
<1>9. /\ Execution(built.code, world) \in Behaviours(Len(built.code))
      /\ Keeps(Execution(code, world), Execution(built.code, world))
      /\ Shows(Execution(built.code, world).seen, Append(kids.seen, Observed(name, kids.vals)))
      /\ ty = "i64" => Val(built.val, built.code, world) = Yield(world, kids.seen)
  BY <1>1, <1>3, <1>4, <1>5, ReceivedAnswers
<1> HIDE DEF built, name
<1>10. Shows(Execution(built.code, world).seen, m.seen) /\ m.val \subseteq Val(built.val, built.code, world)
  BY <1>6, <1>7, <1>9 DEF Undetermined
<1>11. m = Meaning(Top.node, at[Len(stack)].seen, Evaluation(world, at[Len(stack)].h), world)
  BY DEF m
<1> QED BY <1>1, <1>3, <1>5, <1>8, <1>9, <1>10, <1>11, Ends

\* All arguments of a call are there.
LEMMA EndCallMeans ==
  ASSUME NEW world \in Worlds, MeaningInv(world), EndCall, IInv(Trees[MaxHeight])'
  PROVE  MeaningInv(world)'
<1>1. HandedUp /\ Top.node.tok = "call" /\ ~MissesChild
  BY DEF EndCall
<1>2. PICK at, kids : Complete(at, kids, world)
  BY <1>1, Completed
<1> DEFINE ty == ReturnType(Top.node.name)
           built == Effect("call", ty, Received, Top.node.name)
           m == Meaning(Top.node, at[Len(stack)].seen, Evaluation(world, at[Len(stack)].h), world)
           name == Top.node.name
           val == IF name \notin VoidFunctions THEN Yield(world, kids.seen) ELSE Undetermined
<1>3. name \in Purposes /\ name # NoEffect /\ (IsExpression(Top.node) \/ IsStatement(Top.node))
  BY <1>2, NameKnown
<1>4. /\ "call" \in Others /\ ty \in Types /\ Top.node.tok \notin Logical
      /\ Top.node.tok \notin StatementTokens
      /\ val = Undetermined \/ (ty = "i64" /\ val = Yield(world, kids.seen))
  BY <1>1 DEF Others, Types, Logical, StatementTokens, ReturnType
<1>5. m = [val |-> val, seen |-> Append(kids.seen, Observed(name, kids.vals))]
  BY <1>1, <1>2, <1>3, TopMeans DEF Arms
<1>6. HandUp(Below, built)
  BY DEF EndCall
<1> HIDE DEF m, ty, val
<1>7. /\ Execution(built.code, world) \in Behaviours(Len(built.code))
      /\ Keeps(Execution(code, world), Execution(built.code, world))
      /\ Shows(Execution(built.code, world).seen, Append(kids.seen, Observed(name, kids.vals)))
      /\ ty = "i64" => Val(built.val, built.code, world) = Yield(world, kids.seen)
  BY <1>1, <1>2, <1>3, <1>4, ReceivedAnswers
<1> HIDE DEF built, name
<1>8. Shows(Execution(built.code, world).seen, m.seen) /\ m.val \subseteq Val(built.val, built.code, world)
  BY <1>4, <1>5, <1>7 DEF Undetermined
<1>9. m = Meaning(Top.node, at[Len(stack)].seen, Evaluation(world, at[Len(stack)].h), world)
  BY DEF m
<1> QED BY <1>1, <1>2, <1>4, <1>6, <1>7, <1>8, <1>9, Ends

\* A statement's handler ends.
LEMMA StatementEnds ==
  ASSUME NEW world \in Worlds, MeaningInv(world), HandedUp, IInv(Trees[MaxHeight])',
         NEW at, NEW kids, Complete(at, kids, world), Top.node.tok \in StatementTokens,
         NEW built, Finish(built),
         Execution(built.code, world) \in Behaviours(Len(built.code)),
         NEW seen, Shows(Execution(Needed(Top.node, built.code), world).seen, seen), NEW val,
         Meaning(Top.node, at[Len(stack)].seen, Evaluation(world, at[Len(stack)].h), world)
           = [val |-> val, seen |-> seen]
  PROVE  MeaningInv(world)'
<1> DEFINE p == at[Len(stack)]
           m == Meaning(Top.node, p.seen, Evaluation(world, p.h), world)
<1>1. p = at[Len(stack)] /\ Tracks(at, stack, world, code)
  BY DEF Complete
<1>2. m.seen = seen
  OBVIOUS
<1> HIDE DEF p
<1>3. m = Meaning(Top.node, p.seen, Evaluation(world, p.h), world)
  OBVIOUS
<1> HIDE DEF m
<1>4. Shows(Execution(Needed(Top.node, built.code), world).seen, m.seen)
  BY <1>2
<1> QED BY <1>1, <1>3, <1>4, FinishMeans

\* All the code is needed but for an assignment.
LEMMA AllNeeded ==
  ASSUME NEW c, Top.node.tok # "assign"
  PROVE  Needed(Top.node, c) = c
BY DEF Needed, AssignsGlobal

\* A value is returned.
LEMMA EndReturnMeans ==
  ASSUME NEW world \in Worlds, MeaningInv(world), EndReturn, IInv(Trees[MaxHeight])'
  PROVE  MeaningInv(world)'
<1>1. HandedUp /\ Top.node.tok = "return"
  BY DEF EndReturn
<1>2. Kids(Top.node) = 1 /\ ~MissesChild
  BY <1>1, OneChild
<1>3. PICK at, kids : Complete(at, kids, world)
  BY <1>1, <1>2, Completed
<1> DEFINE built == Effect("ret", "void", Received, "return")
           seen == Append(kids.seen, Observed("return", kids.vals))
<1>4. /\ "ret" \in Others /\ "void" \in Types /\ Top.node.tok \notin Logical
      /\ Top.node.tok \in StatementTokens /\ "return" # NoEffect
  BY <1>1 DEF Others, Types, Logical, StatementTokens, NoEffect
<1>5. "return" \in Purposes
  BY DEF Purposes
<1>6. Meaning(Top.node, at[Len(stack)].seen, Evaluation(world, at[Len(stack)].h), world)
        = [val |-> Undetermined, seen |-> seen]
  BY <1>1, <1>3, NameKnown, TopMeans DEF Arms
<1>7. Finish(built)
  <2>1. Top.vals \in Seq(Values) /\ result \in Values
    BY TreesForest, TopTyped DEF MeaningInv
  <2>2. Len(Top.vals) = 0
    <3>1. \A k \in Nat : 1 = k + 1 => k = 0
      OBVIOUS
    <3> QED BY <1>2, <1>3, <3>1 DEF Complete
  <2>3. Received = <<result>>
    <3>1. Received \in Seq(Values) /\ Len(Received) = 1 /\ Received[1] = result
      BY <2>1, <2>2 DEF Received
    <3> HIDE DEF Received
    <3> QED BY <2>1, <3>1
  <2> QED BY <2>3 DEF EndReturn
<1> HIDE DEF seen
<1>8. /\ Execution(built.code, world) \in Behaviours(Len(built.code))
      /\ Shows(Execution(built.code, world).seen, seen)
  BY <1>1, <1>3, <1>4, <1>5, ReceivedAnswers DEF seen
<1> HIDE DEF built
<1>9. Needed(Top.node, built.code) = built.code
  BY <1>1, AllNeeded
<1> QED BY <1>1, <1>3, <1>4, <1>6, <1>7, <1>8, <1>9, StatementEnds

\* A value is dropped.
LEMMA EndExpStatementMeans ==
  ASSUME NEW world \in Worlds, MeaningInv(world), EndExpStatement, IInv(Trees[MaxHeight])'
  PROVE  MeaningInv(world)'
<1>1. HandedUp /\ Top.node.tok = "exp"
  BY DEF EndExpStatement
<1>2. Kids(Top.node) = 1 /\ ~MissesChild
  BY <1>1, OneChild
<1>3. PICK at, kids : Complete(at, kids, world)
  BY <1>1, <1>2, Completed
<1> DEFINE built == [code |-> code, val |-> result]
           val == kids.vals[1]
           seen == kids.seen
<1>4. Top.node.tok \in StatementTokens
  BY <1>1 DEF StatementTokens
<1>5. Meaning(Top.node, at[Len(stack)].seen, Evaluation(world, at[Len(stack)].h), world)
        = [val |-> val, seen |-> seen]
  BY <1>1, <1>3, NameKnown, TopMeans DEF Arms
<1>6. Finish(built) /\ built.code = code
  BY DEF EndExpStatement
<1>7. Execution(code, world) \in Behaviours(Len(code)) /\ Shows(Execution(code, world).seen, seen)
  BY <1>1, <1>3, AtTop DEF HandedUp, Complete
<1> HIDE DEF built, val, seen
<1>8. /\ Execution(built.code, world) \in Behaviours(Len(built.code))
      /\ Shows(Execution(built.code, world).seen, seen)
  BY <1>6, <1>7
<1>9. Needed(Top.node, built.code) = built.code
  BY <1>1, AllNeeded
<1> QED BY <1>1, <1>3, <1>4, <1>5, <1>6, <1>8, <1>9, StatementEnds

\* A branch is taken on a condition.
LEMMA EndConditionMeans ==
  ASSUME NEW world \in Worlds, MeaningInv(world), EndCondition, IInv(Trees[MaxHeight])'
  PROVE  MeaningInv(world)'
<1>1. HandedUp /\ Top.node.tok = "condition"
  BY DEF EndCondition
<1>2. Kids(Top.node) = 1 /\ ~MissesChild
  BY <1>1, OneChild
<1>3. PICK at, kids : Complete(at, kids, world)
  BY <1>1, <1>2, Completed
<1> DEFINE cond == IntToBoolean(code, result)
           i == Instr("condbr", "void", <<cond.val>>, "condition")
           c == Append(cond.code, i)
           built == [code |-> c, val |-> cond.val]
           lifted == Lift("!=", {0}, kids.vals[1])
           seen == Append(kids.seen, Observed("condition", <<lifted>>))
<1>4. /\ Top.node.tok \in StatementTokens /\ "condbr" \in Others /\ "void" \in Types
      /\ "condition" # NoEffect
  BY <1>1 DEF StatementTokens, Others, Types, NoEffect
<1>5. "condition" \in Purposes
  BY DEF Purposes
<1>6. Meaning(Top.node, at[Len(stack)].seen, Evaluation(world, at[Len(stack)].h), world)
        = [val |-> Undetermined, seen |-> seen]
  BY <1>1, <1>3, NameKnown, TopMeans DEF Arms
<1>7. Finish(built) /\ built.code = c
  BY DEF EndCondition, IntToBoolean, Build, Finish
<1>8. /\ CodeTyped(code) /\ Usable(result, code)
      /\ Execution(code, world) \in Behaviours(Len(code))
  BY <1>1, AtTop DEF HandedUp
<1>9. /\ kids.vals[1] \in SUBSET Int /\ kids.vals[1] \subseteq Val(result, code, world)
      /\ kids.seen \in Seen /\ Shows(Execution(code, world).seen, kids.seen)
  <2>1. kids.vals \in Seq(SUBSET Int) /\ Len(kids.vals) = 1
    BY <1>2, <1>3 DEF Complete, Some
  <2> QED BY <1>2, <1>3, <2>1 DEF Complete, Some
<1>10. /\ Continues(code, cond.code, world) /\ IsBuilt(cond, code, "i1")
       /\ \A x \in Val(result, code, world) : Truth(x # 0) \in Val(cond.val, cond.code, world)
  BY <1>8, IntToBooleanComputes, IntToBooleanTyped
<1> HIDE DEF cond, built
<1>11. lifted \in SUBSET Int /\ lifted \subseteq Val(cond.val, cond.code, world)
  <2>1. "!=" \in Binary /\ {0} \in SUBSET Int /\ "!=" \in Relational /\ Opcode("!=") = "ne"
    BY DEF Binary, Relational, Opcode
  <2>2. lifted \in SUBSET Int
    BY <1>9, <2>1, LiftTyped
  <2>3. ASSUME NEW x \in lifted PROVE x \in Val(cond.val, cond.code, world)
    <3>1. PICK a \in {0}, b \in kids.vals[1] : x \in Means("!=", a, b)
      BY <1>9, <2>1, LiftMeans
    <3>2. b \in Int /\ b \in Val(result, code, world) /\ a = 0
      BY <1>9
    <3>3. x = Truth(b # 0)
      BY <3>1, <3>2 DEF Means, Truth
    <3> QED BY <1>10, <3>2, <3>3
  <2> HIDE DEF lifted
  <2> QED BY <2>2, <2>3
<1> HIDE DEF lifted
<1>12. /\ CodeTyped(cond.code) /\ cond.val \in Values /\ Defined(cond.val, cond.code)
       /\ Execution(cond.code, world) \in Behaviours(Len(cond.code))
       /\ Shows(Execution(cond.code, world).seen, kids.seen)
  BY <1>9, <1>10 DEF IsBuilt, Continues
<1> DEFINE args == <<cond.val>>
           vals == <<lifted>>
<1>13. /\ args \in Seq(Values) /\ vals \in Seq(SUBSET Int) /\ Len(vals) = Len(args)
       /\ \A j \in 1..Len(args) : args[j] = cond.val /\ vals[j] = lifted
  BY <1>11, <1>12
<1>14. c = Append(cond.code, Instr("condbr", "void", args, "condition"))
  OBVIOUS
<1> HIDE DEF args, vals
<1>15. /\ \A j \in 1..Len(args) : Defined(args[j], cond.code)
       /\ \A j \in 1..Len(args) : vals[j] \subseteq Val(args[j], cond.code, world)
  BY <1>11, <1>12, <1>13
<1> DEFINE d == Append(cond.code, Instr("condbr", "void", args, "condition"))
<1>16. /\ Execution(d, world) \in Behaviours(Len(d))
       /\ Shows(Execution(d, world).seen, Append(kids.seen, Observed("condition", vals)))
  BY <1>4, <1>5, <1>9, <1>12, <1>13, <1>15, EffectMeans
<1> HIDE DEF c, d
<1>17. /\ Execution(built.code, world) \in Behaviours(Len(built.code))
       /\ Shows(Execution(built.code, world).seen, seen)
  BY <1>7, <1>14, <1>16 DEF d, vals
<1> HIDE DEF seen
<1>18. Needed(Top.node, built.code) = built.code
  BY <1>1, AllNeeded
<1> QED BY <1>1, <1>3, <1>4, <1>6, <1>7, <1>17, <1>18, StatementEnds

\* Two instructions behind a code, and the code without the first of them.
LEMMA TwoMore ==
  ASSUME NEW S, NEW c \in Seq(S), NEW i \in S, NEW j \in S, NEW d, d = Append(Append(c, i), j)
  PROVE  /\ d \in Seq(S) /\ Len(d) = Len(c) + 2 /\ d[Len(d)] = j /\ d[Len(d) - 1] = i
         /\ SubSeq(d, 1, Len(d) - 2) = c
<1> DEFINE n == Len(c)
<1>1. n \in Nat /\ d \in Seq(S) /\ Len(d) = n + 2
  OBVIOUS
<1>2. d[n + 2] = j /\ d[n + 1] = i /\ \A k \in 1..n : d[k] = c[k]
  OBVIOUS
<1>3. Len(d) - 2 = n /\ Len(d) - 1 = n + 1
  BY <1>1
<1> HIDE DEF n
<1> DEFINE e == SubSeq(d, 1, n)
<1>4. e = c
  <2>1. \A k \in 1..n : d[k] \in S
    BY <1>1
  <2>2. /\ e \in Seq(S) /\ Len(e) = (IF 1 <= n THEN n - 1 + 1 ELSE 0)
        /\ \A k \in 1..(n - 1 + 1) : e[k] = d[1 + k - 1]
    BY <1>1, <2>1, SubSeqProperties
  <2> HIDE DEF e
  <2>3. (IF 1 <= n THEN n - 1 + 1 ELSE 0) = n /\ n - 1 + 1 = n
    BY <1>1
  <2>4. Len(e) = n
    BY <2>2, <2>3
  <2>5. \A k \in 1..n : e[k] = c[k]
    <3>1. \A k \in 1..n : 1 + k - 1 = k
      BY <1>1
    <3> QED BY <1>2, <2>2, <2>3, <3>1
  <2>6. Len(c) = n
    BY DEF n
  <2> QED BY <2>2, <2>4, <2>5, <2>6
<1> HIDE DEF e
<1> QED BY <1>1, <1>2, <1>3, <1>4 DEF n, e

\* A load that nothing takes the value of is executed before a store.
LEMMA IdleExecutes ==
  ASSUME NEW world \in Worlds, NEW c, CodeTyped(c), Execution(c, world) \in Behaviours(Len(c)),
         NEW load \in Instructions, load.args = << >>, load.for # NoEffect,
         NEW store \in Instructions, store.for # NoEffect,
         \A j \in 1..Len(store.args) : Defined(store.args[j], c),
         NEW d, d = Append(Append(c, load), store)
  PROVE  Execution(d, world) \in Behaviours(Len(d))
<1> DEFINE b == Append(c, load)
<1>1. c \in Seq(Instructions) /\ Len(c) \in Nat
  BY DEF CodeTyped
<1>2. /\ b \in Seq(Instructions) /\ Len(b) = Len(c) + 1
      /\ \A k \in 1..Len(c) : b[k] = c[k]
  BY <1>1
<1>3. \A j \in 1..Len(load.args) : Defined(load.args[j], c)
  OBVIOUS
<1>4. Execution(b, world) \in Behaviours(Len(c) + 1)
  BY <1>1, <1>3, ExecuteEffect
<1>5. d = Append(b, store)
  OBVIOUS
<1> HIDE DEF b
<1>6. \A j \in 1..Len(store.args) : Defined(store.args[j], b)
  <2>1. \A k \in 1..Len(c) : k \in 1..Len(b)
    BY <1>1, <1>2
  <2> QED BY <1>2, <2>1 DEF Defined
<1>7. Execution(d, world) \in Behaviours(Len(b) + 1)
  BY <1>2, <1>4, <1>5, <1>6, ExecuteEffect
<1>8. Len(d) = Len(b) + 1
  BY <1>2, <1>5
<1> QED BY <1>7, <1>8

\* A value is stored.
LEMMA EndAssignMeans ==
  ASSUME NEW world \in Worlds, MeaningInv(world), EndAssign, IInv(Trees[MaxHeight])'
  PROVE  MeaningInv(world)'
<1>1. HandedUp /\ Top.node.tok = "assign" /\ ~MissesChild
  BY DEF EndAssign
<1>2. PICK at, kids : Complete(at, kids, world)
  BY <1>1, Completed
<1> DEFINE name == Top.node.name
           stored == Effect("store", "void", Received, name)
           load == Instr("load", ValueType(name), << >>, name)
           store == Instr("store", "void", Received, name)
           before == IF AssignsGlobal(Top.node) THEN Append(code, load) ELSE code
           built == [code |-> Append(before, store), val |-> result]
           seen == Append(kids.seen, Observed(name, kids.vals))
<1>3. name \in Purposes /\ name # NoEffect /\ (IsExpression(Top.node) \/ IsStatement(Top.node))
  BY <1>2, NameKnown
<1>4. /\ "store" \in Others /\ "void" \in Types /\ Top.node.tok \notin Logical
      /\ Top.node.tok \in StatementTokens
  BY <1>1 DEF Others, Types, Logical, StatementTokens
<1>5. Meaning(Top.node, at[Len(stack)].seen, Evaluation(world, at[Len(stack)].h), world)
        = [val |-> Undetermined, seen |-> seen]
  BY <1>1, <1>2, <1>3, TopMeans DEF Arms
<1>6. Finish(built)
  BY DEF EndAssign
<1>7. /\ Execution(stored.code, world) \in Behaviours(Len(stored.code))
      /\ Shows(Execution(stored.code, world).seen, seen)
  BY <1>1, <1>2, <1>3, <1>4, ReceivedAnswers
<1>8. stored.code = Append(code, store) /\ built.code = Append(before, store)
  BY DEF Effect
<1> HIDE DEF stored, built, seen
<1>9. /\ Execution(built.code, world) \in Behaviours(Len(built.code))
      /\ Needed(Top.node, built.code) = stored.code
  <2>1. CASE ~AssignsGlobal(Top.node)
    BY <1>7, <1>8, <2>1 DEF Needed
  <2>2. CASE AssignsGlobal(Top.node)
    <3>1. /\ CodeTyped(code) /\ code \in Seq(Instructions)
          /\ Execution(code, world) \in Behaviours(Len(code))
      BY <1>1, AtTop DEF HandedUp
    <3>2. /\ Received \in Seq(Values)
          /\ \A i \in 1..Len(Received) : Defined(Received[i], code)
      BY <1>4, TreesForest, TopTyped DEF MeaningInv, Usable
    <3>3. /\ load \in Instructions /\ load.args = << >> /\ load.for # NoEffect
          /\ store \in Instructions /\ store.args = Received /\ store.for # NoEffect
      BY <1>3, <3>2 DEF Instr, Instructions, Others, Types, ForeignTypes, ValueType
    <3>4. built.code = Append(Append(code, load), store)
      BY <1>8, <2>2
    <3> HIDE DEF load, store
    <3>5. Execution(built.code, world) \in Behaviours(Len(built.code))
      BY <3>1, <3>2, <3>3, <3>4, IdleExecutes
    <3> DEFINE c == built.code
    <3>6. c[Len(c)] = store /\ SubSeq(c, 1, Len(c) - 2) = code
      BY <3>1, <3>3, <3>4, TwoMore
    <3>7. Needed(Top.node, c) = Append(code, store)
      BY <2>2, <3>6 DEF Needed
    <3> QED BY <1>8, <3>5, <3>7
  <2> QED BY <2>1, <2>2
<1>10. Shows(Execution(Needed(Top.node, built.code), world).seen, seen)
  BY <1>7, <1>9
<1> QED BY <1>1, <1>2, <1>4, <1>5, <1>6, <1>9, <1>10, StatementEnds

-----------------------------------------------------------------------------
(* The code computes the source *)

\* A statement is about to be compiled.
LEMMA InitMeans ==
  ASSUME Init, NEW world \in Worlds
  PROVE  MeaningInv(world)
<1>1. PICK s \in Statements :
        /\ stack = <<Frame(TreeOf(s), << >>)>> /\ entered = TreeOf(s).kids[1]
        /\ result = Zero /\ code = << >> /\ status = "generating"
  BY DEF Init
<1>2. IInv(Trees[MaxHeight])
  BY TreesForest, InitTyped
<1>3. Suits(TreeOf(s), Trees[MaxHeight])
  BY StatementSuits
<1>4. Execution(code, world) = Nothing /\ Execution(code, world) \in Behaviours(Len(code))
  <2>1. Execution(code, world) = Nothing
    BY <1>1, ExecutionStarts
  <2> DEFINE none == << >>
  <2>2. /\ none \in Seq(SUBSET Numbers) /\ none \in Seq([for : Purposes, args : Seq(SUBSET Numbers)])
        /\ Len(none) = 0 /\ Len(code) = 0
    BY <1>1
  <2>3. Nothing = [vals |-> none, seen |-> none]
    BY DEF Nothing
  <2> HIDE DEF none
  <2>4. Nothing \in Behaviours(0)
    BY <2>2, <2>3 DEF Behaviours
  <2> QED BY <2>1, <2>2, <2>4
<1> DEFINE f == Frame(TreeOf(s), << >>)
           p == [h |-> MaxHeight, seen |-> << >>]
           at == <<p>>
<1>5. f.node = TreeOf(s) /\ f.vals = << >> /\ Len(f.vals) = 0 /\ \A i \in 1..Len(f.vals) : FALSE
  BY DEF Frame
<1>6. p \in Places /\ p.h = MaxHeight /\ p.seen = << >>
  <2>1. << >> \in Seen
    BY DEF Seen
  <2> QED BY <2>1, HeightAssumption DEF Places
<1>7. Reached(f, p, world) = NoChildren(<< >>)
  <2>1. Kids(TreeOf(s)) \in Nat
    BY <1>3 DEF Suits, Kids
  <2> HIDE DEF f, p
  <2> QED BY <1>5, <1>6, <2>1, ChildrenMean DEF Reached
<1>8. /\ stack = <<f>> /\ Len(stack) = 1 /\ stack[1] = f
      /\ at \in Seq(Places) /\ Len(at) = 1 /\ at[1] = p
  BY <1>1, <1>6
<1> HIDE DEF f, p, at
<1>9. FrameMeans(f, p, world, code)
  BY <1>3, <1>5, <1>6 DEF FrameMeans
<1>10. Tracks(at, stack, world, code)
  BY <1>8, <1>9 DEF Tracks, p
<1>11. entered = Awaited(f)
  BY <1>1, <1>5 DEF Awaited
<1>12. Shows(Execution(code, world).seen, Reached(f, p, world).seen)
  BY <1>4, <1>7 DEF Shows, Nothing, NoChildren
<1>13. Awaited(f) # NoNode
  <2>1. FrameTyped(f, code)
    BY <1>2, <1>8 DEF IInv, StackTyped
  <2>2. IsExpression(Awaited(f))
    BY <1>9, <2>1, AnswerMeans
  <2>3. ~IsExpression(NoNode)
    BY DEF NoNode, Tree, IsExpression, IsBinary, IsUnary, Logical, Relational, Additive,
      Multiplicative, UnaryOperators
  <2> QED BY <2>2, <2>3
<1>14. Goes(at, stack, entered, result, world, code)
  BY <1>8, <1>11, <1>12, <1>13 DEF Goes
<1> QED BY <1>1, <1>2, <1>4, <1>10, <1>14 DEF MeaningInv

\* Every step keeps the invariant.
LEMMA StepMeans ==
  ASSUME NEW world \in Worlds, MeaningInv(world), [Next]_vars
  PROVE  MeaningInv(world)'
<1>1. IInv(Trees[MaxHeight])'
  BY TreesForest, StepTyped DEF MeaningInv
<1>2. CASE NumberThrows
  <2>1. status' = "crashed" /\ code' = code
    BY <1>2 DEF NumberThrows
  <2> QED BY <1>1, <2>1 DEF MeaningInv
<1>3. CASE UNCHANGED vars
  BY <1>1, <1>3 DEF vars, MeaningInv
<1>4. CASE Next /\ ~NumberThrows /\ ~Finished
  BY <1>1, <1>4, NumberMeans, LoadMeans, CallNoArgumentsMeans, BeginMeans, AfterLeftMeans,
    AfterRightLogicalMeans, AfterRightRelationalMeans, AfterRightArithmeticMeans, EndUnaryMeans,
    EndElementMeans, NextChildMeans, EndCallMeans, EndReturnMeans, EndExpStatementMeans,
    EndConditionMeans, EndAssignMeans DEF Next
<1> QED BY <1>2, <1>3, <1>4 DEF Finished

-----------------------------------------------------------------------------
(* The idle load *)

\* Expressions are evaluated above the statement, and the load that stands for
\* nothing in the source stands where it is looked for.
IdleInv(forest) ==
  /\ \A d \in 2..Len(stack) : stack[d].node \in forest
  /\ status = "done" /\ AssignsGlobal(stack[1].node) => IdleLoad(stack[1].node.name, code)

\* A handler is left, or goes on.
LEMMA IdleBelow ==
  ASSUME NEW forest, IInv(forest), IdleInv(forest),
         NEW f, f.node = Top.node, NEW st, st = Below \/ st = Append(Below, f)
  PROVE  \A d \in 2..Len(st) : st[d].node \in forest
<1>1. stack \in Seq(Frames(forest)) /\ Len(stack) \in Nat /\ Len(stack) > 0
  BY DEF IInv, StackTyped
<1>2. /\ Below \in Seq(Frames(forest)) /\ Len(Below) = Len(stack) - 1
      /\ \A i \in 1..(Len(stack) - 1) : Below[i] = stack[i]
  BY <1>1, Front DEF Below
<1>3. CASE st = Below
  <2>1. \A d \in 2..(Len(stack) - 1) : d \in 2..Len(stack) /\ d \in 1..(Len(stack) - 1)
    BY <1>1
  <2> QED BY <1>2, <1>3, <2>1 DEF IdleInv
<1>4. CASE st = Append(Below, f)
  <2>1. Len(st) = Len(stack) /\ st[Len(stack)] = f /\ \A i \in 1..(Len(stack) - 1) : st[i] = stack[i]
    <3>1. Len(stack) - 1 + 1 = Len(stack)
      BY <1>1
    <3> QED BY <1>2, <1>4, <3>1
  <2>2. ASSUME NEW d \in 2..Len(st) PROVE st[d].node \in forest
    <3>1. CASE d = Len(stack)
      BY <2>1, <3>1 DEF Top, IdleInv
    <3>2. CASE d # Len(stack)
      <4>1. d \in 1..(Len(stack) - 1) /\ d \in 2..Len(stack)
        BY <1>1, <2>1, <3>2
      <4> QED BY <2>1, <4>1 DEF IdleInv
    <3> QED BY <3>1, <3>2
  <2> QED BY <2>2
<1> QED BY <1>3, <1>4

\* A handler is called for an expression.
LEMMA IdleBegin ==
  ASSUME NEW forest, IInv(forest), IdleInv(forest), Begin
  PROVE  IdleInv(forest)'
<1>1. /\ stack' = Append(stack, Frame(entered, << >>)) /\ status' = "generating"
      /\ entered \in forest
  BY DEF Begin, Entering, Call, IInv
<1>2. stack \in Seq(Frames(forest)) /\ Len(stack) \in Nat /\ Frame(entered, << >>).node = entered
  BY DEF IInv, StackTyped, Frame
<1>3. ASSUME NEW d \in 2..Len(stack') PROVE stack'[d].node \in forest
  <2>1. CASE d = Len(stack) + 1
    BY <1>1, <1>2, <2>1
  <2>2. CASE d # Len(stack) + 1
    <3>1. d \in 2..Len(stack) /\ stack'[d] = stack[d]
      BY <1>1, <1>2, <2>2
    <3> QED BY <3>1 DEF IdleInv
  <2> QED BY <2>1, <2>2
<1> QED BY <1>1, <1>3 DEF IdleInv

\* The statement's own handler is the one on top when it ends.
LEMMA IdleFinish ==
  ASSUME NEW forest, IsForest(forest), IInv(forest), IdleInv(forest), HandedUp,
         Top.node.tok \in StatementTokens, NEW built, Finish(built),
         AssignsGlobal(Top.node) => IdleLoad(Top.node.name, built.code)
  PROVE  IdleInv(forest)'
<1>1. stack' = stack /\ code' = built.code
  BY DEF Finish
<1>2. Len(stack) \in Nat /\ Len(stack) > 0
  BY DEF IInv, StackTyped
<1>3. Top = stack[1]
  <2>1. ASSUME Len(stack) # 1 PROVE FALSE
    <3>1. Len(stack) \in 2..Len(stack)
      <4>1. \A k \in Nat : k > 0 /\ k # 1 => k \in 2..k
        OBVIOUS
      <4> QED BY <1>2, <2>1, <4>1
    <3>2. Top.node \in forest
      BY <3>1 DEF IdleInv, Top
    <3> QED BY <3>2, NodeTyped DEF Nodes
  <2> QED BY <2>1 DEF Top
<1> QED BY <1>1, <1>3 DEF IdleInv

\* A global variable is loaded, and its value not taken.
LEMMA IdleAssign ==
  ASSUME NEW forest, IsForest(forest), IInv(forest), IdleInv(forest), EndAssign
  PROVE  IdleInv(forest)'
<1> DEFINE name == Top.node.name
           load == Instr("load", ValueType(name), << >>, name)
           store == Instr("store", "void", Received, name)
           before == IF AssignsGlobal(Top.node) THEN Append(code, load) ELSE code
           built == [code |-> Append(before, store), val |-> result]
<1>1. HandedUp /\ Top.node.tok = "assign" /\ Finish(built)
  BY DEF EndAssign
<1>2. Top.node.tok \in StatementTokens /\ Top.node.tok \notin Logical
  BY <1>1 DEF StatementTokens, Logical
<1>3. ASSUME AssignsGlobal(Top.node) PROVE IdleLoad(name, built.code)
  <2>1. /\ code \in Seq(Instructions) /\ Len(code) \in Nat /\ name \in Purposes
        /\ Received \in Seq(Values) /\ \A i \in 1..Len(Received) : Defined(Received[i], code)
    BY <1>2, TopTyped DEF Usable, Purposes
  <2>2. load \in Instructions /\ store \in Instructions /\ store.args = Received
    BY <2>1 DEF Instr, Instructions, Others, Types, ForeignTypes, ValueType
  <2>3. built.code = Append(Append(code, load), store)
    BY <1>3
  <2> HIDE DEF store, built
  <2> DEFINE c == built.code
  <2>4. Len(c) = Len(code) + 2 /\ c[Len(c)] = store /\ c[Len(c) - 1] = load
    <3> HIDE DEF load
    <3> QED BY <2>1, <2>2, <2>3, TwoMore
  <2> HIDE DEF c
  <2>5. Len(c) > 1 /\ \A n \in 1..Len(code) : n # Len(c) - 1
    BY <2>1, <2>4
  <2>6. \A j \in 1..Len(store.args) : store.args[j].kind = "reg" => store.args[j].n # Len(c) - 1
    BY <2>1, <2>2, <2>5 DEF Defined
  <2>7. IdleLoad(name, c)
    BY <2>4, <2>5, <2>6 DEF IdleLoad
  <2> QED BY <2>7 DEF c
<1> HIDE DEF built
<1> QED BY <1>1, <1>2, <1>3, IdleFinish

\* Every step keeps that.
LEMMA IdleStep ==
  ASSUME NEW forest, IsForest(forest), IInv(forest), IdleInv(forest), [Next]_vars
  PROVE  IdleInv(forest)'
<1>1. CASE Number \/ Load \/ CallNoArguments
  <2>1. stack' = stack /\ status' = "generating"
    BY <1>1 DEF Number, Load, CallNoArguments, Entering, HandUp
  <2> QED BY <2>1 DEF IdleInv
<1>2. CASE NumberThrows
  BY <1>2 DEF NumberThrows, IdleInv
<1>3. CASE Begin
  BY <1>3, IdleBegin
<1>4. CASE AfterLeft \/ NextChild
  <2>1. PICK f : f.node = Top.node /\ Call(Below, f)
    <3>1. CASE AfterLeft
      BY <3>1 DEF AfterLeft, Frame
    <3>2. CASE NextChild
      BY <3>2 DEF NextChild, Frame
    <3> QED BY <1>4, <3>1, <3>2
  <2>2. stack' = Append(Below, f) /\ status' = "generating"
    BY <1>4, <2>1 DEF AfterLeft, NextChild, HandedUp, Call
  <2>3. \A d \in 2..Len(stack') : stack'[d].node \in forest
    BY <2>1, <2>2, IdleBelow
  <2> QED BY <2>2, <2>3 DEF IdleInv
<1>5. CASE AfterRightLogical \/ AfterRightRelational \/ AfterRightArithmetic \/ EndUnary
           \/ EndElement \/ EndCall
  <2>1. stack' = Below /\ status' = "generating"
    BY <1>5 DEF AfterRightLogical, AfterRightRelational, AfterRightArithmetic, EndUnary, EndElement,
      EndCall, HandedUp, HandUp
  <2>2. \A d \in 2..Len(stack') : stack'[d].node \in forest
    BY <2>1, IdleBelow
  <2> QED BY <2>1, <2>2 DEF IdleInv
<1>6. CASE EndReturn \/ EndExpStatement \/ EndCondition
  <2>1. /\ HandedUp /\ Top.node.tok \in StatementTokens /\ ~AssignsGlobal(Top.node)
    BY <1>6 DEF EndReturn, EndExpStatement, EndCondition, StatementTokens, AssignsGlobal
  <2>2. PICK built : Finish(built)
    BY <1>6 DEF EndReturn, EndExpStatement, EndCondition
  <2> QED BY <2>1, <2>2, IdleFinish
<1>7. CASE EndAssign
  BY <1>7, IdleAssign
<1>8. CASE UNCHANGED vars
  BY <1>8 DEF vars, IdleInv
<1> QED BY <1>1, <1>2, <1>3, <1>4, <1>5, <1>6, <1>7, <1>8 DEF Next, Finished

-----------------------------------------------------------------------------
\* Whatever the statement, the code generated for it has the effects the source
\* has, in its order, each once, with the operands the source gives them, in
\* every world of values that reads and calls may yield, and an assignment to a
\* global variable has one more: a load just before its store, which does not
\* take the value.  The elements of global arrays are read and their subscripts
\* shown, but of the values nothing is said.
THEOREM CodeComputesTheSource == Spec => []CodeComputesSource
<1> DEFINE All == \A world \in Worlds : MeaningInv(world)
           Typed == IInv(Trees[MaxHeight]) /\ IdleInv(Trees[MaxHeight])
<1>1. Init => All /\ Typed
  <2>1. ASSUME Init PROVE IdleInv(Trees[MaxHeight])
    <3>1. PICK s \in Statements : stack = <<Frame(TreeOf(s), << >>)>> /\ status = "generating"
      BY <2>1 DEF Init
    <3>2. Len(stack) = 1
      BY <3>1
    <3>3. \A d \in 2..1 : FALSE
      OBVIOUS
    <3> QED BY <3>1, <3>2, <3>3 DEF IdleInv
  <2> QED BY <2>1, InitMeans, InitTyped, TreesForest
<1>2. All /\ Typed /\ [Next]_vars => (All /\ Typed)'
  <2>1. All /\ [Next]_vars => All'
    BY StepMeans
  <2>2. Typed /\ [Next]_vars => Typed'
    BY StepTyped, IdleStep, TreesForest
  <2> QED BY <2>1, <2>2
<1>3. All /\ Typed => CodeComputesSource
  BY DEF MeaningInv, IdleInv, CodeComputesSource
<1> QED BY <1>1, <1>2, <1>3, PTL DEF Spec
=============================================================================
