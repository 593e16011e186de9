------------------------ MODULE StatementFlowProofs ------------------------
(***************************************************************************)
(* Proof that the emitted code follows the source: for every bound, every  *)
(* choice of statements and return types, if back() of an empty block is   *)
(* taken neither for a branch nor for a return.  The invariant gives every *)
(* token of the source a point of the code; from the end of the source on, *)
(* the code at the point of a token leads where the token does.            *)
(***************************************************************************)
EXTENDS ControlFlowLoops, WellFoundedInduction

-----------------------------------------------------------------------------
(* The points of the code that stand for the positions of the source *)

\* blk[i] and idx[i] are the block and the place in it where control is when it
\* stands before token i; num[i] is the number of blocks created before the if
\* or while at token i, whose blocks are num[i] + 1, num[i] + 2 and num[i] + 3.

\* Instruction x is the k-th of block b.
In(c, b, k, x) == b \in 1..Len(c) /\ k \in 1..Len(c[b]) /\ c[b][k] = x

\* Nothing leads to the end of a block behind a terminator.
Dead(c, b, k) == k - 1 \in 1..Len(c[b]) /\ k = Len(c[b]) + 1 /\ IsTerminator(c[b][k - 1])

\* From the k-th place of b control goes to m and nowhere else, if it gets there
\* at all; nothing will be appended to b, since x is the insert block.
Goes(c, x, b, k, m) == In(c, b, k, Br(0, m)) \/ (b # x /\ Dead(c, b, k))

HasElse(s, w) == \E j \in 1..Len(s) : s[j].tok = "else" /\ s[j].of = w

\* w is the innermost loop around token i.
Around(s, i, w) ==
  /\ w \in 1..(i - 1) /\ s[w].tok = "while"
  /\ \A j \in Ends(s, w) : i < j
  /\ \A v \in (w + 1)..(i - 1) : s[v].tok = "while" => \E j \in Ends(s, v) : j < i

\* What was generated for token i is at its point, and leads to the point of the
\* token behind it or where the token says.
Does(s, c, x, blk, idx, num, i) ==
  LET t == s[i].tok
      w == s[i].of
      b == blk[i]
      k == idx[i]
      To(d, l) == blk[i + 1] = d /\ idx[i + 1] = l
  IN  /\ b \in 1..Len(c) /\ k \in Nat \ {0} /\ num[i] \in Nat
      /\ t \in {"empty", "block", "endblock"} => To(b, k)
      /\ t = "endblock" => w \in 1..(i - 1) /\ s[w].tok = "block"
      /\ t = "effect" => In(c, b, k, Inst(i)) /\ To(b, k + 1)
      /\ t \in {"return_void", "return_value"} => In(c, b, k, Ret(i)) /\ To(b, k + 1)
      /\ t \in {"break", "continue"} =>
           /\ \E l \in 1..(i - 1) : /\ Around(s, i, l)
                     /\ In(c, b, k, Br(i, IF t = "break" THEN num[l] + 3 ELSE num[l] + 1))
           /\ To(b, k + 1)
      /\ t = "if" => /\ num[i] + 3 \in 1..Len(c)
                     /\ In(c, b, k, CondBr(i, num[i] + 1, num[i] + 2))
                     /\ To(num[i] + 1, 1)
      /\ t = "while" => /\ num[i] + 3 \in 1..Len(c)
                        /\ In(c, b, k, Br(0, num[i] + 1))
                        /\ In(c, num[i] + 1, 1, CondBr(i, num[i] + 2, num[i] + 3))
                        /\ To(num[i] + 2, 1)
      /\ t = "else" => /\ w \in 1..(i - 1) /\ s[w].tok = "if" /\ \A j \in Ends(s, w) : i < j
                       /\ Goes(c, x, b, k, num[w] + 3)
                       /\ To(num[w] + 2, 1)
      /\ t = "endif" => /\ w \in 1..(i - 1) /\ s[w].tok = "if"
                        /\ Goes(c, x, b, k, num[w] + 3)
                        /\ HasElse(s, w) \/ In(c, num[w] + 2, 1, Br(0, num[w] + 3))
                        /\ To(num[w] + 3, 1)
      /\ t = "endwhile" => /\ w \in 1..(i - 1) /\ s[w].tok = "while"
                           /\ Goes(c, x, b, k, num[w] + 1)
                           /\ To(num[w] + 3, 1)

Path(s, c, x, blk, idx, num) ==
  /\ blk[1] = Entry /\ idx[1] = 1
  /\ \A i \in 1..Len(s) : Does(s, c, x, blk, idx, num, i)

\* An instruction that is observed was generated for the token it names.
Traced(s, b, k, x, blk, idx, num) ==
  /\ x.op = "other" => /\ x.at \in 1..Len(s) /\ s[x.at].tok = "effect"
                       /\ blk[x.at] = b /\ idx[x.at] = k
  /\ Len(x.to) = 2 =>
       /\ x.at \in 1..Len(s)
       /\ \/ s[x.at].tok = "if" /\ x.to = <<num[x.at] + 1, num[x.at] + 2>>
          \/ s[x.at].tok = "while" /\ x.to = <<num[x.at] + 2, num[x.at] + 3>>

Origin(s, c, blk, idx, num) ==
  \A b \in 1..Len(c) : \A k \in 1..Len(c[b]) : Traced(s, b, k, c[b][k], blk, idx, num)

\* The handlers of nested statements hold the blocks of their statements.
Holding(stk, num) ==
  /\ \A p, q \in 1..Len(stk) : p < q => stk[p].at < stk[q].at
  /\ \A q \in 1..Len(stk) :
       /\ stk[q].kind = "if" => /\ stk[q].b1 = num[stk[q].at] + 2
                                /\ stk[q].b2 = num[stk[q].at] + 3
       /\ stk[q].kind = "while" => /\ stk[q].b1 = num[stk[q].at] + 1
                                   /\ stk[q].b2 = num[stk[q].at] + 3

\* A statement with blocks has its handler until it ends.
Handled(s, stk) ==
  \A w \in 1..Len(s) : s[w].tok \in {"if", "while"} => HasHandler(stk, w) \/ Ends(s, w) # {}

\* Frames up to n in their else phase have met an else.
Elses(s, stk, n) == \A q \in 1..n : stk[q].phase = "else" => HasElse(s, stk[q].at)

\* Control stands before the next token at the end of the insert block; or, when
\* an if without else is about to close, at the end of its then part.
Current(s, c, x, stk, blk, idx) ==
  LET n == Len(s) + 1
      q == Len(stk)
  IN  /\ blk[n] \in 1..Len(c) /\ idx[n] \in Nat \ {0}
      /\ \/ blk[n] = x /\ idx[n] = Len(c[x]) + 1 /\ Elses(s, stk, q)
         \/ /\ q # 0 /\ stk[q].phase = "else" /\ stk[q].done
            /\ Elses(s, stk, q - 1)
            /\ x = stk[q].b1 /\ c[x] = << >>
            /\ Goes(c, x, blk[n], idx[n], stk[q].b2)

\* The function ends in a return, or nothing gets to its end.
Final(s, c, blk, idx) ==
  LET n == Len(s) + 1
  IN  /\ blk[n] \in 1..Len(c) /\ idx[n] \in Nat \ {0}
      /\ In(c, blk[n], idx[n], Ret(0)) \/ Dead(c, blk[n], idx[n])

Follows(blk, idx, num) ==
  /\ Path(src, code, ip, blk, idx, num)
  /\ Origin(src, code, blk, idx, num)
  /\ Holding(stack, num) /\ Handled(src, stack)
  /\ status = "generating" => Current(src, code, ip, stack, blk, idx)
  /\ status = "emitted" => stack = << >> /\ Final(src, code, blk, idx)

Following ==
  /\ Located /\ Ownership
  /\ status # "error" => \E blk, idx, num : Follows(blk, idx, num)

-----------------------------------------------------------------------------
(* What is recorded stays true while source and code grow *)

\* s2 continues s.
Longer(s, s2) ==
  /\ Len(s) \in Nat /\ Len(s2) \in Nat /\ Len(s) <= Len(s2)
  /\ \A j \in 1..Len(s) : s2[j] = s[j]

\* c2 is c after some handler: blocks only get longer, and only the insert block
\* x or one that was empty does, or becomes the insert block x2.
Grows(c, x, c2, x2) ==
  /\ Len(c) \in Nat /\ Len(c2) \in Nat /\ Len(c) <= Len(c2)
  /\ \A b \in 1..Len(c) :
       /\ Len(c[b]) \in Nat /\ Len(c2[b]) \in Nat /\ Len(c[b]) <= Len(c2[b])
       /\ \A k \in 1..Len(c[b]) : c2[b][k] = c[b][k]
       /\ b # x /\ Len(c[b]) # 0 => c2[b] = c[b] /\ b # x2

LEMMA EndsLonger ==
  ASSUME NEW s, NEW s2, NEW w,
         Longer(s, s2)
  PROVE  /\ Ends(s, w) \subseteq Ends(s2, w)
         /\ \A j \in Ends(s2, w) : j \in 1..Len(s) => j \in Ends(s, w)
         /\ \A j \in Ends(s2, w) : j \in Nat \ {0}
BY DEF Longer, Ends

LEMMA AroundLonger ==
  ASSUME NEW s, NEW s2, NEW i \in 1..Len(s), NEW w,
         Longer(s, s2), Around(s, i, w)
  PROVE  Around(s2, i, w)
<1>1. Len(s) \in Nat /\ i \in Nat /\ i <= Len(s) /\ w \in 1..(i - 1) /\ w \in 1..Len(s)
  BY DEF Longer, Around
<1>2. s2[w] = s[w] /\ \A v \in (w + 1)..(i - 1) : s2[v] = s[v]
  BY <1>1 DEF Longer
<1>3. \A j \in Ends(s2, w) : i < j
  BY <1>1, EndsLonger DEF Around
<1>4. \A v \in (w + 1)..(i - 1) : Ends(s, v) \subseteq Ends(s2, v)
  BY EndsLonger
<1> QED BY <1>1, <1>2, <1>3, <1>4 DEF Around

LEMMA ElseLonger ==
  ASSUME NEW s, NEW s2, NEW w,
         Longer(s, s2), HasElse(s, w)
  PROVE  HasElse(s2, w)
BY DEF HasElse, Longer

LEMMA InGrows ==
  ASSUME NEW c, NEW x, NEW c2, NEW x2, NEW b, NEW k, NEW i,
         Grows(c, x, c2, x2), In(c, b, k, i)
  PROVE  In(c2, b, k, i)
BY DEF In, Grows

LEMMA GoesGrows ==
  ASSUME NEW c, NEW x, NEW c2, NEW x2, NEW b \in 1..Len(c), NEW k, NEW m,
         Grows(c, x, c2, x2), Goes(c, x, b, k, m)
  PROVE  Goes(c2, x2, b, k, m)
<1>1. CASE In(c, b, k, Br(0, m))
  BY <1>1, InGrows DEF Goes
<1>2. CASE b # x /\ Dead(c, b, k)
  <2>1. Len(c[b]) # 0
    BY <1>2 DEF Dead, Grows
  <2>2. c2[b] = c[b] /\ b # x2
    BY <1>2, <2>1 DEF Grows
  <2> QED BY <1>2, <2>2 DEF Goes, Dead
<1> QED BY <1>1, <1>2 DEF Goes

\* The point of a token behind i does not matter for i.
LEMMA DoesGrows ==
  ASSUME NEW s, NEW s2, NEW c, NEW x, NEW c2, NEW x2, NEW blk, NEW idx, NEW num,
         NEW blk2, NEW idx2, NEW num2, NEW i \in 1..Len(s),
         Longer(s, s2), Grows(c, x, c2, x2), Does(s, c, x, blk, idx, num, i),
         \A j \in 1..(Len(s) + 1) : blk2[j] = blk[j] /\ idx2[j] = idx[j],
         \A j \in 1..Len(s) : num2[j] = num[j] /\ num[j] \in Nat
  PROVE  Does(s2, c2, x2, blk2, idx2, num2, i)
<1> DEFINE t == s[i].tok
           w == s[i].of
           b == blk[i]
           k == idx[i]
<1>1. /\ s2[i] = s[i] /\ blk2[i] = b /\ idx2[i] = k /\ num2[i] = num[i]
      /\ blk2[i + 1] = blk[i + 1] /\ idx2[i + 1] = idx[i + 1]
      /\ i \in Nat /\ Len(s) \in Nat
  <2>1. i \in 1..(Len(s) + 1) /\ i + 1 \in 1..(Len(s) + 1)
    BY DEF Longer
  <2> QED BY <2>1 DEF Longer
<1>2. /\ b \in 1..Len(c) /\ b \in 1..Len(c2) /\ k \in Nat \ {0} /\ num[i] \in Nat
      /\ \A d \in 1..Len(c) : d \in 1..Len(c2)
  BY DEF Does, Grows
<1>3. \A l \in 1..(i - 1) : s2[l] = s[l] /\ num2[l] = num[l]
  BY <1>1 DEF Longer
<1>4. \A l, y : In(c, b, l, y) => In(c2, b, l, y)
  BY <1>2, InGrows
<1>5. \A m : Goes(c, x, b, k, m) => Goes(c2, x2, b, k, m)
  BY <1>2, GoesGrows
<1>6. ASSUME t \in {"break", "continue"}
      PROVE  \E l \in 1..(i - 1) :
               /\ Around(s2, i, l)
               /\ In(c2, b, k, Br(i, IF t = "break" THEN num2[l] + 3 ELSE num2[l] + 1))
  <2>1. PICK l \in 1..(i - 1) :
               /\ Around(s, i, l)
               /\ In(c, b, k, Br(i, IF t = "break" THEN num[l] + 3 ELSE num[l] + 1))
    BY <1>6 DEF Does
  <2>2. Around(s2, i, l) /\ num2[l] = num[l]
    BY <1>3, <2>1, AroundLonger
  <2> QED BY <1>4, <2>1, <2>2
<1>7. ASSUME t \in {"endblock", "else", "endif", "endwhile"}
      PROVE  w \in 1..(i - 1) /\ s2[w] = s[w] /\ num2[w] = num[w] /\ w \in 1..Len(s)
  <2>1. w \in 1..(i - 1)
    BY <1>7 DEF Does
  <2> QED BY <1>1, <1>3, <2>1
<1>8. ASSUME t = "else" PROVE \A j \in Ends(s2, w) : i < j
  <2>1. \A j \in Ends(s, w) : i < j
    BY <1>8 DEF Does
  <2> HIDE DEF w
  <2> QED BY <1>1, <2>1, EndsLonger
<1>9. ASSUME t = "endif"
      PROVE  HasElse(s2, w) \/ In(c2, num2[w] + 2, 1, Br(0, num2[w] + 3))
  <2>1. HasElse(s, w) => HasElse(s2, w)
    BY ElseLonger
  <2> QED BY <1>7, <1>9, <2>1, InGrows DEF Does
<1>10. ASSUME t = "while" PROVE In(c2, num[i] + 1, 1, CondBr(i, num[i] + 2, num[i] + 3))
  BY <1>10, InGrows DEF Does
<1> QED
  BY <1>1, <1>2, <1>4, <1>5, <1>6, <1>7, <1>8, <1>9, <1>10, ZenonT(60) DEF Does

\* The points of a source that is n - 1 positions long, and one more.
More(f, n, d) == [i \in 1..n |-> IF i = n THEN d ELSE f[i]]

\* Token t, the n-th, has been met; blk2, idx2 and num2 are blk, idx and num with m for it and
\* with place l of block d for position k behind it.
Extended(s, t, s2, n, k, blk, idx, num, d, l, m, blk2, idx2, num2) ==
  /\ s2 = Append(s, t) /\ n = Len(s) + 1 /\ k = n + 1
  /\ blk2 = More(blk, k, d) /\ idx2 = More(idx, k, l) /\ num2 = More(num, n, m)

\* blk2, idx2 and num2 agree with blk, idx and num on a source of n tokens.
Agree(n, blk, idx, num, blk2, idx2, num2) ==
  /\ \A j \in 1..(n + 1) : blk2[j] = blk[j] /\ idx2[j] = idx[j]
  /\ \A j \in 1..n : num2[j] = num[j]

LEMMA LongerOne ==
  ASSUME NEW s \in Seq(Token_), NEW t \in Token_
  PROVE  Longer(s, Append(s, t)) /\ Longer(s, s)
BY TokensOne DEF Longer

LEMMA PathGrows ==
  ASSUME NEW s, NEW s2, NEW c, NEW x, NEW c2, NEW x2, NEW blk, NEW idx, NEW num,
         NEW blk2, NEW idx2, NEW num2,
         Longer(s, s2), Grows(c, x, c2, x2), Path(s, c, x, blk, idx, num),
         Agree(Len(s), blk, idx, num, blk2, idx2, num2),
         \A i \in 1..Len(s2) : i \in 1..Len(s) \/ Does(s2, c2, x2, blk2, idx2, num2, i)
  PROVE  Path(s2, c2, x2, blk2, idx2, num2)
<1>1. blk2[1] = Entry /\ idx2[1] = 1
  <2>1. 1 \in 1..(Len(s) + 1)
    BY DEF Longer
  <2> QED BY <2>1 DEF Path, Agree
<1>2. ASSUME NEW i \in 1..Len(s) PROVE Does(s2, c2, x2, blk2, idx2, num2, i)
  <2>1. Does(s, c, x, blk, idx, num, i)
    BY DEF Path
  <2>2. \A j \in 1..Len(s) : num[j] \in Nat
    BY DEF Path, Does
  <2> QED BY <2>1, <2>2, DoesGrows DEF Agree
<1> QED BY <1>1, <1>2 DEF Path

LEMMA OriginGrows ==
  ASSUME NEW s, NEW s2, NEW c, NEW x, NEW c2, NEW x2, NEW blk, NEW idx, NEW num,
         NEW blk2, NEW idx2, NEW num2,
         Longer(s, s2), Grows(c, x, c2, x2), Origin(s, c, blk, idx, num),
         Agree(Len(s), blk, idx, num, blk2, idx2, num2),
         \A b \in 1..Len(c2) : \A k \in 1..Len(c2[b]) :
           \/ b \in 1..Len(c) /\ k \in 1..Len(c[b])
           \/ Traced(s2, b, k, c2[b][k], blk2, idx2, num2)
  PROVE  Origin(s2, c2, blk2, idx2, num2)
<1>1. ASSUME NEW b \in 1..Len(c), NEW k \in 1..Len(c[b])
      PROVE  Traced(s2, b, k, c2[b][k], blk2, idx2, num2)
  <2> DEFINE y == c[b][k]
  <2>1. c2[b][k] = y
    BY DEF Grows
  <2>2. Traced(s, b, k, y, blk, idx, num)
    BY DEF Origin
  <2> HIDE DEF y
  <2>3. y.at \in 1..Len(s) => /\ y.at \in 1..Len(s2) /\ s2[y.at] = s[y.at]
                              /\ blk2[y.at] = blk[y.at] /\ idx2[y.at] = idx[y.at]
                              /\ num2[y.at] = num[y.at]
    <3> SUFFICES ASSUME NEW a \in 1..Len(s)
                 PROVE  /\ a \in 1..Len(s2) /\ s2[a] = s[a] /\ a \in 1..(Len(s) + 1)
                        /\ num2[a] = num[a]
      BY DEF Agree
    <3> QED BY DEF Longer, Agree
  <2> QED BY <2>1, <2>2, <2>3 DEF Traced
<1> QED BY <1>1 DEF Origin

\* Branches to one block and returns are not traced.
LEMMA SilentTraced ==
  ASSUME NEW s, NEW b, NEW k, NEW blk, NEW idx, NEW num, NEW at, NEW d
  PROVE  /\ Traced(s, b, k, Br(at, d), blk, idx, num)
         /\ Traced(s, b, k, Ret(at), blk, idx, num)
BY DEF Traced, Br, Ret

-----------------------------------------------------------------------------
(* The handlers on the stack *)

LEMMA HoldingSame ==
  ASSUME NEW stk, NEW r, NEW num, NEW num2,
         Len(r) \in Nat, Len(stk) \in Nat, Len(r) <= Len(stk), Alike(stk, r, Len(r)),
         SameAt(stk, r, Len(r)), Holding(stk, num),
         \A q \in 1..Len(stk) : num2[stk[q].at] = num[stk[q].at]
  PROVE  Holding(r, num2)
<1>1. \A q \in 1..Len(r) : /\ q \in 1..Len(stk)
                           /\ r[q].at = stk[q].at /\ r[q].kind = stk[q].kind
                           /\ r[q].b1 = stk[q].b1 /\ r[q].b2 = stk[q].b2
  BY DEF Alike, SameAt
<1>2. \A q \in 1..Len(r) : num2[r[q].at] = num[stk[q].at]
  BY <1>1
<1>3. ASSUME NEW p \in 1..Len(r), NEW q \in 1..Len(r), p < q PROVE r[p].at < r[q].at
  BY <1>1, <1>3 DEF Holding
<1>4. ASSUME NEW q \in 1..Len(r)
      PROVE  /\ r[q].kind = "if" => /\ r[q].b1 = num2[r[q].at] + 2
                                    /\ r[q].b2 = num2[r[q].at] + 3
             /\ r[q].kind = "while" => /\ r[q].b1 = num2[r[q].at] + 1
                                       /\ r[q].b2 = num2[r[q].at] + 3
  BY <1>1, <1>2 DEF Holding
<1> QED BY <1>3, <1>4 DEF Holding

LEMMA HoldingPush ==
  ASSUME NEW stk, NEW r, NEW n \in Nat, NEW num, NEW num2,
         Len(stk) \in Nat, Len(r) = Len(stk) + 1, Alike(stk, r, Len(stk)),
         SameAt(stk, r, Len(stk)), \A q \in 1..Len(stk) : stk[q].at \in 1..(n - 1),
         Holding(stk, num), r[Len(stk) + 1].at = n,
         \A j \in 1..(n - 1) : num2[j] = num[j],
         r[Len(stk) + 1].kind = "if" => /\ r[Len(stk) + 1].b1 = num2[n] + 2
                                        /\ r[Len(stk) + 1].b2 = num2[n] + 3,
         r[Len(stk) + 1].kind = "while" => /\ r[Len(stk) + 1].b1 = num2[n] + 1
                                           /\ r[Len(stk) + 1].b2 = num2[n] + 3
  PROVE  Holding(r, num2)
<1>1. \A q \in 1..Len(stk) : /\ r[q].at = stk[q].at /\ r[q].kind = stk[q].kind
                             /\ r[q].b1 = stk[q].b1 /\ r[q].b2 = stk[q].b2
                             /\ num2[stk[q].at] = num[stk[q].at] /\ r[q].at < n
  BY DEF Alike, SameAt
<1>2. \A q \in 1..Len(r) : q \in 1..Len(stk) \/ q = Len(stk) + 1
  OBVIOUS
<1>3. ASSUME NEW p \in 1..Len(r), NEW q \in 1..Len(r), p < q PROVE r[p].at < r[q].at
  <2>1. p \in 1..Len(stk)
    BY <1>2, <1>3
  <2> QED BY <1>1, <1>2, <1>3, <2>1 DEF Holding
<1>4. ASSUME NEW q \in 1..Len(r)
      PROVE  /\ r[q].kind = "if" => /\ r[q].b1 = num2[r[q].at] + 2
                                    /\ r[q].b2 = num2[r[q].at] + 3
             /\ r[q].kind = "while" => /\ r[q].b1 = num2[r[q].at] + 1
                                       /\ r[q].b2 = num2[r[q].at] + 3
  <2>1. CASE q \in 1..Len(stk)
    BY <1>1, <2>1, SMTT(30) DEF Holding
  <2>2. CASE q = Len(stk) + 1
    BY <2>2
  <2> QED BY <1>2, <2>1, <2>2
<1> QED BY <1>3, <1>4 DEF Holding

LEMMA HandledSame ==
  ASSUME NEW s \in Seq(Token_), NEW t \in Token_, NEW stk, NEW r,
         t.tok \notin {"if", "while"}, Len(r) = Len(stk), SameAt(stk, r, Len(stk)),
         Handled(s, stk)
  PROVE  Handled(Append(s, t), r) /\ Handled(s, r)
<1>1. ASSUME NEW w PROVE HasHandler(stk, w) => HasHandler(r, w)
  BY DEF HasHandler, SameAt
<1>2. ASSUME NEW w \in 1..Len(Append(s, t)), Append(s, t)[w].tok \in {"if", "while"}
      PROVE  HasHandler(r, w) \/ Ends(Append(s, t), w) # {}
  <2>1. w \in 1..Len(s) /\ s[w].tok \in {"if", "while"}
    BY <1>2, LastOrEarlier
  <2>2. Ends(s, w) \subseteq Ends(Append(s, t), w)
    BY LongerOne, EndsLonger
  <2> QED BY <1>1, <2>1, <2>2 DEF Handled
<1> QED BY <1>1, <1>2 DEF Handled

LEMMA HandledPush ==
  ASSUME NEW s \in Seq(Token_), NEW t \in Token_,
         NEW stk, NEW r, Len(stk) \in Nat, Len(r) = Len(stk) + 1,
         SameAt(stk, r, Len(stk)), r[Len(stk) + 1].at = Len(s) + 1, Handled(s, stk)
  PROVE  Handled(Append(s, t), r)
<1>1. ASSUME NEW w PROVE HasHandler(stk, w) => HasHandler(r, w)
  BY DEF HasHandler, SameAt
<1>2. HasHandler(r, Len(s) + 1)
  BY DEF HasHandler
<1>3. ASSUME NEW w \in 1..Len(Append(s, t)), Append(s, t)[w].tok \in {"if", "while"}
      PROVE  HasHandler(r, w) \/ Ends(Append(s, t), w) # {}
  <2>1. Ends(s, w) \subseteq Ends(Append(s, t), w)
    BY LongerOne, EndsLonger
  <2> QED BY <1>1, <1>2, <1>3, <2>1, LastOrEarlier DEF Handled
<1> QED BY <1>3 DEF Handled

LEMMA HandledPop ==
  ASSUME NEW s \in Seq(Token_), NEW t \in Token_,
         NEW stk, NEW r, Len(r) \in Nat, Len(stk) = Len(r) + 1, SameAt(stk, r, Len(r)),
         t.tok \in EndTokens, t.of = stk[Len(stk)].at, Handled(s, stk)
  PROVE  Handled(Append(s, t), r)
<1>1. ASSUME NEW w, w # t.of PROVE HasHandler(stk, w) => HasHandler(r, w)
  BY <1>1 DEF HasHandler, SameAt
<1>2. Ends(Append(s, t), t.of) # {}
  BY EndsOne, ZenonT(60)
<1>3. ASSUME NEW w \in 1..Len(Append(s, t)), Append(s, t)[w].tok \in {"if", "while"}, w # t.of
      PROVE  HasHandler(r, w) \/ Ends(Append(s, t), w) # {}
  <2>1. w \in 1..Len(s) /\ s[w].tok \in {"if", "while"}
    BY <1>3, LastOrEarlier DEF EndTokens
  <2>2. Ends(s, w) \subseteq Ends(Append(s, t), w)
    BY LongerOne, EndsLonger
  <2> QED BY <1>1, <1>3, <2>1, <2>2 DEF Handled
<1> QED BY <1>2, <1>3 DEF Handled

LEMMA ElsesSame ==
  ASSUME NEW s, NEW s2, NEW stk, NEW r, NEW n \in Nat,
         Longer(s, s2), SameAt(stk, r, n), \A q \in 1..n : r[q].phase = stk[q].phase,
         Elses(s, stk, n)
  PROVE  Elses(s2, r, n)
BY ElseLonger DEF Elses, SameAt
-----------------------------------------------------------------------------
(* What handlers do to the code *)

LEMMA CodeLengths ==
  ASSUME NEW c, CodeOK(c)
  PROVE  Len(c) \in Nat /\ \A b \in 1..Len(c) : Len(c[b]) \in Nat
<1>1. c \in Seq(Seq(Instr))
  BY DEF CodeOK
<1>2. \A b \in 1..Len(c) : c[b] \in Seq(Instr)
  BY <1>1, ElementOfSeq
<1> QED BY <1>1, <1>2, LenProperties

LEMMA SameGrows ==
  ASSUME NEW c, NEW x,
         CodeOK(c)
  PROVE  Grows(c, x, c, x)
BY CodeLengths DEF Grows

\* Some instruction of c2 was not there in c.
Born(c, c2, b, k) == ~(b \in 1..Len(c) /\ k \in 1..Len(c[b]))

LEMMA EmitGrows ==
  ASSUME NEW c, NEW b \in 1..Len(c), NEW i, CodeOK(c), InstrOK(i, Len(c))
  PROVE  LET e == Emit(c, b, i)
         IN  /\ CodeOK(e) /\ Len(e) = Len(c) /\ Grows(c, b, e, b)
             /\ In(e, b, Len(c[b]) + 1, i) /\ Len(e[b]) = Len(c[b]) + 1
<1> DEFINE e == Emit(c, b, i)
<1>1. /\ CodeOK(e) /\ Len(e) = Len(c)
      /\ e[b] = Append(c[b], i)
      /\ \A d \in 1..Len(c) : d # b => e[d] = c[d]
  BY EmitAppends
<1>2. Len(c) \in Nat /\ \A d \in 1..Len(c) : Len(c[d]) \in Nat
  BY CodeLengths
<1>3. c[b] \in Seq(Instr) /\ i \in Instr
  BY ElementOfSeq DEF CodeOK, InstrOK
<1>4. /\ Len(e[b]) = Len(c[b]) + 1
      /\ \A k \in 1..Len(c[b]) : e[b][k] = c[b][k]
      /\ e[b][Len(c[b]) + 1] = i
  BY <1>1, <1>3, AppendProperties
<1> HIDE DEF e
<1>5. Grows(c, b, e, b)
  <2>1. ASSUME NEW d \in 1..Len(c)
        PROVE  /\ Len(c[d]) \in Nat /\ Len(e[d]) \in Nat /\ Len(c[d]) <= Len(e[d])
               /\ \A k \in 1..Len(c[d]) : e[d][k] = c[d][k]
               /\ d # b /\ Len(c[d]) # 0 => e[d] = c[d] /\ d # b
    BY <1>1, <1>2, <1>4
  <2> QED BY <1>1, <1>2, <2>1 DEF Grows
<1>6. In(e, b, Len(c[b]) + 1, i)
  BY <1>1, <1>2, <1>4 DEF In
<1> QED BY <1>1, <1>4, <1>5, <1>6 DEF e

LEMMA EmitBorn ==
  ASSUME NEW c, NEW b \in 1..Len(c), NEW i, NEW d, NEW k, CodeOK(c), InstrOK(i, Len(c)),
         d \in 1..Len(Emit(c, b, i)), k \in 1..Len(Emit(c, b, i)[d]),
         Born(c, Emit(c, b, i), d, k)
  PROVE  d = b /\ k = Len(c[b]) + 1 /\ Emit(c, b, i)[d][k] = i
<1> DEFINE e == Emit(c, b, i)
<1>1. Len(e) = Len(c) /\ \A a \in 1..Len(c) : a # b => e[a] = c[a]
  BY EmitAppends
<1>2. Len(c[b]) \in Nat /\ Len(e[b]) = Len(c[b]) + 1 /\ In(e, b, Len(c[b]) + 1, i)
  BY CodeLengths, EmitGrows
<1> HIDE DEF e
<1>3. d \in 1..Len(e) /\ k \in 1..Len(e[d]) /\ Born(c, e, d, k)
  BY DEF e
<1>4. d = b
  BY <1>1, <1>3 DEF Born
<1>5. k \in 1..(Len(c[b]) + 1) /\ k \notin 1..Len(c[b])
  BY <1>1, <1>2, <1>3, <1>4 DEF Born
<1> QED BY <1>2, <1>4, <1>5 DEF e, In

-----------------------------------------------------------------------------
(* One more token *)

\* Control is at the end of the insert block.
Ready(blk, idx) ==
  /\ blk[Len(src) + 1] = ip /\ idx[Len(src) + 1] = Len(code[ip]) + 1
  /\ Elses(src, stack, Len(stack))

LEMMA IsReady ==
  ASSUME NEW blk, NEW idx, NEW num,
         Following, Follows(blk, idx, num), status = "generating",
         stack # << >> => Top.phase # "else" \/ ~Top.done
  PROVE  Ready(blk, idx)
<1>1. stack = << >> <=> Len(stack) = 0
  BY EmptySeq DEF Following, Located, Loops, WellFormed
<1> QED BY <1>1 DEF Follows, Current, Ready, Top

\* A handler that has met token t and leaves the insert block at its end.
LEMMA StepFollows ==
  ASSUME NEW blk, NEW idx, NEW num, NEW t \in Token_, NEW n, NEW k, NEW l, NEW m,
         NEW blk2, NEW idx2, NEW num2,
         Following, WellFormed', status = "generating", status' = "generating",
         Follows(blk, idx, num), Grows(code, ip, code', ip'),
         l = Len(code'[ip']) + 1,
         Extended(src, t, src', n, k, blk, idx, num, ip', l, m, blk2, idx2, num2),
         Does(src', code', ip', blk2, idx2, num2, n),
         \A b \in 1..Len(code') : \A p \in 1..Len(code'[b]) :
           Born(code, code', b, p) => Traced(src', b, p, code'[b][p], blk2, idx2, num2),
         Holding(stack', num2), Handled(src', stack'), Elses(src', stack', Len(stack'))
  PROVE  \E a, b, c : Follows(a, b, c)'
<1>1. src \in Seq(Token_) /\ n = Len(src) + 1 /\ k = n + 1 /\ src' = Append(src, t)
  BY DEF Following, Located, Loops, WellFormed, Extended
<1>2. Longer(src, src') /\ Len(src) \in Nat /\ Len(src') = n /\ n \in Nat
  BY <1>1, LongerOne, TokensOne DEF Longer
<1>3. /\ blk2[k] = ip' /\ idx2[k] = l
      /\ \A i \in 1..n : blk2[i] = blk[i] /\ idx2[i] = idx[i]
      /\ \A i \in 1..Len(src) : num2[i] = num[i]
  <2>1. k \in Nat \ {0} /\ k - 1 = n /\ n \in Nat \ {0} /\ n - 1 = Len(src)
    BY <1>1, <1>2
  <2>2. blk2 = More(blk, k, ip') /\ idx2 = More(idx, k, l) /\ num2 = More(num, n, m)
    BY DEF Extended
  <2> QED BY <2>1, <2>2 DEF More
<1>4. Agree(Len(src), blk, idx, num, blk2, idx2, num2)
  BY <1>1, <1>3 DEF Agree
<1>5. Path(src', code', ip', blk2, idx2, num2)
  <2>1. \A i \in 1..Len(src') : i \in 1..Len(src) \/ i = n
    BY <1>1, <1>2
  <2>2. Path(src, code, ip, blk, idx, num)
    BY DEF Follows
  <2>3. \A i \in 1..Len(src') :
          i \in 1..Len(src) \/ Does(src', code', ip', blk2, idx2, num2, i)
    BY <2>1
  <2> QED BY <1>2, <1>4, <2>2, <2>3, PathGrows
<1>6. Origin(src', code', blk2, idx2, num2)
  BY <1>2, <1>4, OriginGrows DEF Follows, Born
<1>7. Current(src', code', ip', stack', blk2, idx2)
  <2>1. ip' \in 1..Len(code') /\ CodeOK(code')
    BY DEF WellFormed
  <2>2. Len(code'[ip']) \in Nat
    BY <2>1, CodeLengths
  <2> QED BY <1>1, <1>2, <1>3, <2>1, <2>2 DEF Current
<1> QED BY <1>5, <1>6, <1>7 DEF Follows

-----------------------------------------------------------------------------
(* What handlers do to the stack *)

LEMMA Basics ==
  ASSUME Following
  PROVE  /\ WellFormed /\ src \in Seq(Token_) /\ stack \in Seq(Frame) /\ CodeOK(code)
         /\ Len(src) \in Nat /\ Len(stack) \in Nat /\ Len(code) \in Nat
         /\ ip \in 1..Len(code) /\ Len(code[ip]) \in Nat
         /\ \A q \in 1..Len(stack) : /\ stack[q].at \in 1..Len(src)
                                     /\ src[stack[q].at].tok = stack[q].kind
                                     /\ Ends(src, stack[q].at) = {}
<1>1. WellFormed /\ Framed(src, stack)
  BY DEF Following, Located, Loops
<1>2. src \in Seq(Token_) /\ stack \in Seq(Frame) /\ CodeOK(code) /\ ip \in 1..Len(code)
  BY <1>1 DEF WellFormed
<1> QED BY <1>1, <1>2, Lengths, CodeLengths DEF Framed, Open

LEMMA ReturnSame ==
  ASSUME NEW stk \in Seq(Frame)
  PROVE  /\ Len(Return(stk)) = Len(stk) /\ Len(stk) \in Nat
         /\ Alike(stk, Return(stk), Len(stk)) /\ SameAt(stk, Return(stk), Len(stk))
         /\ \A q \in 1..Len(stk) : Return(stk)[q].phase = stk[q].phase
BY ReturnMarks, LenProperties DEF Alike, SameAt

LEMMA PopSame ==
  ASSUME Following, stack # << >>
  PROVE  LET r == Return(Pop)
         IN  /\ Len(r) \in Nat /\ Len(stack) = Len(r) + 1
             /\ Alike(stack, r, Len(r)) /\ SameAt(stack, r, Len(r))
             /\ \A q \in 1..Len(r) : r[q].phase = stack[q].phase
<1>1. WellFormed /\ stack \in Seq(Frame)
  BY Basics
<1>2. /\ Pop \in Seq(Frame) /\ Len(Pop) = Len(stack) - 1 /\ Len(stack) \in Nat
      /\ \A q \in 1..(Len(stack) - 1) : Pop[q] = stack[q]
  BY <1>1, PopRemoves
<1>3. Len(Return(Pop)) = Len(Pop) /\ \A q \in 1..Len(Pop) : Return(Pop)[q].phase = Pop[q].phase
  BY <1>2, ReturnSame
<1> QED BY <1>1, <1>2, <1>3, PopAlike, PopSameAt

\* A statement has been generated.
LEMMA StackReturned ==
  ASSUME NEW num, NEW t \in Token_, NEW num2,
         Following, Holding(stack, num), Handled(src, stack),
         Elses(src, stack, Len(stack)), t.tok \notin {"if", "while"},
         src' = Append(src, t), stack' = Return(stack),
         \A j \in 1..Len(src) : num2[j] = num[j]
  PROVE  /\ Holding(stack', num2) /\ Handled(src', stack')
         /\ Elses(src', stack', Len(stack'))
<1>1. /\ Len(stack') = Len(stack) /\ Len(stack) \in Nat
      /\ Alike(stack, stack', Len(stack)) /\ SameAt(stack, stack', Len(stack))
      /\ \A q \in 1..Len(stack) : stack'[q].phase = stack[q].phase
  BY Basics, ReturnSame
<1>2. Holding(stack', num2)
  <2>1. \A q \in 1..Len(stack) : num2[stack[q].at] = num[stack[q].at]
    BY Basics
  <2> QED BY <1>1, <2>1, HoldingSame
<1>3. Handled(src', stack')
  BY <1>1, Basics, HandledSame
<1>4. Longer(src, src')
  BY Basics, LongerOne
<1>5. Elses(src', stack', Len(stack'))
  BY <1>1, <1>4, ElsesSame
<1> QED BY <1>2, <1>3, <1>5

\* A handler closes.
LEMMA StackPopped ==
  ASSUME NEW num, NEW t \in Token_, NEW num2,
         Following, stack # << >>, Holding(stack, num), Handled(src, stack),
         Elses(src, stack, Len(stack) - 1), t.tok \in EndTokens, t.of = Top.at,
         src' = Append(src, t), stack' = Return(Pop),
         \A j \in 1..Len(src) : num2[j] = num[j]
  PROVE  /\ Holding(stack', num2) /\ Handled(src', stack')
         /\ Elses(src', stack', Len(stack'))
<1>1. /\ Len(stack') \in Nat /\ Len(stack) = Len(stack') + 1
      /\ Alike(stack, stack', Len(stack')) /\ SameAt(stack, stack', Len(stack'))
      /\ \A q \in 1..Len(stack') : stack'[q].phase = stack[q].phase
  BY PopSame
<1>2. Holding(stack', num2)
  <2>1. \A q \in 1..Len(stack) : num2[stack[q].at] = num[stack[q].at]
    BY Basics
  <2>2. Len(stack') \in Nat /\ Len(stack) \in Nat /\ Len(stack') <= Len(stack)
    BY <1>1
  <2> QED BY <1>1, <2>1, <2>2, HoldingSame
<1>3. Handled(src', stack')
  BY <1>1, Basics, HandledPop DEF Top
<1>4. Longer(src, src')
  BY Basics, LongerOne
<1>5. Elses(src', stack', Len(stack'))
  <2>1. Len(stack') = Len(stack) - 1
    BY <1>1
  <2> QED BY <1>1, <1>4, <2>1, ElsesSame
<1> QED BY <1>2, <1>3, <1>5

\* A handler opens.
LEMMA StackPushed ==
  ASSUME NEW num, NEW t \in Token_, NEW n, NEW f \in Frame, NEW num2,
         Following, Holding(stack, num), Handled(src, stack),
         Elses(src, stack, Len(stack)), src' = Append(src, t), n = Len(src) + 1,
         f.at = n, f.phase # "else", stack' = Append(stack, f),
         \A j \in 1..Len(src) : num2[j] = num[j],
         f.kind = "if" => f.b1 = num2[n] + 2 /\ f.b2 = num2[n] + 3,
         f.kind = "while" => f.b1 = num2[n] + 1 /\ f.b2 = num2[n] + 3
  PROVE  /\ Holding(stack', num2) /\ Handled(src', stack')
         /\ Elses(src', stack', Len(stack'))
<1>1. /\ Len(stack) \in Nat /\ Len(stack') = Len(stack) + 1
      /\ stack'[Len(stack) + 1] = f
      /\ SameAt(stack, stack', Len(stack)) /\ Alike(stack, stack', Len(stack))
      /\ \A q \in 1..Len(stack) : stack'[q] = stack[q]
  <2>1. /\ Len(stack') = Len(stack) + 1 /\ stack'[Len(stack) + 1] = f
        /\ \A q \in 1..Len(stack) : stack'[q] = stack[q]
    BY Basics, AppendProperties
  <2> QED BY <2>1, Basics DEF SameAt, Alike
<1>2. Holding(stack', num2)
  <2>1. /\ n \in Nat /\ Len(stack) \in Nat
        /\ \A q \in 1..Len(stack) : stack[q].at \in 1..(n - 1)
        /\ \A j \in 1..(n - 1) : num2[j] = num[j]
    BY Basics
  <2>2. /\ stack'[Len(stack) + 1].at = n
        /\ stack'[Len(stack) + 1].kind = "if" => /\ stack'[Len(stack) + 1].b1 = num2[n] + 2
                                                 /\ stack'[Len(stack) + 1].b2 = num2[n] + 3
        /\ stack'[Len(stack) + 1].kind = "while" => /\ stack'[Len(stack) + 1].b1 = num2[n] + 1
                                                    /\ stack'[Len(stack) + 1].b2 = num2[n] + 3
    BY <1>1
  <2>3. Alike(stack, stack', Len(stack)) /\ SameAt(stack, stack', Len(stack))
    BY <1>1
  <2>4. Len(stack') = Len(stack) + 1
    BY <1>1
  <2> QED BY <2>1, <2>2, <2>3, <2>4, HoldingPush
<1>3. Handled(src', stack')
  BY <1>1, Basics, HandledPush
<1>4. Longer(src, src')
  BY Basics, LongerOne
<1>5. Elses(src', stack', Len(stack'))
  <2>1. Elses(src', stack', Len(stack))
    BY <1>1, <1>4, ElsesSame
  <2> QED BY <1>1, <2>1 DEF Elses
<1> QED BY <1>2, <1>3, <1>5

-----------------------------------------------------------------------------
(* Statements that stay in the insert block *)

LEMMA Before ==
  ASSUME NEW blk, NEW idx, NEW num, NEW t \in Token_, NEW n, NEW k, NEW m, NEW d, NEW l,
         NEW blk2, NEW idx2, NEW num2, NEW j \in 1..Len(src),
         Following, Extended(src, t, src', n, k, blk, idx, num, d, l, m, blk2, idx2, num2)
  PROVE  src'[j] = src[j] /\ num2[j] = num[j]
<1>1. Len(src) \in Nat /\ n = Len(src) + 1 /\ j \in 1..n /\ j # n
  BY Basics DEF Extended
<1>2. src'[j] = src[j]
  BY Basics, TokensOne DEF Extended
<1> QED BY <1>1, <1>2 DEF Extended, More

LEMMA Points ==
  ASSUME NEW blk, NEW idx, NEW num, NEW t \in Token_, NEW n, NEW k, NEW m, NEW d, NEW l,
         NEW blk2, NEW idx2, NEW num2,
         Following, Extended(src, t, src', n, k, blk, idx, num, d, l, m, blk2, idx2, num2)
  PROVE  /\ n \in Nat \ {0} /\ n = Len(src) + 1 /\ Len(src') = n /\ n \in 1..Len(src')
         /\ src'[n] = t /\ blk2[n] = blk[n] /\ idx2[n] = idx[n] /\ num2[n] = m
         /\ k = n + 1 /\ blk2[k] = d /\ idx2[k] = l
<1>1. /\ n \in Nat \ {0} /\ n = Len(src) + 1 /\ k \in Nat \ {0} /\ n \in 1..(k - 1)
      /\ k = n + 1
  BY Basics DEF Extended
<1>2. Len(src') = n /\ src'[n] = t
  BY <1>1, Basics, TokensOne DEF Extended
<1>3. blk2[k] = d /\ blk2[n] = blk[n]
  BY <1>1 DEF Extended, More
<1>4. idx2[k] = l /\ idx2[n] = idx[n]
  BY <1>1 DEF Extended, More
<1>5. num2[n] = m
  BY <1>1 DEF Extended, More
<1> QED BY <1>1, <1>2, <1>3, <1>4, <1>5

\* The instruction of a statement is appended to the insert block.
LEMMA EmitFollows ==
  ASSUME NEW blk, NEW idx, NEW num, NEW t \in Token_, NEW x, NEW n, NEW k, NEW p, NEW l,
         NEW blk2, NEW idx2, NEW num2,
         Following, WellFormed', status = "generating", status' = "generating",
         Follows(blk, idx, num), Ready(blk, idx),
         t.tok \notin {"if", "while"},
         InstrOK(x, Len(code)), code' = Emit(code, ip, x), ip' = ip,
         stack' = Return(stack), p = Len(code[ip]) + 1, l = p + 1,
         Extended(src, t, src', n, k, blk, idx, num, ip, l, 0, blk2, idx2, num2),
         In(code', ip, p, x) => Does(src', code', ip', blk2, idx2, num2, n),
         Traced(src', ip, p, x, blk2, idx2, num2)
  PROVE  \E a, b, c : Follows(a, b, c)'
<1>0. CodeOK(code) /\ ip \in 1..Len(code) /\ Len(code[ip]) \in Nat
  BY Basics
<1>1. Grows(code, ip, code', ip') /\ In(code', ip, p, x) /\ Len(code'[ip]) = p
  <2>1. LET e == Emit(code, ip, x)
        IN  /\ CodeOK(e) /\ Len(e) = Len(code) /\ Grows(code, ip, e, ip)
            /\ In(e, ip, Len(code[ip]) + 1, x) /\ Len(e[ip]) = Len(code[ip]) + 1
    BY <1>0, EmitGrows
  <2> QED BY <2>1
<1>2. ASSUME NEW j \in 1..Len(src) PROVE num2[j] = num[j]
  <2>1. num2 = More(num, n, 0) /\ n = Len(src) + 1
    BY DEF Extended
  <2>2. Len(src) \in Nat
    BY Basics
  <2>3. j \in 1..n /\ j # n
    BY <2>1, <2>2
  <2> QED BY <2>1, <2>3 DEF More
<1>3. Holding(stack', num2) /\ Handled(src', stack') /\ Elses(src', stack', Len(stack'))
  <2>1. Holding(stack, num) /\ Handled(src, stack) /\ Elses(src, stack, Len(stack))
    BY DEF Follows, Ready
  <2>2. src' = Append(src, t)
    BY DEF Extended
  <2> QED BY <1>2, <2>1, <2>2, StackReturned, Zenon
<1>4. ASSUME NEW b \in 1..Len(code'), NEW q \in 1..Len(code'[b]), Born(code, code', b, q)
      PROVE  Traced(src', b, q, code'[b][q], blk2, idx2, num2)
  <2>1. /\ b \in 1..Len(Emit(code, ip, x)) /\ q \in 1..Len(Emit(code, ip, x)[b])
        /\ Born(code, Emit(code, ip, x), b, q)
    BY <1>4
  <2>2. b = ip /\ q = Len(code[ip]) + 1 /\ Emit(code, ip, x)[b][q] = x
    BY <1>0, <2>1, EmitBorn, Zenon
  <2> QED BY <2>2
<1>5. l = Len(code'[ip']) + 1
  BY <1>1
<1> QED BY <1>1, <1>3, <1>4, <1>5, StepFollows

\* A statement without instructions, or the brace of a block.
LEMMA QuietFollows ==
  ASSUME NEW blk, NEW idx, NEW num, NEW t \in Token_, NEW n, NEW k, NEW p,
         NEW blk2, NEW idx2, NEW num2,
         Following, WellFormed', status = "generating", status' = "generating",
         Follows(blk, idx, num), Ready(blk, idx),
         t.tok \in {"empty", "block", "endblock"},
         t.tok = "endblock" => t.of \in 1..Len(src) /\ src[t.of].tok = "block",
         code' = code, ip' = ip, p = Len(code[ip]) + 1,
         Extended(src, t, src', n, k, blk, idx, num, ip, p, 0, blk2, idx2, num2),
         Holding(stack', num2), Handled(src', stack'), Elses(src', stack', Len(stack'))
  PROVE  \E a, b, c : Follows(a, b, c)'
<1>1. Grows(code, ip, code', ip')
  BY Basics, SameGrows
<1>2. /\ src'[n] = t /\ n = Len(src) + 1 /\ k = n + 1
      /\ blk2[n] = blk[n] /\ idx2[n] = idx[n] /\ num2[n] = 0
      /\ blk2[k] = ip /\ idx2[k] = p
  BY Points
<1>3. Does(src', code', ip', blk2, idx2, num2, n)
  <2>1. t.tok = "endblock" => t.of \in 1..(n - 1) /\ src'[t.of].tok = "block"
    <3>1. Len(src) = n - 1
      BY <1>2, Basics
    <3>2. \A j \in 1..Len(src) : src'[j] = src[j]
      BY Before
    <3> QED BY <3>1, <3>2
  <2> QED BY <1>2, <2>1, Basics DEF Does, Ready
<1>4. \A b \in 1..Len(code') : \A l \in 1..Len(code'[b]) : ~Born(code, code', b, l)
  BY DEF Born
<1> QED BY <1>1, <1>3, <1>4, StepFollows

LEMMA IsToken ==
  ASSUME NEW tok, NEW of \in Nat,
         tok \in LeafTokens \cup {"block", "endblock", "if", "else", "endif", "while", "endwhile"}
  PROVE  Token(tok, of) \in Token_ /\ Token(tok, of).tok = tok /\ Token(tok, of).of = of
BY DEF Token, Token_

\* An effect or a return.
LEMMA SimpleFollows ==
  ASSUME NEW blk, NEW idx, NEW num, NEW tok,
         Following, WellFormed', Follows(blk, idx, num), Leaf(tok),
         stack' = Return(stack), status' = status,
         \/ tok = "effect" /\ code' = Emit(code, ip, Inst(Here))
         \/ tok \in {"return_void", "return_value"} /\ code' = Emit(code, ip, Ret(Here))
  PROVE  \E a, b, c : Follows(a, b, c)'
<1>1. /\ status = "generating" /\ ip' = ip /\ src' = Append(src, Token(tok, 0))
      /\ stack # << >> => ~Top.done
  BY DEF Leaf, AwaitsStmt
<1>2. PICK t \in Token_ : t = Token(tok, 0) /\ t.tok = tok /\ t.of = 0
  BY IsToken DEF LeafTokens
<1>3. PICK n : n = Len(src) + 1
  OBVIOUS
<1>4. PICK k : k = n + 1
  OBVIOUS
<1>5. PICK p : p = Len(code[ip]) + 1
  OBVIOUS
<1>6. Ready(blk, idx)
  BY <1>1, IsReady
<1> PICK l : l = p + 1
  OBVIOUS
<1>7. PICK blk2, idx2, num2 :
        Extended(src, t, src', n, k, blk, idx, num, ip, l, 0, blk2, idx2, num2)
  BY <1>1, <1>2, <1>3, <1>4 DEF Extended
<1>8. PICK x : /\ code' = Emit(code, ip, x) /\ InstrOK(x, Len(code))
               /\ x.at = n /\ (tok = "effect" => x = Inst(n)) /\ (tok # "effect" => x = Ret(n))
  <2>1. n = Here /\ n \in Nat /\ Len(code) \in Nat
    BY <1>3, Basics DEF Here
  <2>2. InstrOK(Inst(n), Len(code)) /\ InstrOK(Ret(n), Len(code))
    BY <2>1, Instructions
  <2>3. Inst(n).at = n /\ Ret(n).at = n
    BY DEF Inst, Ret
  <2>4. CASE tok = "effect"
    BY <2>1, <2>2, <2>3, <2>4
  <2>5. CASE tok # "effect"
    BY <2>1, <2>2, <2>3, <2>5
  <2> QED BY <2>4, <2>5
<1>9. /\ n \in Nat \ {0} /\ n \in 1..Len(src') /\ src'[n] = t
      /\ blk2[n] = blk[n] /\ idx2[n] = idx[n] /\ num2[n] = 0
      /\ k = n + 1 /\ blk2[k] = ip /\ idx2[k] = l
  BY <1>7, Points
<1>10. blk[n] = ip /\ idx[n] = p
  BY <1>3, <1>5, <1>6 DEF Ready
<1>11. ASSUME In(code', ip, p, x) PROVE Does(src', code', ip', blk2, idx2, num2, n)
  <2>1. ip \in 1..Len(code') /\ p \in Nat \ {0}
    BY <1>5, <1>11, Basics DEF In
  <2> QED BY <1>2, <1>8, <1>9, <1>10, <1>11, <2>1 DEF Does
<1>12. Traced(src', ip, p, x, blk2, idx2, num2)
  <2>1. CASE x = Inst(n)
    <3>1. x.at = n /\ x.to = << >> /\ tok = "effect"
      BY <1>8, <2>1 DEF Inst, Ret
    <3> QED BY <1>2, <1>9, <1>10, <3>1 DEF Traced
  <2>2. CASE x = Ret(n)
    BY <2>2, SilentTraced
  <2> QED BY <1>8, <2>1, <2>2
<1>13. t.tok \notin {"if", "while"}
  BY <1>2
<1> QED
  BY <1>1, <1>5, <1>6, <1>7, <1>8, <1>11, <1>12, <1>13, EmitFollows, Zenon

-----------------------------------------------------------------------------
(* break and continue *)

\* A set of numbers has a least one.
LEMMA Least ==
  ASSUME NEW T, T \in SUBSET Nat, T # {}
  PROVE  \E n \in T : \A k \in T : n <= k
<1> DEFINE Less == {p \in Nat \X Nat : p[1] < p[2]}
<1>1. IsWellFoundedOn(OpToRel(<, Nat), Nat)
  BY NatLessThanWellFounded
<1>2. Less = OpToRel(<, Nat)
  BY Zenon DEF OpToRel
<1>3. IsWellFoundedOn(Less, Nat)
  BY <1>1, <1>2, Zenon
<1> HIDE DEF Less
<1>4. PICK x \in T : \A y \in T : ~(<<y, x>> \in Less)
  BY <1>3, WFMin, Zenon
<1>5. \A y \in T : ~(y < x)
  BY <1>4 DEF Less
<1>6. x \in Nat /\ \A y \in T : y \in Nat
  BY <1>4
<1> QED BY <1>4, <1>5, <1>6

\* The last entry of _nested_blocks belongs to the innermost active loop.
LEMMA Innermost ==
  ASSUME Following, loops # << >>
  PROVE  \E q \in 1..Len(stack) :
           /\ stack[q].kind = "while" /\ loops[Len(loops)] = <<stack[q].b1, stack[q].b2>>
           /\ \A r \in (q + 1)..Len(stack) : stack[r].kind # "while"
<1>1. Loops /\ Len(stack) \in Nat
  BY Basics DEF Following, Located
<1> DEFINE W == While(stack, Len(stack))
           T == {d \in 0..Len(stack) : Len(stack) - d \in W}
<1>2. PICK i \in 1..Len(stack) : stack[i].kind = "while"
  BY <1>1, LoopsOpen
<1>3. T \in SUBSET Nat /\ T # {}
  <2>1. Len(stack) - i \in 0..Len(stack) /\ Len(stack) - (Len(stack) - i) = i
    BY <1>1, <1>2
  <2>2. i \in W
    BY <1>2 DEF While
  <2>3. Len(stack) - i \in T
    BY <2>1, <2>2
  <2>4. \A d \in T : d \in Nat
    BY <1>1
  <2> HIDE DEF T
  <2> QED BY <2>3, <2>4
<1>4. PICK d \in T : \A k \in T : d <= k
  BY <1>3, Least
<1>5. PICK q : q = Len(stack) - d
  OBVIOUS
<1>6. q \in W /\ q \in 1..Len(stack)
  BY <1>4, <1>5 DEF While
<1>7. ASSUME NEW r \in (q + 1)..Len(stack) PROVE stack[r].kind # "while"
  <2> SUFFICES ASSUME stack[r].kind = "while" PROVE FALSE
    OBVIOUS
  <2>1. r \in Nat /\ q \in Nat /\ d \in Nat /\ r <= Len(stack) /\ q < r
    BY <1>1, <1>4, <1>6
  <2>2. Len(stack) - r \in 0..Len(stack) /\ Len(stack) - (Len(stack) - r) = r /\ r \in 1..Len(stack)
    BY <1>1, <1>6, <2>1
  <2>3. r \in W
    BY <2>2 DEF While
  <2>4. Len(stack) - r \in T
    BY <2>2, <2>3
  <2>5. d <= Len(stack) - r
    BY <1>4, <2>4
  <2> QED BY <1>1, <1>5, <2>1, <2>5
<1>8. While(stack, q) = W
  <2>1. \A r \in 1..Len(stack) : stack[r].kind = "while" => r \in 1..q
    BY <1>1, <1>6, <1>7
  <2>2. \A r \in 1..q : r \in 1..Len(stack)
    BY <1>1, <1>6
  <2> QED BY <2>1, <2>2 DEF While
<1>9. loops[Len(loops)] = <<stack[q].b1, stack[q].b2>>
  BY <1>1, <1>6, <1>8 DEF Loops, Mirrors
<1> QED BY <1>6, <1>7, <1>9 DEF While

\* The innermost active loop is the innermost loop around the next token.
LEMMA AroundTop ==
  ASSUME NEW num, NEW q \in 1..Len(stack), NEW t \in Token_, NEW n,
         Following, Holding(stack, num), stack[q].kind = "while",
         \A r \in (q + 1)..Len(stack) : stack[r].kind # "while",
         src' = Append(src, t), t.tok \notin EndTokens, n = Len(src) + 1
  PROVE  Around(src', n, stack[q].at)
<1> DEFINE w == stack[q].at
<1>1. /\ w \in 1..Len(src) /\ src[w].tok = "while" /\ Ends(src, w) = {}
      /\ Len(src) \in Nat /\ Len(stack) \in Nat
  BY Basics
<1>2. \A v : Ends(src', v) = Ends(src, v)
  BY Basics, EndsOne
<1>3. \A j \in 1..Len(src) : src'[j] = src[j]
  BY Basics, TokensOne
<1>4. ASSUME NEW v \in (w + 1)..Len(src), src[v].tok = "while"
      PROVE  \E j \in Ends(src, v) : j < n
  <2>1. w \in Nat /\ v \in Nat /\ w < v /\ v \in 1..Len(src)
    BY <1>1
  <2>2. ~HasHandler(stack, v)
    <3> SUFFICES ASSUME NEW r \in 1..Len(stack), stack[r].at = v PROVE FALSE
      BY DEF HasHandler
    <3>1. stack[r].kind = "while"
      BY <1>4, Basics
    <3>2. r \in 1..q
      BY <1>1, <3>1
    <3>3. r = q \/ stack[r].at < stack[q].at
      BY <3>2 DEF Holding
    <3> QED BY <2>1, <3>3
  <2>3. HasEnded(src, v)
    BY <1>4, <2>1, <2>2 DEF Following, Located, Framed
  <2>4. PICK j \in 1..Len(src) : Ends(src, v) = {j}
    BY <2>3 DEF HasEnded
  <2> QED BY <1>1, <2>4
<1>5. w \in 1..(n - 1) /\ n - 1 = Len(src)
  BY <1>1
<1>6. \A v \in (w + 1)..(n - 1) : v \in 1..Len(src)
  BY <1>1, <1>5
<1> HIDE DEF w
<1>7. src'[w].tok = "while" /\ \A j \in Ends(src', w) : n < j
  BY <1>1, <1>2, <1>3
<1>8. \A v \in (w + 1)..(n - 1) : src'[v].tok = "while" => \E j \in Ends(src', v) : j < n
  BY <1>2, <1>3, <1>4, <1>5, <1>6
<1>9. Around(src', n, w)
  BY <1>5, <1>7, <1>8 DEF Around
<1> QED BY <1>9 DEF w

LEMMA JumpFollows ==
  ASSUME NEW blk, NEW idx, NEW num, NEW tok, NEW target,
         Following, WellFormed', Follows(blk, idx, num), status' # "error",
         \/ tok = "continue" /\ target = 1
         \/ tok = "break" /\ target = 2,
         BreakOrContinue(tok, target)
  PROVE  \E a, b, c : Follows(a, b, c)'
<1>1. /\ status = "generating" /\ status' = status
      /\ ip' = ip /\ src' = Append(src, Token(tok, 0)) /\ stack' = Return(stack)
      /\ stack # << >> => ~Top.done
      /\ loops # << >> /\ code' = Emit(code, ip, Br(Here, loops[Len(loops)][target]))
  BY DEF BreakOrContinue, Leaf, AwaitsStmt
<1>2. PICK t \in Token_ : t = Token(tok, 0) /\ t.tok = tok /\ t.of = 0
  BY IsToken DEF LeafTokens
<1>3. PICK n : n = Len(src) + 1
  OBVIOUS
<1>4. PICK k : k = n + 1
  OBVIOUS
<1>5. PICK p : p = Len(code[ip]) + 1
  OBVIOUS
<1>6. PICK l : l = p + 1
  OBVIOUS
<1>7. Ready(blk, idx)
  BY <1>1, IsReady
<1>8. PICK blk2, idx2, num2 :
        Extended(src, t, src', n, k, blk, idx, num, ip, l, 0, blk2, idx2, num2)
  BY <1>1, <1>2, <1>3, <1>4 DEF Extended
<1>9. PICK q \in 1..Len(stack) :
        /\ stack[q].kind = "while" /\ loops[Len(loops)] = <<stack[q].b1, stack[q].b2>>
        /\ \A r \in (q + 1)..Len(stack) : stack[r].kind # "while"
  BY <1>1, Innermost
<1>10. PICK w : w = stack[q].at
  OBVIOUS
<1>11. Around(src', n, w) /\ w \in 1..(n - 1)
  <2>1. t.tok \notin EndTokens /\ src' = Append(src, t)
    BY <1>1, <1>2 DEF EndTokens
  <2>2. Around(src', n, stack[q].at)
    BY <1>3, <1>9, <2>1, AroundTop, Zenon DEF Follows
  <2> QED BY <1>10, <2>2 DEF Around
<1>12. PICK d : d = loops[Len(loops)][target]
  OBVIOUS
<1>13. /\ d = IF tok = "break" THEN num2[w] + 3 ELSE num2[w] + 1
       /\ d \in 2..Len(code)
  <2>1. tok = "break" => d = stack[q].b2
    BY <1>9, <1>12
  <2>2. tok # "break" => d = stack[q].b1
    BY <1>9, <1>12
  <2>3. FrameOK(stack[q], Len(code))
    BY Basics DEF WellFormed, StackOK
  <2>4. stack[q].b1 \in 2..Len(code) /\ stack[q].b2 \in 2..Len(code)
    BY <1>9, <2>3 DEF FrameOK
  <2>5. stack[q].b1 = num[w] + 1 /\ stack[q].b2 = num[w] + 3
    BY <1>9, <1>10 DEF Follows, Holding
  <2>6. num2[w] = num[w]
    <3>1. num2 = More(num, n, 0)
      BY <1>8 DEF Extended
    <3>2. w \in 1..n /\ w # n
      BY <1>3, <1>11, Basics
    <3> QED BY <3>1, <3>2 DEF More
  <2> QED BY <2>1, <2>2, <2>4, <2>5, <2>6
<1>14. PICK x : x = Br(n, d)
  OBVIOUS
<1>15. code' = Emit(code, ip, x) /\ InstrOK(x, Len(code))
  <2>1. n = Here /\ n \in Nat /\ Len(code) \in Nat
    BY <1>3, Basics DEF Here
  <2>2. InstrOK(x, Len(code))
    BY <1>13, <1>14, <2>1, Instructions
  <2> QED BY <1>1, <1>12, <1>14, <2>1, <2>2
<1>16. /\ n \in Nat \ {0} /\ n \in 1..Len(src') /\ src'[n] = t
       /\ blk2[n] = blk[n] /\ idx2[n] = idx[n] /\ num2[n] = 0
       /\ k = n + 1 /\ blk2[k] = ip /\ idx2[k] = l
  BY <1>8, Points
<1>17. blk[n] = ip /\ idx[n] = p
  BY <1>3, <1>5, <1>7 DEF Ready
<1>18. ASSUME In(code', ip, p, x) PROVE Does(src', code', ip', blk2, idx2, num2, n)
  <2>1. ip \in 1..Len(code') /\ p \in Nat \ {0}
    BY <1>5, <1>18, Basics DEF In
  <2>2. \E v \in 1..(n - 1) :
          /\ Around(src', n, v)
          /\ In(code', ip, p, Br(n, IF tok = "break" THEN num2[v] + 3 ELSE num2[v] + 1))
    BY <1>11, <1>13, <1>14, <1>18
  <2>3. \E v \in 1..(n - 1) :
          /\ Around(src', n, v)
          /\ In(code', blk2[n], idx2[n],
                Br(n, IF src'[n].tok = "break" THEN num2[v] + 3 ELSE num2[v] + 1))
    BY <1>2, <1>16, <1>17, <2>2
  <2>4. /\ src'[n].tok = "break" \/ src'[n].tok = "continue"
        /\ blk2[n] \in 1..Len(code') /\ idx2[n] \in Nat \ {0} /\ num2[n] \in Nat
        /\ blk2[n + 1] = blk2[n] /\ idx2[n + 1] = idx2[n] + 1
    BY <1>2, <1>6, <1>16, <1>17, <2>1
  <2> QED BY <2>3, <2>4 DEF Does
<1>19. Traced(src', ip, p, x, blk2, idx2, num2)
  BY <1>14, SilentTraced
<1>20. t.tok \notin {"if", "while"}
  BY <1>2
<1> QED
  BY <1>1, <1>5, <1>6, <1>7, <1>8, <1>15, <1>18, <1>19, <1>20, EmitFollows, Zenon

-----------------------------------------------------------------------------
(* Blocks and the empty statement *)

LEMMA QuietStepFollows ==
  ASSUME NEW blk, NEW idx, NEW num,
         Following, WellFormed', Follows(blk, idx, num), EmptyStmt \/ OpenBlock \/ CloseBlock
  PROVE  \E a, b, c : Follows(a, b, c)'
<1>1. /\ status = "generating" /\ status' = status /\ ip' = ip /\ code' = code
      /\ stack # << >> /\ ~Top.done
  BY DEF EmptyStmt, OpenBlock, CloseBlock, Leaf, AwaitsStmt
<1>2. Holding(stack, num) /\ Handled(src, stack)
  BY DEF Follows
<1>3. PICK n : n = Len(src) + 1
  OBVIOUS
<1>4. PICK k : k = n + 1
  OBVIOUS
<1>5. PICK p : p = Len(code[ip]) + 1
  OBVIOUS
<1>6. Ready(blk, idx)
  BY <1>1, IsReady
<1>7. Elses(src, stack, Len(stack))
  BY <1>6 DEF Ready
<1>8. PICK num2 : num2 = More(num, n, 0)
  OBVIOUS
<1>9. \A j \in 1..Len(src) : num2[j] = num[j]
  <2>1. \A j \in 1..Len(src) : j \in 1..n /\ j # n
    BY <1>3, Basics
  <2> QED BY <1>8, <2>1 DEF More
<1>10. PICK t \in Token_ : /\ t.tok \in {"empty", "block", "endblock"}
                           /\ t.tok = "endblock" => t.of \in 1..Len(src) /\ src[t.of].tok = "block"
                           /\ src' = Append(src, t)
                           /\ Holding(stack', num2) /\ Handled(src', stack')
                           /\ Elses(src', stack', Len(stack'))
  <2>1. CASE EmptyStmt
    <3>1. src' = Append(src, Token("empty", 0)) /\ stack' = Return(stack)
      BY <2>1 DEF EmptyStmt, Leaf
    <3>2. Token("empty", 0) \in Token_ /\ Token("empty", 0).tok = "empty"
      BY IsToken DEF LeafTokens
    <3>3. PICK t \in Token_ : t.tok = "empty" /\ src' = Append(src, t)
      BY <3>1, <3>2
    <3>4. t.tok \notin {"if", "while"}
      BY <3>3
    <3>5. Holding(stack', num2) /\ Handled(src', stack') /\ Elses(src', stack', Len(stack'))
      BY <1>2, <1>7, <1>9, <3>1, <3>3, <3>4, StackReturned, Zenon
    <3> QED BY <3>3, <3>5
  <2>2. CASE OpenBlock
    <3>1. src' = Append(src, Token("block", 0)) /\ stack' = Append(stack, BlockFrame(n))
      BY <1>3, <2>2 DEF OpenBlock, Here
    <3>2. Token("block", 0) \in Token_ /\ Token("block", 0).tok = "block"
      BY IsToken
    <3>3. PICK t \in Token_ : t.tok = "block" /\ src' = Append(src, t)
      BY <3>1, <3>2
    <3>4. PICK f \in Frame : /\ f.at = n /\ f.kind = "block" /\ f.phase = "items"
                             /\ stack' = Append(stack, f)
      <4>1. n \in Nat
        BY <1>3, Basics
      <4> QED BY <3>1, <4>1 DEF BlockFrame, Frame, NoBlock
    <3>5. f.phase # "else" /\ f.kind # "if" /\ f.kind # "while"
      BY <3>4
    <3>6. Holding(stack', num2) /\ Handled(src', stack') /\ Elses(src', stack', Len(stack'))
      BY <1>2, <1>3, <1>7, <1>9, <3>3, <3>4, <3>5, StackPushed
    <3> QED BY <3>3, <3>6
  <2>3. CASE CloseBlock
    <3>1. src' = Append(src, Token("endblock", Top.at)) /\ stack' = Return(Pop)
      BY <2>3 DEF CloseBlock
    <3>2. Top \in Frame
      BY <1>1, Basics, TopFrame
    <3>3. Top.at \in Nat
      BY <3>2 DEF Frame
    <3>4. /\ Token("endblock", Top.at) \in Token_ /\ Token("endblock", Top.at).tok = "endblock"
          /\ Token("endblock", Top.at).of = Top.at
      BY <3>3, IsToken
    <3>5. PICK t \in Token_ : t.tok = "endblock" /\ t.of = Top.at /\ src' = Append(src, t)
      BY <3>1, <3>4
    <3>6. Elses(src, stack, Len(stack) - 1)
      BY <1>7, Basics DEF Elses
    <3>7. t.tok \in EndTokens
      BY <3>5 DEF EndTokens
    <3>8. Holding(stack', num2) /\ Handled(src', stack') /\ Elses(src', stack', Len(stack'))
      BY <1>1, <1>2, <1>9, <3>1, <3>5, <3>6, <3>7, StackPopped, Zenon
    <3>9. Top.at \in 1..Len(src) /\ src[Top.at].tok = "block"
      <4>1. Top.kind = "block" /\ Top = stack[Len(stack)] /\ Len(stack) \in 1..Len(stack)
        BY <1>1, <2>3, Basics, TopFrame DEF CloseBlock
      <4> QED BY <4>1, Basics
    <3> QED BY <3>5, <3>8, <3>9
  <2> QED BY <2>1, <2>2, <2>3
<1>11. PICK blk2, idx2 :
         Extended(src, t, src', n, k, blk, idx, num, ip, p, 0, blk2, idx2, num2)
  BY <1>3, <1>4, <1>8, <1>10 DEF Extended
<1> QED BY <1>1, <1>5, <1>6, <1>10, <1>11, QuietFollows

-----------------------------------------------------------------------------
(* Statements that create blocks *)

LEMMA CreateGrows ==
  ASSUME NEW c, NEW x \in 1..Len(c), NEW c2, NEW x2, NEW i \in Instr, NEW m,
         CodeOK(c), CodeOK(c2), m = Len(c), Len(c2) = m + 3, c2[x] = Append(c[x], i),
         \A b \in 1..m : b # x => c2[b] = c[b], x2 \notin 1..m
  PROVE  /\ Grows(c, x, c2, x2) /\ In(c2, x, Len(c[x]) + 1, i)
         /\ Len(c2[x]) = Len(c[x]) + 1
<1>1. m \in Nat /\ x \in 1..m /\ c[x] \in Seq(Instr) /\ Len(c[x]) \in Nat
  BY ElementOfSeq, CodeLengths DEF CodeOK
<1>2. /\ Len(c2[x]) = Len(c[x]) + 1 /\ c2[x][Len(c[x]) + 1] = i
      /\ \A k \in 1..Len(c[x]) : c2[x][k] = c[x][k]
  BY <1>1, AppendProperties
<1>3. \A b \in 1..m : Len(c[b]) \in Nat
  BY CodeLengths
<1>4. ASSUME NEW b \in 1..m
      PROVE  /\ Len(c[b]) \in Nat /\ Len(c2[b]) \in Nat /\ Len(c[b]) <= Len(c2[b])
             /\ \A k \in 1..Len(c[b]) : c2[b][k] = c[b][k]
             /\ b # x /\ Len(c[b]) # 0 => c2[b] = c[b] /\ b # x2
  <2>1. CASE b = x
    <3>1. Len(c[x]) <= Len(c2[x]) /\ Len(c2[x]) \in Nat
      BY <1>1, <1>2
    <3> QED BY <1>1, <1>2, <2>1, <3>1
  <2>2. CASE b # x
    <3>1. c2[b] = c[b] /\ Len(c[b]) \in Nat /\ b # x2
      BY <1>3, <2>2
    <3>2. Len(c[b]) <= Len(c[b])
      BY <3>1
    <3> QED BY <3>1, <3>2
  <2> QED BY <2>1, <2>2
<1>5. Grows(c, x, c2, x2)
  BY <1>1, <1>4 DEF Grows
<1>6. In(c2, x, Len(c[x]) + 1, i)
  BY <1>1, <1>2 DEF In
<1> QED BY <1>2, <1>5, <1>6

LEMMA BornLast ==
  ASSUME NEW c, NEW c2, NEW x, NEW p, NEW i, NEW b, NEW k,
         Len(c[x]) \in Nat, p = Len(c[x]) + 1, In(c2, x, p, i), Len(c2[x]) = p,
         b \in 1..Len(c), b # x => c2[b] = c[b],
         k \in 1..Len(c2[b]), Born(c, c2, b, k)
  PROVE  b = x /\ k = p /\ c2[b][k] = i
<1>1. b = x
  BY DEF Born
<1>2. k \in 1..(Len(c[x]) + 1) /\ k \notin 1..Len(c[x])
  BY <1>1 DEF Born
<1>3. k = p
  BY <1>2
<1> QED BY <1>1, <1>3 DEF In

LEMMA BeginIfFollows ==
  ASSUME NEW blk, NEW idx, NEW num,
         Following, WellFormed', Follows(blk, idx, num), BeginIf
  PROVE  \E a, b, c : Follows(a, b, c)'
<1>1. /\ status = "generating" /\ status' = status /\ stack # << >> /\ ~Top.done
      /\ src' = Append(src, Token("if", 0))
  BY DEF BeginIf, AwaitsStmt
<1>2. PICK t \in Token_ : t.tok = "if" /\ src' = Append(src, t)
  BY <1>1, IsToken
<1>3. PICK n : n = Len(src) + 1
  OBVIOUS
<1>4. PICK k : k = n + 1
  OBVIOUS
<1>5. PICK p : p = Len(code[ip]) + 1
  OBVIOUS
<1>6. PICK m \in Nat : m = Len(code)
  BY Basics
<1>7. Ready(blk, idx)
  BY <1>1, IsReady
<1>8. n = Here /\ n \in Nat \ {0} /\ n - 1 = Len(src)
  BY <1>3, Basics DEF Here
<1>9. PICK x : x = CondBr(n, m + 1, m + 2)
  OBVIOUS
<1>10. /\ Len(code') = m + 3
       /\ \A b \in 1..m : b # ip => code'[b] = code[b]
       /\ code'[ip] = Append(code[ip], x)
       /\ \A b \in (m + 1)..(m + 3) : code'[b] = << >>
       /\ stack' = Append(stack, IfFrame(n, m + 2, m + 3)) /\ ip' = m + 1
  BY <1>6, <1>8, <1>9, Basics, BeginIfBlocks
<1>11. x \in Instr
  <2>1. m + 1 \in 2..(m + 3) /\ m + 2 \in 2..(m + 3) /\ n \in Nat /\ m + 3 \in Nat
    BY <1>6, <1>8, Basics
  <2> QED BY <1>9, <2>1, Instructions DEF InstrOK
<1>12. CodeOK(code) /\ CodeOK(code') /\ ip \in 1..Len(code) /\ ip' \notin 1..m /\ Len(code[ip]) \in Nat
  BY <1>10, Basics DEF WellFormed
<1>13. Grows(code, ip, code', ip') /\ In(code', ip, p, x) /\ Len(code'[ip]) = p
  BY <1>5, <1>6, <1>10, <1>11, <1>12, CreateGrows
<1>14. PICK d : d = m + 1
  OBVIOUS
<1>15. PICK blk2, idx2, num2 :
         Extended(src, t, src', n, k, blk, idx, num, d, 1, m, blk2, idx2, num2)
  BY <1>2, <1>3, <1>4 DEF Extended
<1>16. /\ n \in 1..Len(src') /\ src'[n] = t
       /\ blk2[n] = blk[n] /\ idx2[n] = idx[n] /\ num2[n] = m
       /\ k = n + 1 /\ blk2[k] = d /\ idx2[k] = 1
  BY <1>15, Points
<1>17. blk[n] = ip /\ idx[n] = p
  BY <1>3, <1>5, <1>7 DEF Ready
<1>18. Does(src', code', ip', blk2, idx2, num2, n)
  <2>1. ip \in 1..Len(code') /\ p \in Nat \ {0} /\ m + 3 \in 1..Len(code')
    BY <1>5, <1>6, <1>10, <1>12
  <2> QED BY <1>2, <1>9, <1>13, <1>14, <1>16, <1>17, <2>1 DEF Does
<1>19. ASSUME NEW b \in 1..Len(code'), NEW q \in 1..Len(code'[b]), Born(code, code', b, q)
       PROVE  Traced(src', b, q, code'[b][q], blk2, idx2, num2)
  <2>1. b \in 1..m
    <3> SUFFICES ASSUME b \in (m + 1)..(m + 3) PROVE FALSE
      BY <1>6, <1>10
    <3>1. code'[b] = << >>
      BY <1>10
    <3> QED BY <1>19, <3>1
  <2>2. code'[b][q] = x
    <3>1. b \in 1..Len(code) /\ (b # ip => code'[b] = code[b])
      BY <1>6, <1>10, <2>1
    <3>2. q \in 1..Len(code'[b])
      BY <1>19
    <3> QED BY <1>5, <1>12, <1>13, <1>19, <3>1, <3>2, BornLast, Zenon
  <2>3. x.op = "br" /\ x.at = n /\ x.to = <<m + 1, m + 2>>
    BY <1>9 DEF CondBr
  <2> QED BY <1>2, <1>16, <2>2, <2>3 DEF Traced
<1>20. Holding(stack', num2) /\ Handled(src', stack') /\ Elses(src', stack', Len(stack'))
  <2>1. PICK f \in Frame : /\ f.at = n /\ f.kind = "if" /\ f.phase = "then"
                           /\ f.b1 = m + 2 /\ f.b2 = m + 3 /\ stack' = Append(stack, f)
    <3>1. n \in Nat /\ m + 2 \in Nat /\ m + 3 \in Nat
      BY <1>6, <1>8
    <3> QED BY <1>10, <3>1 DEF IfFrame, Frame
  <2>2. \A j \in 1..Len(src) : num2[j] = num[j]
    <3>1. num2 = More(num, n, m)
      BY <1>15 DEF Extended
    <3>2. \A j \in 1..Len(src) : j \in 1..n /\ j # n
      BY <1>8
    <3> QED BY <3>1, <3>2 DEF More
  <2>3. f.phase # "else" /\ f.kind # "while" /\ f.b1 = num2[n] + 2 /\ f.b2 = num2[n] + 3
    BY <1>16, <2>1
  <2> QED BY <1>2, <1>3, <1>7, <2>1, <2>2, <2>3, StackPushed DEF Follows, Ready
<1>21. 1 = Len(code'[ip']) + 1
  <2>1. code'[ip'] = << >>
    BY <1>6, <1>10
  <2> QED BY <2>1
<1>22. Extended(src, t, src', n, k, blk, idx, num, ip', 1, m, blk2, idx2, num2)
  BY <1>10, <1>14, <1>15
<1> QED BY <1>1, <1>13, <1>18, <1>19, <1>20, <1>21, <1>22, StepFollows

LEMMA BeginWhileFollows ==
  ASSUME NEW blk, NEW idx, NEW num,
         Following, WellFormed', Follows(blk, idx, num), BeginWhile
  PROVE  \E a, b, c : Follows(a, b, c)'
<1>1. /\ status = "generating" /\ status' = status /\ stack # << >> /\ ~Top.done
      /\ src' = Append(src, Token("while", 0))
  BY DEF BeginWhile, AwaitsStmt
<1>2. PICK t \in Token_ : t.tok = "while" /\ src' = Append(src, t)
  BY <1>1, IsToken
<1>3. PICK n : n = Len(src) + 1
  OBVIOUS
<1>4. PICK k : k = n + 1
  OBVIOUS
<1>5. PICK p : p = Len(code[ip]) + 1
  OBVIOUS
<1>6. PICK m \in Nat : m = Len(code)
  BY Basics
<1>7. Ready(blk, idx)
  BY <1>1, IsReady
<1>8. n = Here /\ n \in Nat \ {0} /\ n - 1 = Len(src)
  BY <1>3, Basics DEF Here
<1>9. PICK x, y : x = Br(0, m + 1) /\ y = CondBr(n, m + 2, m + 3)
  OBVIOUS
<1>10. /\ Len(code') = m + 3
       /\ \A b \in 1..m : b # ip => code'[b] = code[b]
       /\ code'[ip] = Append(code[ip], x)
       /\ code'[m + 1] = Append(<< >>, y) /\ code'[m + 2] = << >> /\ code'[m + 3] = << >>
       /\ stack' = Append(stack, WhileFrame(n, m + 1, m + 3)) /\ ip' = m + 2
  BY <1>6, <1>8, <1>9, Basics, BeginWhileBlocks
<1>11. x \in Instr /\ y \in Instr
  <2>1. /\ m + 1 \in 2..(m + 3) /\ m + 2 \in 2..(m + 3) /\ m + 3 \in 2..(m + 3)
        /\ n \in Nat /\ m + 3 \in Nat
    BY <1>6, <1>8, Basics
  <2> QED BY <1>9, <2>1, Instructions DEF InstrOK
<1>12. CodeOK(code) /\ CodeOK(code') /\ ip \in 1..Len(code) /\ ip' \notin 1..m /\ Len(code[ip]) \in Nat
  BY <1>10, Basics DEF WellFormed
<1>13. Grows(code, ip, code', ip') /\ In(code', ip, p, x) /\ Len(code'[ip]) = p
  BY <1>5, <1>6, <1>10, <1>11, <1>12, CreateGrows
<1>14. PICK d : d = m + 2
  OBVIOUS
<1>15. PICK blk2, idx2, num2 :
         Extended(src, t, src', n, k, blk, idx, num, d, 1, m, blk2, idx2, num2)
  BY <1>2, <1>3, <1>4 DEF Extended
<1>16. /\ n \in 1..Len(src') /\ src'[n] = t
       /\ blk2[n] = blk[n] /\ idx2[n] = idx[n] /\ num2[n] = m
       /\ k = n + 1 /\ blk2[k] = d /\ idx2[k] = 1
  BY <1>15, Points
<1>17. blk[n] = ip /\ idx[n] = p
  BY <1>3, <1>5, <1>7 DEF Ready
<1>18. Does(src', code', ip', blk2, idx2, num2, n)
  <2>1. ip \in 1..Len(code') /\ p \in Nat \ {0} /\ m + 3 \in 1..Len(code')
    BY <1>5, <1>6, <1>10, <1>12
  <2>2. In(code', m + 1, 1, y)
    <3>1. Len(code'[m + 1]) = 1 /\ code'[m + 1][1] = y
      BY <1>10
    <3>2. m + 1 \in 1..Len(code')
      BY <1>6, <1>10
    <3> QED BY <3>1, <3>2 DEF In
  <2> QED BY <1>2, <1>9, <1>13, <1>14, <1>16, <1>17, <2>1, <2>2 DEF Does
<1>19. ASSUME NEW b \in 1..Len(code'), NEW q \in 1..Len(code'[b]), Born(code, code', b, q)
       PROVE  Traced(src', b, q, code'[b][q], blk2, idx2, num2)
  <2>1. b \in 1..m \/ b = m + 1 \/ b = m + 2 \/ b = m + 3
    <3>1. b \in 1..(m + 3)
      BY <1>10
    <3> QED BY <1>6, <3>1
  <2>2. CASE b \in 1..m
    <3>1. b \in 1..Len(code) /\ (b # ip => code'[b] = code[b])
      BY <1>6, <1>10, <2>2
    <3>2. q \in 1..Len(code'[b])
      BY <1>19
    <3>3. code'[b][q] = x
      BY <1>5, <1>12, <1>13, <1>19, <3>1, <3>2, BornLast, Zenon
    <3> QED BY <1>9, <3>3, SilentTraced
  <2>3. CASE b = m + 1
    <3>1. Len(code'[b]) = 1 /\ code'[b][1] = y
      <4>1. Len(code'[m + 1]) = 1 /\ code'[m + 1][1] = y
        BY <1>10
      <4> QED BY <2>3, <4>1
    <3>2. code'[b][q] = y
      BY <3>1
    <3>3. y.op = "br" /\ y.at = n /\ y.to = <<m + 2, m + 3>>
      BY <1>9 DEF CondBr
    <3> QED BY <1>2, <1>16, <3>2, <3>3 DEF Traced
  <2>4. CASE b = m + 2 \/ b = m + 3
    <3>1. code'[b] = << >>
      BY <1>10, <2>4
    <3> QED BY <1>19, <3>1
  <2> QED BY <2>1, <2>2, <2>3, <2>4
<1>20. Holding(stack', num2) /\ Handled(src', stack') /\ Elses(src', stack', Len(stack'))
  <2>1. PICK f \in Frame : /\ f.at = n /\ f.kind = "while" /\ f.phase = "body"
                           /\ f.b1 = m + 1 /\ f.b2 = m + 3 /\ stack' = Append(stack, f)
    <3>1. n \in Nat /\ m + 1 \in Nat /\ m + 3 \in Nat
      BY <1>6, <1>8
    <3> QED BY <1>10, <3>1 DEF WhileFrame, Frame
  <2>2. \A j \in 1..Len(src) : num2[j] = num[j]
    <3>1. num2 = More(num, n, m)
      BY <1>15 DEF Extended
    <3>2. \A j \in 1..Len(src) : j \in 1..n /\ j # n
      BY <1>8
    <3> QED BY <3>1, <3>2 DEF More
  <2>3. f.phase # "else" /\ f.kind # "if" /\ f.b1 = num2[n] + 1 /\ f.b2 = num2[n] + 3
    BY <1>16, <2>1
  <2> QED BY <1>2, <1>3, <1>7, <2>1, <2>2, <2>3, StackPushed DEF Follows, Ready
<1>21. 1 = Len(code'[ip']) + 1
  <2>1. code'[ip'] = << >>
    BY <1>6, <1>10
  <2> QED BY <2>1
<1>22. Extended(src, t, src', n, k, blk, idx, num, ip', 1, m, blk2, idx2, num2)
  BY <1>10, <1>14, <1>15
<1> QED BY <1>1, <1>13, <1>18, <1>19, <1>20, <1>21, <1>22, StepFollows

-----------------------------------------------------------------------------
(* Handlers that join two paths *)

\* A block that the handler on top still holds is empty, and not the insert block.
LEMMA HeldBlock ==
  ASSUME NEW b, Following, stack # << >>, b \in Pending(Top)
  PROVE  b \in 1..Len(code) /\ code[b] = << >> /\ b # ip
<1>1. Top = stack[Len(stack)] /\ Len(stack) \in 1..Len(stack)
  BY Basics, TopFrame
<1>2. Owned(code, layout, stack) /\ ip \in Elems(layout)
  BY DEF Following, Ownership
<1>3. Held(stack, b)
  BY <1>1 DEF Held
<1> QED BY <1>1, <1>2, <1>3 DEF Owned

\* The last instruction is of the class that was found, if one is asked for that
\* back() does not find in an empty block.
LEMMA TailFound ==
  ASSUME NEW op, NEW p, Following, op \in TailOps(ip), op \notin EmptyTail, p = Len(code[ip]) + 1
  PROVE  p - 1 \in 1..Len(code[ip]) /\ code[ip][p - 1].op = op
<1>1. code[ip] # << >> /\ op = code[ip][Len(code[ip])].op
  BY DEF TailOps
<1>2. code[ip] \in Seq(Instr)
  BY Basics, ElementOfSeq DEF CodeOK
<1>3. Len(code[ip]) \in Nat \ {0} /\ p - 1 = Len(code[ip])
  BY <1>1, <1>2, EmptySeq
<1> QED BY <1>1, <1>3

LEMMA JoinGrows ==
  ASSUME NEW b \in 2..Len(code), NEW tail \in TailOps(ip), NEW x2, NEW e, NEW p,
         Following, "br" \notin EmptyTail, e = BrUnlessBranch(code, b, tail),
         code[x2] = << >>, x2 # ip, p = Len(code[ip]) + 1
  PROVE  Grows(code, ip, e, x2) /\ Goes(e, x2, ip, p, b)
<1>1. /\ CodeOK(code) /\ ip \in 1..Len(code) /\ InstrOK(Br(0, b), Len(code))
      /\ Len(code) \in Nat /\ Len(code[ip]) \in Nat
  BY Basics, Instructions
<1>2. CASE tail = "br"
  <2>1. e = code
    BY <1>2 DEF BrUnlessBranch
  <2>2. p - 1 \in 1..Len(code[ip]) /\ code[ip][p - 1].op = "br"
    BY <1>2, TailFound
  <2>3. Dead(code, ip, p)
    BY <1>1, <2>2 DEF Dead, IsTerminator
  <2>4. Grows(code, ip, code, ip)
    BY <1>1, SameGrows
  <2>5. \A d \in 1..Len(code) : Len(code[d]) # 0 => d # x2
    OBVIOUS
  <2>6. Grows(code, ip, code, x2)
    BY <2>4, <2>5, Zenon DEF Grows
  <2> QED BY <2>1, <2>3, <2>6 DEF Goes
<1>3. CASE tail # "br"
  <2>1. e = Emit(code, ip, Br(0, b))
    BY <1>3 DEF BrUnlessBranch
  <2>2. Grows(code, ip, e, ip) /\ In(e, ip, p, Br(0, b))
    BY <1>1, <2>1, EmitGrows
  <2>3. \A d \in 1..Len(code) : Len(code[d]) # 0 => d # x2
    OBVIOUS
  <2>4. Grows(code, ip, e, x2)
    BY <2>2, <2>3, Zenon DEF Grows
  <2> QED BY <2>2, <2>4 DEF Goes
<1> QED BY <1>2, <1>3

LEMMA JoinTraced ==
  ASSUME NEW b \in 2..Len(code), NEW tail, NEW e, NEW d, NEW q,
         NEW s, NEW blk, NEW idx, NEW num,
         Following, e = BrUnlessBranch(code, b, tail),
         d \in 1..Len(e), q \in 1..Len(e[d]), Born(code, e, d, q)
  PROVE  Traced(s, d, q, e[d][q], blk, idx, num)
<1>1. CodeOK(code) /\ ip \in 1..Len(code) /\ InstrOK(Br(0, b), Len(code))
  BY Basics, Instructions
<1>2. e # code
  <2>1. Born(code, e, d, q) /\ d \in 1..Len(e) /\ q \in 1..Len(e[d])
    OBVIOUS
  <2> QED BY <2>1, Zenon DEF Born
<1>3. e = Emit(code, ip, Br(0, b))
  BY <1>2 DEF BrUnlessBranch
<1>4. e[d][q] = Br(0, b)
  <2>1. PICK x : x = Br(0, b)
    OBVIOUS
  <2>2. /\ d \in 1..Len(Emit(code, ip, x)) /\ q \in 1..Len(Emit(code, ip, x)[d])
        /\ Born(code, Emit(code, ip, x), d, q)
    BY <1>3, <2>1
  <2>3. InstrOK(x, Len(code))
    BY <1>1, <2>1
  <2>4. Emit(code, ip, x)[d][q] = x
    BY <1>1, <2>2, <2>3, EmitBorn, Zenon
  <2> QED BY <1>3, <2>1, <2>4
<1> QED BY <1>4, SilentTraced

\* Another handler goes on: no handler comes or goes, and the blocks stay.
LEMMA StackAlike ==
  ASSUME NEW num, NEW num2, NEW f \in Frame,
         Following, Holding(stack, num), stack # << >>,
         stack' = [stack EXCEPT ![Len(stack)] = f],
         f.kind = Top.kind, f.at = Top.at, f.b1 = Top.b1, f.b2 = Top.b2,
         \A j \in 1..Len(src) : num2[j] = num[j]
  PROVE  /\ Holding(stack', num2) /\ Len(stack') = Len(stack)
         /\ SameAt(stack, stack', Len(stack)) /\ stack'[Len(stack)] = f
         /\ \A q \in 1..(Len(stack) - 1) : stack'[q] = stack[q]
<1>1. /\ stack \in Seq(Frame) /\ Len(stack) \in Nat /\ Len(stack) \in 1..Len(stack)
      /\ Top = stack[Len(stack)]
  BY Basics, TopFrame
<1>2. /\ Len(stack') = Len(stack)
      /\ \A i \in 1..Len(stack) : stack'[i] = IF i = Len(stack) THEN f ELSE stack[i]
  BY <1>1, ExceptSeq
<1>3. SameAt(stack, stack', Len(stack)) /\ Alike(stack, stack', Len(stack))
  BY <1>1, <1>2 DEF SameAt, Alike
<1>4. \A q \in 1..Len(stack) : num2[stack[q].at] = num[stack[q].at]
  BY Basics
<1>5. /\ Len(stack') <= Len(stack) /\ Len(stack') \in Nat
      /\ SameAt(stack, stack', Len(stack')) /\ Alike(stack, stack', Len(stack'))
  BY <1>1, <1>2, <1>3
<1>6. Holding(stack', num2)
  BY <1>1, <1>4, <1>5, HoldingSame, ZenonT(60)
<1>7. \A q \in 1..(Len(stack) - 1) : q \in 1..Len(stack) /\ q # Len(stack)
  BY <1>1
<1> QED BY <1>1, <1>2, <1>3, <1>6, <1>7

\* Both forms of codeGenIfStmt's middle start from here.
LEMMA ThenStarts ==
  ASSUME NEW blk, NEW idx, NEW num, NEW n, NEW w,
         Following, Follows(blk, idx, num), "br" \notin EmptyTail, EndThen,
         n = Len(src) + 1, w = Top.at
  PROVE  /\ status = "generating" /\ status' = status
         /\ w \in 1..Len(src) /\ src[w].tok = "if" /\ Ends(src, w) = {}
         /\ ip' = Top.b1 /\ Top.b1 = num[w] + 2 /\ Top.b2 = num[w] + 3
         /\ code'[ip'] = << >> /\ ip' \in 1..Len(code')
         /\ Grows(code, ip, code', ip') /\ Goes(code', ip', blk[n], idx[n], Top.b2)
         /\ blk[n] \in 1..Len(code') /\ idx[n] \in Nat \ {0}
         /\ Elses(src, stack, Len(stack)) /\ Top.kind = "if"
<1>1. /\ status = "generating" /\ status' = status /\ stack # << >>
      /\ Top.phase = "then" /\ ip' = Top.b1
  BY DEF EndThen
<1>2. PICK tail \in TailOps(ip) : code' = BrUnlessBranch(code, Top.b2, tail)
  BY DEF EndThen
<1>3. /\ WellFormed /\ Top = stack[Len(stack)] /\ FrameOK(Top, Len(code))
      /\ Len(stack) \in 1..Len(stack)
  BY <1>1, Basics, TopFrame
<1>4. Top.kind = "if" /\ Top.b1 \in 2..Len(code) /\ Top.b2 \in 2..Len(code) /\ Top.b1 # Top.b2
  BY <1>1, <1>3 DEF FrameOK, Frame
<1>5. w \in 1..Len(src) /\ src[w].tok = "if" /\ Ends(src, w) = {}
  BY <1>3, <1>4, Basics
<1>6. Top.b1 = num[w] + 2 /\ Top.b2 = num[w] + 3
  BY <1>3, <1>4 DEF Follows, Holding
<1>7. Top.b1 \in 1..Len(code) /\ code[Top.b1] = << >> /\ Top.b1 # ip
  <2>1. Top.b1 \in Pending(Top)
    BY <1>1, <1>4 DEF Pending
  <2> QED BY <1>1, <2>1, HeldBlock
<1>8. Ready(blk, idx)
  BY <1>1, IsReady
<1>9. PICK p : p = Len(code[ip]) + 1
  OBVIOUS
<1>10. Grows(code, ip, code', ip') /\ Goes(code', ip', ip, p, Top.b2)
  BY <1>1, <1>2, <1>4, <1>7, <1>9, JoinGrows
<1>11. blk[n] = ip /\ idx[n] = p /\ p \in Nat \ {0}
  BY <1>8, <1>9, Basics DEF Ready
<1>12. /\ Len(code') = Len(code)
       /\ \A d \in 1..Len(code) : d # ip => code'[d] = code[d]
  BY <1>2, <1>3, <1>4, JoinBranches
<1>13. code'[ip'] = << >> /\ ip' \in 1..Len(code') /\ blk[n] \in 1..Len(code')
  BY <1>1, <1>7, <1>11, <1>12, Basics
<1>14. Elses(src, stack, Len(stack))
  BY <1>8 DEF Ready
<1> QED
  BY <1>1, <1>4, <1>5, <1>6, <1>10, <1>11, <1>13, <1>14

\* The last instruction before the else part, if any, is not traced.
LEMMA ThenTraced ==
  ASSUME NEW s, NEW blk, NEW idx, NEW num, NEW d, NEW q, Following, EndThen,
         d \in 1..Len(code'), q \in 1..Len(code'[d]), Born(code, code', d, q)
  PROVE  Traced(s, d, q, code'[d][q], blk, idx, num)
<1>1. PICK tail \in TailOps(ip) : code' = BrUnlessBranch(code, Top.b2, tail)
  BY DEF EndThen
<1>2. stack # << >> /\ Top.phase = "then"
  BY DEF EndThen
<1>3. FrameOK(Top, Len(code))
  BY <1>2, Basics, TopFrame
<1>4. Top.b2 \in 2..Len(code)
  BY <1>2, <1>3 DEF FrameOK, Frame
<1> QED BY <1>1, <1>4, JoinTraced

LEMMA ThenElseFollows ==
  ASSUME NEW blk, NEW idx, NEW num, NEW f \in Frame,
         Following, WellFormed', Follows(blk, idx, num), "br" \notin EmptyTail, EndThen,
         src' = Append(src, Token("else", Top.at)), stack' = [stack EXCEPT ![Len(stack)] = f],
         f.kind = Top.kind, f.at = Top.at, f.b1 = Top.b1, f.b2 = Top.b2
  PROVE  \E a, b, c : Follows(a, b, c)'
<1>1. PICK n : n = Len(src) + 1
  OBVIOUS
<1>2. PICK k : k = n + 1
  OBVIOUS
<1>3. PICK w : w = Top.at
  OBVIOUS
<1>4. /\ status = "generating" /\ status' = status
      /\ w \in 1..Len(src) /\ src[w].tok = "if" /\ Ends(src, w) = {}
      /\ ip' = Top.b1 /\ Top.b1 = num[w] + 2 /\ Top.b2 = num[w] + 3
      /\ code'[ip'] = << >> /\ ip' \in 1..Len(code')
      /\ Grows(code, ip, code', ip') /\ Goes(code', ip', blk[n], idx[n], Top.b2)
      /\ blk[n] \in 1..Len(code') /\ idx[n] \in Nat \ {0}
      /\ Elses(src, stack, Len(stack)) /\ Top.kind = "if"
  BY <1>1, <1>3, ThenStarts
<1>5. PICK t \in Token_ : t.tok = "else" /\ t.of = w /\ src' = Append(src, t)
  <2>1. w \in Nat
    BY <1>4
  <2> QED BY <1>3, <2>1, IsToken
<1>6. PICK d : d = ip'
  OBVIOUS
<1>7. PICK blk2, idx2, num2 :
        Extended(src, t, src', n, k, blk, idx, num, d, 1, 0, blk2, idx2, num2)
  BY <1>1, <1>2, <1>5 DEF Extended
<1>8. /\ n \in Nat \ {0} /\ n = Len(src) + 1 /\ Len(src') = n /\ src'[n] = t
      /\ blk2[n] = blk[n] /\ idx2[n] = idx[n] /\ num2[n] = 0
      /\ k = n + 1 /\ blk2[k] = d /\ idx2[k] = 1
  BY <1>7, Points
<1>9. \A j \in 1..Len(src) : src'[j] = src[j] /\ num2[j] = num[j]
  BY <1>7, Before
<1>10. Does(src', code', ip', blk2, idx2, num2, n)
  <2>1. w \in 1..(n - 1)
    BY <1>1, <1>4, Basics
  <2>2. src'[w].tok = "if" /\ num2[w] = num[w]
    BY <1>4, <1>9
  <2>3. Ends(src', w) = {}
    <3>1. t.tok \notin EndTokens
      BY <1>5 DEF EndTokens
    <3> QED BY <1>4, <1>5, <3>1, Basics, EndsOne
  <2>4. Goes(code', ip', blk2[n], idx2[n], num2[w] + 3)
    BY <1>4, <1>8, <2>2
  <2>5. blk2[n + 1] = num2[w] + 2 /\ idx2[n + 1] = 1
    BY <1>4, <1>6, <1>8, <2>2
  <2>6. src'[n].tok = "else" /\ src'[n].of = w
    BY <1>5, <1>8
  <2>7. blk2[n] \in 1..Len(code') /\ idx2[n] \in Nat \ {0} /\ num2[n] \in Nat
    BY <1>4, <1>8
  <2> QED BY <2>1, <2>2, <2>3, <2>4, <2>5, <2>6, <2>7 DEF Does
<1>11. stack # << >> /\ Holding(stack, num) /\ Handled(src, stack)
  BY DEF EndThen, Follows
<1>12. /\ Holding(stack', num2) /\ Len(stack') = Len(stack)
       /\ SameAt(stack, stack', Len(stack)) /\ stack'[Len(stack)] = f
       /\ \A q \in 1..(Len(stack) - 1) : stack'[q] = stack[q]
  BY <1>9, <1>11, StackAlike
<1>13. Handled(src', stack')
  <2>1. t.tok \notin {"if", "while"}
    BY <1>5
  <2> QED BY <1>5, <1>11, <1>12, <2>1, Basics, HandledSame
<1>14. Elses(src', stack', Len(stack'))
  <2>1. Longer(src, src')
    BY <1>5, Basics, LongerOne
  <2>2. n \in 1..Len(src')
    BY <1>8
  <2>3. HasElse(src', w)
    BY <1>5, <1>8, <2>2 DEF HasElse
  <2>4. ASSUME NEW q \in 1..Len(stack'), stack'[q].phase = "else" PROVE HasElse(src', stack'[q].at)
    <3>1. CASE q = Len(stack)
      BY <1>3, <1>12, <2>3, <3>1
    <3>2. CASE q # Len(stack)
      <4>1. q \in 1..(Len(stack) - 1)
        <5>1. q \in 1..Len(stack)
          BY <1>12
        <5>2. Len(stack) \in Nat
          BY Basics
        <5> QED BY <3>2, <5>1, <5>2
      <4>2. stack'[q] = stack[q] /\ q \in 1..Len(stack)
        BY <1>12, <4>1
      <4>3. HasElse(src, stack[q].at)
        BY <1>4, <2>4, <4>2 DEF Elses
      <4> QED BY <2>1, <4>2, <4>3, ElseLonger
    <3> QED BY <3>1, <3>2
  <2> QED BY <2>4 DEF Elses
<1>15. \A b \in 1..Len(code') : \A q \in 1..Len(code'[b]) :
         Born(code, code', b, q) => Traced(src', b, q, code'[b][q], blk2, idx2, num2)
  BY ThenTraced
<1>16. 1 = Len(code'[ip']) + 1
  BY <1>4
<1>17. Extended(src, t, src', n, k, blk, idx, num, ip', 1, 0, blk2, idx2, num2)
  BY <1>6, <1>7
<1> QED
  BY <1>4, <1>10, <1>12, <1>13, <1>14, <1>15, <1>16, <1>17, StepFollows

LEMMA ThenAloneFollows ==
  ASSUME NEW blk, NEW idx, NEW num, NEW f \in Frame,
         Following, WellFormed', Follows(blk, idx, num), "br" \notin EmptyTail, EndThen,
         src' = src, stack' = [stack EXCEPT ![Len(stack)] = f],
         f.kind = Top.kind, f.at = Top.at, f.b1 = Top.b1, f.b2 = Top.b2,
         f.phase = "else", f.done
  PROVE  Follows(blk, idx, num)'
<1>1. PICK n : n = Len(src) + 1
  OBVIOUS
<1>2. PICK w : w = Top.at
  OBVIOUS
<1>3. /\ status = "generating" /\ status' = status
      /\ w \in 1..Len(src) /\ src[w].tok = "if" /\ Ends(src, w) = {}
      /\ ip' = Top.b1 /\ Top.b1 = num[w] + 2 /\ Top.b2 = num[w] + 3
      /\ code'[ip'] = << >> /\ ip' \in 1..Len(code')
      /\ Grows(code, ip, code', ip') /\ Goes(code', ip', blk[n], idx[n], Top.b2)
      /\ blk[n] \in 1..Len(code') /\ idx[n] \in Nat \ {0}
      /\ Elses(src, stack, Len(stack)) /\ Top.kind = "if"
  BY <1>1, <1>2, ThenStarts
<1>4. Longer(src, src)
  BY Basics DEF Longer
<1>5. Agree(Len(src), blk, idx, num, blk, idx, num)
  BY DEF Agree
<1>6. Path(src, code', ip', blk, idx, num)
  <2>1. Path(src, code, ip, blk, idx, num)
    BY DEF Follows
  <2>2. \A i \in 1..Len(src) :
          i \in 1..Len(src) \/ Does(src, code', ip', blk, idx, num, i)
    OBVIOUS
  <2> QED BY <1>3, <1>4, <1>5, <2>1, <2>2, PathGrows
<1>7. Origin(src, code', blk, idx, num)
  <2>1. Origin(src, code, blk, idx, num)
    BY DEF Follows
  <2>2. \A b \in 1..Len(code') : \A q \in 1..Len(code'[b]) :
          \/ b \in 1..Len(code) /\ q \in 1..Len(code[b])
          \/ Traced(src, b, q, code'[b][q], blk, idx, num)
    BY ThenTraced DEF Born
  <2> QED BY <1>3, <1>4, <1>5, <2>1, <2>2, OriginGrows
<1>8. stack # << >> /\ Holding(stack, num) /\ Handled(src, stack)
  BY DEF EndThen, Follows
<1>9. /\ Holding(stack', num) /\ Len(stack') = Len(stack)
      /\ SameAt(stack, stack', Len(stack)) /\ stack'[Len(stack)] = f
      /\ \A q \in 1..(Len(stack) - 1) : stack'[q] = stack[q]
  BY <1>8, StackAlike
<1>10. Handled(src, stack')
  <2>1. \A v : HasHandler(stack, v) => HasHandler(stack', v)
    BY <1>9 DEF HasHandler, SameAt
  <2> QED BY <1>8, <2>1 DEF Handled
<1>11. Elses(src, stack', Len(stack) - 1)
  <2>1. \A q \in 1..(Len(stack) - 1) : q \in 1..Len(stack)
    BY Basics
  <2> QED BY <1>3, <1>9, <2>1 DEF Elses
<1>12. Current(src, code', ip', stack', blk, idx)
  <2>1. Len(stack) # 0
    BY <1>8, Basics, EmptySeq
  <2> QED BY <1>1, <1>3, <1>9, <1>11, <2>1 DEF Current
<1> QED BY <1>3, <1>6, <1>7, <1>9, <1>10, <1>12 DEF Follows

LEMMA EndThenFollows ==
  ASSUME NEW blk, NEW idx, NEW num,
         Following, WellFormed', Follows(blk, idx, num), "br" \notin EmptyTail, EndThen
  PROVE  \E a, b, c : Follows(a, b, c)'
<1>1. PICK hasElse \in BOOLEAN :
        /\ src' = IF hasElse THEN Append(src, Token("else", Top.at)) ELSE src
        /\ stack' = [stack EXCEPT ![Len(stack)].phase = "else", ![Len(stack)].done = ~hasElse]
  BY DEF EndThen
<1>2. stack # << >>
  BY DEF EndThen
<1>3. /\ stack \in Seq(Frame) /\ Len(stack) \in 1..Len(stack)
      /\ Top = stack[Len(stack)] /\ Top \in Frame
  BY <1>2, Basics, TopFrame
<1> DEFINE g == [[stack[Len(stack)] EXCEPT !.phase = "else"] EXCEPT !.done = ~hasElse]
<1>4. stack' = [stack EXCEPT ![Len(stack)] = g]
  BY <1>1, <1>3
<1>5. /\ g \in Frame /\ g.kind = Top.kind /\ g.at = Top.at /\ g.b1 = Top.b1 /\ g.b2 = Top.b2
      /\ g.phase = "else" /\ g.done = ~hasElse
  BY <1>3 DEF Frame
<1>6. PICK f \in Frame : f = g
  BY <1>5
<1> HIDE DEF g
<1>7. /\ stack' = [stack EXCEPT ![Len(stack)] = f]
      /\ f.kind = Top.kind /\ f.at = Top.at /\ f.b1 = Top.b1 /\ f.b2 = Top.b2
      /\ f.phase = "else" /\ f.done = ~hasElse
  BY <1>4, <1>5, <1>6
<1>8. CASE hasElse
  BY <1>1, <1>7, <1>8, ThenElseFollows
<1>9. CASE ~hasElse
  <2>1. f.done
    BY <1>7, <1>9
  <2>2. Follows(blk, idx, num)'
    BY <1>1, <1>7, <1>9, <2>1, ThenAloneFollows
  <2> QED BY <2>2
<1> QED BY <1>8, <1>9

\* What the ends of codeGenIfStmt and codeGenWhileStmt have in common.
LEMMA EndStarts ==
  ASSUME NEW w, NEW b, NEW p,
         Following, "br" \notin EmptyTail, stack # << >>, w = Top.at, p = Len(code[ip]) + 1,
         Top.phase = "else" \/ Top.phase = "body", b \in {Top.b1, Top.b2},
         \E tail \in TailOps(ip) : code' = BrUnlessBranch(code, b, tail), ip' = Top.b2
  PROVE  /\ w \in 1..Len(src) /\ src[w].tok = Top.kind
         /\ Top.phase = "else" => Top.kind = "if"
         /\ Top.phase = "body" => Top.kind = "while"
         /\ code'[ip'] = << >> /\ ip' \in 1..Len(code') /\ Len(code') = Len(code)
         /\ Grows(code, ip, code', ip') /\ Goes(code', ip', ip, p, b)
<1>1. PICK tail \in TailOps(ip) : code' = BrUnlessBranch(code, b, tail)
  OBVIOUS
<1>2. /\ WellFormed /\ Top = stack[Len(stack)] /\ FrameOK(Top, Len(code))
      /\ Len(stack) \in 1..Len(stack)
  BY Basics, TopFrame
<1>3. /\ Top.b1 \in 2..Len(code) /\ Top.b2 \in 2..Len(code)
      /\ Top.phase = "else" => Top.kind = "if"
      /\ Top.phase = "body" => Top.kind = "while"
  BY <1>2 DEF FrameOK, Frame
<1>4. w \in 1..Len(src) /\ src[w].tok = Top.kind
  BY <1>2, Basics
<1>5. Top.b2 \in 1..Len(code) /\ code[Top.b2] = << >> /\ Top.b2 # ip
  <2>1. Top.b2 \in Pending(Top)
    BY <1>3 DEF Pending
  <2> QED BY <2>1, HeldBlock
<1>6. b \in 2..Len(code)
  BY <1>3
<1>7. Grows(code, ip, code', ip') /\ Goes(code', ip', ip, p, b)
  BY <1>1, <1>5, <1>6, JoinGrows
<1>8. /\ Len(code') = Len(code)
      /\ \A d \in 1..Len(code) : d # ip => code'[d] = code[d]
  BY <1>1, <1>2, <1>6, JoinBranches
<1> QED BY <1>3, <1>4, <1>5, <1>7, <1>8

LEMMA EndTraced ==
  ASSUME NEW b, NEW s, NEW blk, NEW idx, NEW num, NEW d, NEW q,
         Following, stack # << >>, Top.phase = "else" \/ Top.phase = "body", b \in {Top.b1, Top.b2},
         \E tail \in TailOps(ip) : code' = BrUnlessBranch(code, b, tail),
         d \in 1..Len(code'), q \in 1..Len(code'[d]), Born(code, code', d, q)
  PROVE  Traced(s, d, q, code'[d][q], blk, idx, num)
<1>1. PICK tail \in TailOps(ip) : code' = BrUnlessBranch(code, b, tail)
  OBVIOUS
<1>2. FrameOK(Top, Len(code))
  BY Basics, TopFrame
<1>3. b \in 2..Len(code)
  BY <1>2 DEF FrameOK, Frame
<1> QED BY <1>1, <1>3, JoinTraced

LEMMA EndIfFollows ==
  ASSUME NEW blk, NEW idx, NEW num,
         Following, WellFormed', Follows(blk, idx, num), "br" \notin EmptyTail, EndIf
  PROVE  \E a, b, c : Follows(a, b, c)'
<1>1. /\ status = "generating" /\ status' = status /\ stack # << >>
      /\ Top.phase = "else" /\ Top.done /\ ip' = Top.b2 /\ stack' = Return(Pop)
      /\ src' = Append(src, Token("endif", Top.at))
      /\ \E tail \in TailOps(ip) : code' = BrUnlessBranch(code, Top.b2, tail)
  BY DEF EndIf
<1>2. PICK n : n = Len(src) + 1
  OBVIOUS
<1>3. PICK k : k = n + 1
  OBVIOUS
<1>4. PICK w : w = Top.at
  OBVIOUS
<1>5. PICK p : p = Len(code[ip]) + 1
  OBVIOUS
<1>6. /\ w \in 1..Len(src) /\ src[w].tok = Top.kind /\ Top.kind = "if"
      /\ code'[ip'] = << >> /\ ip' \in 1..Len(code') /\ Len(code') = Len(code)
      /\ Grows(code, ip, code', ip') /\ Goes(code', ip', ip, p, Top.b2)
  BY <1>1, <1>4, <1>5, EndStarts
<1>7. Top.b1 = num[w] + 2 /\ Top.b2 = num[w] + 3
  BY <1>1, <1>4, <1>6, Basics, TopFrame DEF Follows, Holding
<1>8. PICK t \in Token_ : t.tok = "endif" /\ t.of = w /\ src' = Append(src, t)
  <2>1. w \in Nat
    BY <1>6
  <2> QED BY <1>1, <1>4, <2>1, IsToken
<1>9. PICK d : d = ip'
  OBVIOUS
<1>10. PICK blk2, idx2, num2 :
         Extended(src, t, src', n, k, blk, idx, num, d, 1, 0, blk2, idx2, num2)
  BY <1>2, <1>3, <1>8 DEF Extended
<1>11. /\ n \in Nat \ {0} /\ n = Len(src) + 1 /\ Len(src') = n /\ src'[n] = t
       /\ blk2[n] = blk[n] /\ idx2[n] = idx[n] /\ num2[n] = 0
       /\ k = n + 1 /\ blk2[k] = d /\ idx2[k] = 1
  BY <1>10, Points
<1>12. \A j \in 1..Len(src) : src'[j] = src[j] /\ num2[j] = num[j]
  BY <1>10, Before
<1>13. Longer(src, src')
  BY <1>8, Basics, LongerOne
<1>14. Current(src, code, ip, stack, blk, idx)
  BY <1>1 DEF Follows
<1>15. /\ blk[n] \in 1..Len(code') /\ idx[n] \in Nat \ {0}
       /\ Goes(code', ip', blk[n], idx[n], Top.b2)
       /\ HasElse(src', w) \/ In(code', Top.b1, 1, Br(0, Top.b2))
       /\ Elses(src, stack, Len(stack) - 1)
  <2>1. blk[n] \in 1..Len(code) /\ idx[n] \in Nat \ {0}
    BY <1>2, <1>14 DEF Current
  <2>2. CASE blk[n] = ip /\ idx[n] = Len(code[ip]) + 1 /\ Elses(src, stack, Len(stack))
    <3>1. HasElse(src, w)
      BY <1>1, <1>4, <2>2, Basics, TopFrame DEF Elses
    <3>2. HasElse(src', w)
      BY <1>13, <3>1, ElseLonger
    <3>3. Elses(src, stack, Len(stack) - 1)
      BY <2>2, Basics DEF Elses
    <3> QED BY <1>5, <1>6, <2>1, <2>2, <3>2, <3>3
  <2>3. CASE /\ Elses(src, stack, Len(stack) - 1)
             /\ ip = Top.b1 /\ code[ip] = << >>
             /\ Goes(code, ip, blk[n], idx[n], Top.b2)
    <3>1. Goes(code', ip', blk[n], idx[n], Top.b2)
      BY <1>6, <2>1, <2>3, GoesGrows
    <3>2. p = 1
      BY <1>5, <2>3
    <3>3. In(code', ip, 1, Br(0, Top.b2))
      <4>1. ~Dead(code', ip, 1)
        BY DEF Dead
      <4> QED BY <1>6, <3>2, <4>1 DEF Goes
    <3> QED BY <1>6, <2>1, <2>3, <3>1, <3>3
  <2> QED BY <1>2, <1>14, <2>2, <2>3 DEF Current, Top
<1>16. Does(src', code', ip', blk2, idx2, num2, n)
  <2>1. w \in 1..(n - 1)
    BY <1>2, <1>6, Basics
  <2>2. src'[w].tok = "if" /\ num2[w] = num[w]
    BY <1>6, <1>12
  <2>3. Goes(code', ip', blk2[n], idx2[n], num2[w] + 3)
    BY <1>7, <1>11, <1>15, <2>2
  <2>4. HasElse(src', w) \/ In(code', num2[w] + 2, 1, Br(0, num2[w] + 3))
    BY <1>7, <1>15, <2>2
  <2>5. blk2[n + 1] = num2[w] + 3 /\ idx2[n + 1] = 1
    BY <1>1, <1>7, <1>9, <1>11, <2>2
  <2>6. src'[n].tok = "endif" /\ src'[n].of = w
    BY <1>8, <1>11
  <2>7. blk2[n] \in 1..Len(code') /\ idx2[n] \in Nat \ {0} /\ num2[n] \in Nat
    BY <1>11, <1>15
  <2> QED BY <2>1, <2>2, <2>3, <2>4, <2>5, <2>6, <2>7 DEF Does
<1>17. Holding(stack', num2) /\ Handled(src', stack') /\ Elses(src', stack', Len(stack'))
  <2>1. t.tok \in EndTokens /\ t.of = Top.at
    BY <1>4, <1>8 DEF EndTokens
  <2>2. Holding(stack, num) /\ Handled(src, stack) /\ Elses(src, stack, Len(stack) - 1)
    BY <1>15 DEF Follows
  <2>3. \A j \in 1..Len(src) : num2[j] = num[j]
    BY <1>12
  <2> QED BY <1>1, <1>8, <2>1, <2>2, <2>3, StackPopped, Zenon
<1>18. \A b \in 1..Len(code') : \A q \in 1..Len(code'[b]) :
         Born(code, code', b, q) => Traced(src', b, q, code'[b][q], blk2, idx2, num2)
  <2>1. Top.b2 \in {Top.b1, Top.b2}
    OBVIOUS
  <2> QED BY <1>1, <2>1, EndTraced
<1>19. 1 = Len(code'[ip']) + 1
  BY <1>6
<1>20. Extended(src, t, src', n, k, blk, idx, num, ip', 1, 0, blk2, idx2, num2)
  BY <1>9, <1>10
<1> QED BY <1>1, <1>6, <1>16, <1>17, <1>18, <1>19, <1>20, StepFollows

LEMMA EndWhileFollows ==
  ASSUME NEW blk, NEW idx, NEW num,
         Following, WellFormed', Follows(blk, idx, num), "br" \notin EmptyTail, EndWhile
  PROVE  \E a, b, c : Follows(a, b, c)'
<1>1. /\ status = "generating" /\ status' = status /\ stack # << >>
      /\ Top.phase = "body" /\ Top.done /\ ip' = Top.b2 /\ stack' = Return(Pop)
      /\ src' = Append(src, Token("endwhile", Top.at))
      /\ \E tail \in TailOps(ip) : code' = BrUnlessBranch(code, Top.b1, tail)
  BY DEF EndWhile
<1>2. PICK n : n = Len(src) + 1
  OBVIOUS
<1>3. PICK k : k = n + 1
  OBVIOUS
<1>4. PICK w : w = Top.at
  OBVIOUS
<1>5. PICK p : p = Len(code[ip]) + 1
  OBVIOUS
<1>6. /\ w \in 1..Len(src) /\ src[w].tok = Top.kind /\ Top.kind = "while"
      /\ code'[ip'] = << >> /\ ip' \in 1..Len(code') /\ Len(code') = Len(code)
      /\ Grows(code, ip, code', ip') /\ Goes(code', ip', ip, p, Top.b1)
  BY <1>1, <1>4, <1>5, EndStarts
<1>7. Top.b1 = num[w] + 1 /\ Top.b2 = num[w] + 3
  BY <1>1, <1>4, <1>6, Basics, TopFrame DEF Follows, Holding
<1>8. PICK t \in Token_ : t.tok = "endwhile" /\ t.of = w /\ src' = Append(src, t)
  <2>1. w \in Nat
    BY <1>6
  <2> QED BY <1>1, <1>4, <2>1, IsToken
<1>9. PICK d : d = ip'
  OBVIOUS
<1>10. PICK blk2, idx2, num2 :
         Extended(src, t, src', n, k, blk, idx, num, d, 1, 0, blk2, idx2, num2)
  BY <1>2, <1>3, <1>8 DEF Extended
<1>11. /\ n \in Nat \ {0} /\ n = Len(src) + 1 /\ Len(src') = n /\ src'[n] = t
       /\ blk2[n] = blk[n] /\ idx2[n] = idx[n] /\ num2[n] = 0
       /\ k = n + 1 /\ blk2[k] = d /\ idx2[k] = 1
  BY <1>10, Points
<1>12. \A j \in 1..Len(src) : src'[j] = src[j] /\ num2[j] = num[j]
  BY <1>10, Before
<1>13. Longer(src, src')
  BY <1>8, Basics, LongerOne
<1>14. Ready(blk, idx)
  BY <1>1, IsReady
<1>15. /\ blk[n] \in 1..Len(code') /\ idx[n] \in Nat \ {0}
       /\ Goes(code', ip', blk[n], idx[n], Top.b1)
       /\ Elses(src, stack, Len(stack) - 1)
  <2>1. blk[n] = ip /\ idx[n] = p /\ p \in Nat \ {0} /\ ip \in 1..Len(code)
    BY <1>2, <1>5, <1>14, Basics DEF Ready
  <2>2. Elses(src, stack, Len(stack) - 1)
    BY <1>14, Basics DEF Ready, Elses
  <2> QED BY <1>6, <2>1, <2>2
<1>16. Does(src', code', ip', blk2, idx2, num2, n)
  <2>1. w \in 1..(n - 1)
    BY <1>2, <1>6, Basics
  <2>2. src'[w].tok = "while" /\ num2[w] = num[w]
    BY <1>6, <1>12
  <2>3. Goes(code', ip', blk2[n], idx2[n], num2[w] + 1)
    BY <1>7, <1>11, <1>15, <2>2
  <2>4. blk2[n + 1] = num2[w] + 3 /\ idx2[n + 1] = 1
    BY <1>1, <1>7, <1>9, <1>11, <2>2
  <2>5. src'[n].tok = "endwhile" /\ src'[n].of = w
    BY <1>8, <1>11
  <2>6. blk2[n] \in 1..Len(code') /\ idx2[n] \in Nat \ {0} /\ num2[n] \in Nat
    BY <1>11, <1>15
  <2> QED BY <2>1, <2>2, <2>3, <2>4, <2>5, <2>6 DEF Does
<1>17. Holding(stack', num2) /\ Handled(src', stack') /\ Elses(src', stack', Len(stack'))
  <2>1. t.tok \in EndTokens /\ t.of = Top.at
    BY <1>4, <1>8 DEF EndTokens
  <2>2. Holding(stack, num) /\ Handled(src, stack) /\ Elses(src, stack, Len(stack) - 1)
    BY <1>15 DEF Follows
  <2>3. \A j \in 1..Len(src) : num2[j] = num[j]
    BY <1>12
  <2> QED BY <1>1, <1>8, <2>1, <2>2, <2>3, StackPopped, Zenon
<1>18. \A b \in 1..Len(code') : \A q \in 1..Len(code'[b]) :
         Born(code, code', b, q) => Traced(src', b, q, code'[b][q], blk2, idx2, num2)
  <2>1. Top.b1 \in {Top.b1, Top.b2}
    OBVIOUS
  <2> QED BY <1>1, <2>1, EndTraced
<1>19. 1 = Len(code'[ip']) + 1
  BY <1>6
<1>20. Extended(src, t, src', n, k, blk, idx, num, ip', 1, 0, blk2, idx2, num2)
  BY <1>9, <1>10
<1> QED BY <1>1, <1>6, <1>16, <1>17, <1>18, <1>19, <1>20, StepFollows

\* The end of codeGenFunc.
LEMMA EndFuncFollows ==
  ASSUME NEW blk, NEW idx, NEW num,
         Following, WellFormed', Follows(blk, idx, num), "ret" \notin EmptyTail, EndFunc
  PROVE  Follows(blk, idx, num)'
<1>1. /\ status = "generating" /\ status' = "emitted" /\ stack = << >>
      /\ src' = src /\ stack' = stack /\ ip' = ip
  BY DEF EndFunc
<1>2. PICK tail \in TailOps(ip) : code' = RetUnlessRet(code, tail)
  BY DEF EndFunc
<1>3. PICK p : p = Len(code[ip]) + 1
  OBVIOUS
<1>4. /\ CodeOK(code) /\ ip \in 1..Len(code) /\ InstrOK(Ret(0), Len(code))
      /\ Len(code[ip]) \in Nat /\ Len(code) \in Nat
  BY Basics, Instructions
<1>5. Ready(blk, idx)
  BY <1>1, IsReady
<1>6. /\ Grows(code, ip, code', ip) /\ ip \in 1..Len(code')
      /\ In(code', ip, p, Ret(0)) \/ Dead(code', ip, p)
  <2>1. CASE tail = "ret"
    <3>1. code' = code
      BY <1>2, <2>1 DEF RetUnlessRet
    <3>2. p - 1 \in 1..Len(code[ip]) /\ code[ip][p - 1].op = "ret"
      BY <1>3, <2>1, TailFound
    <3>3. Dead(code, ip, p)
      BY <1>3, <1>4, <3>2 DEF Dead, IsTerminator
    <3>4. Grows(code, ip, code, ip)
      BY <1>4, SameGrows
    <3> QED BY <1>4, <3>1, <3>3, <3>4
  <2>2. CASE tail # "ret"
    <3>1. code' = Emit(code, ip, Ret(0))
      BY <1>2, <2>2 DEF RetUnlessRet
    <3>2. Grows(code, ip, code', ip) /\ In(code', ip, p, Ret(0)) /\ Len(code') = Len(code)
      BY <1>3, <1>4, <3>1, EmitGrows
    <3> QED BY <1>4, <3>2
  <2> QED BY <2>1, <2>2
<1>7. ASSUME NEW d \in 1..Len(code'), NEW q \in 1..Len(code'[d]), Born(code, code', d, q)
      PROVE  Traced(src, d, q, code'[d][q], blk, idx, num)
  <2>1. PICK x : x = Ret(0)
    OBVIOUS
  <2>2. code' # code
    BY <1>7 DEF Born
  <2>3. code' = Emit(code, ip, x)
    BY <1>2, <2>1, <2>2 DEF RetUnlessRet
  <2>4. /\ d \in 1..Len(Emit(code, ip, x)) /\ q \in 1..Len(Emit(code, ip, x)[d])
        /\ Born(code, Emit(code, ip, x), d, q)
    BY <1>7, <2>3
  <2>5. InstrOK(x, Len(code))
    BY <1>4, <2>1
  <2>6. Emit(code, ip, x)[d][q] = x
    BY <1>4, <2>4, <2>5, EmitBorn, Zenon
  <2> QED BY <2>1, <2>3, <2>6, SilentTraced
<1>8. Longer(src, src)
  BY Basics DEF Longer
<1>9. Agree(Len(src), blk, idx, num, blk, idx, num)
  BY DEF Agree
<1>10. Path(src, code', ip, blk, idx, num)
  <2>1. Path(src, code, ip, blk, idx, num)
    BY DEF Follows
  <2>2. \A i \in 1..Len(src) :
          i \in 1..Len(src) \/ Does(src, code', ip, blk, idx, num, i)
    OBVIOUS
  <2> QED BY <1>6, <1>8, <1>9, <2>1, <2>2, PathGrows
<1>11. Origin(src, code', blk, idx, num)
  <2>1. Origin(src, code, blk, idx, num)
    BY DEF Follows
  <2>2. \A b \in 1..Len(code') : \A q \in 1..Len(code'[b]) :
          \/ b \in 1..Len(code) /\ q \in 1..Len(code[b])
          \/ Traced(src, b, q, code'[b][q], blk, idx, num)
    BY <1>7 DEF Born
  <2> QED BY <1>6, <1>8, <1>9, <2>1, <2>2, OriginGrows
<1>12. Final(src, code', blk, idx)
  <2>1. blk[Len(src) + 1] = ip /\ idx[Len(src) + 1] = p /\ p \in Nat \ {0}
    BY <1>3, <1>4, <1>5 DEF Ready
  <2> QED BY <1>6, <2>1 DEF Final
<1>13. Holding(stack, num) /\ Handled(src, stack)
  BY DEF Follows
<1> QED BY <1>1, <1>10, <1>11, <1>12, <1>13 DEF Follows

-----------------------------------------------------------------------------
(* The invariant *)

LEMMA InitFollowing == Init => Following
<1> SUFFICES ASSUME Init PROVE Following
  OBVIOUS
<1>1. /\ Len(src) = 1 /\ src[1].tok = "block" /\ code = << << >> >> /\ ip = 1
      /\ stack = <<BlockFrame(1)>> /\ status = "generating"
      /\ Len(code) = 1 /\ code[1] = << >> /\ Len(stack) = 1 /\ stack[1] = BlockFrame(1)
  BY DEF Init, Token, Entry
<1>2. PICK blk : blk = [i \in 1..2 |-> 1]
  OBVIOUS
<1>3. PICK num : num = [i \in 1..1 |-> 0]
  OBVIOUS
<1>4. blk[1] = 1 /\ blk[2] = 1 /\ num[1] = 0
  BY <1>2, <1>3
<1>5. Does(src, code, ip, blk, blk, num, 1)
  BY <1>1, <1>4 DEF Does
<1>6. Path(src, code, ip, blk, blk, num)
  BY <1>1, <1>4, <1>5 DEF Path, Entry
<1>7. Origin(src, code, blk, blk, num)
  BY <1>1 DEF Origin
<1>8. Holding(stack, num) /\ Elses(src, stack, Len(stack))
  BY <1>1 DEF Holding, Elses, BlockFrame
<1>9. Handled(src, stack)
  BY <1>1 DEF Handled
<1>10. Current(src, code, ip, stack, blk, blk)
  BY <1>1, <1>4, <1>8 DEF Current
<1>11. Follows(blk, blk, num)
  BY <1>1, <1>6, <1>7, <1>8, <1>9, <1>10 DEF Follows
<1> QED BY <1>11, InitLocated, InitOwnership DEF Following

LEMMA NextFollowing ==
  ASSUME "br" \notin EmptyTail, "ret" \notin EmptyTail
  PROVE  Following /\ [Next]_vars => Following'
<1> SUFFICES ASSUME Following, [Next]_vars PROVE Following'
  OBVIOUS
<1>1. Located' /\ Ownership' /\ WellFormed'
  BY NextLocated, NextOwnership DEF Following, Ownership
<1>2. ASSUME status' # "error" PROVE \E a, b, c : Follows(a, b, c)'
  <2>1. CASE UNCHANGED vars \/ Finished
    <3>1. UNCHANGED vars
      BY <2>1 DEF Finished
    <3>2. PICK blk, idx, num : Follows(blk, idx, num)
      BY <1>2, <3>1 DEF vars, Following
    <3>3. Follows(blk, idx, num)'
      BY <3>1, <3>2 DEF vars, Follows
    <3> QED BY <3>3
  <2>2. CASE Step
    <3>1. status = "generating"
      BY <2>2 DEF Step, ExprStmt, EmptyStmt, ReturnStmt, ContinueStmt, BreakStmt, BreakOrContinue,
                  Leaf, AwaitsStmt, OpenBlock, CloseBlock, BeginIf, EndThen, EndIf, BeginWhile,
                  EndWhile, EndFunc
    <3>2. PICK blk, idx, num : Follows(blk, idx, num)
      BY <3>1 DEF Following
    <3>3. CASE ExprStmt
      <4>1. /\ Leaf("effect") /\ code' = Emit(code, ip, Inst(Here))
            /\ stack' = Return(stack) /\ status' = status
        BY <3>3 DEF ExprStmt
      <4> QED BY <1>1, <3>2, <4>1, SimpleFollows
    <3>4. CASE ReturnStmt
      <4>1. /\ Leaf("return_void") \/ Leaf("return_value")
            /\ code' = Emit(code, ip, Ret(Here))
            /\ stack' = Return(stack) /\ status' = status
        BY <3>4 DEF ReturnStmt
      <4>2. PICK tok \in {"return_void", "return_value"} : Leaf(tok)
        BY <4>1
      <4> QED BY <1>1, <3>2, <4>1, <4>2, SimpleFollows
    <3>5. CASE ContinueStmt
      <4>1. BreakOrContinue("continue", 1)
        BY <3>5 DEF ContinueStmt
      <4> QED BY <1>1, <1>2, <3>2, <4>1, JumpFollows
    <3>6. CASE BreakStmt
      <4>1. BreakOrContinue("break", 2)
        BY <3>6 DEF BreakStmt
      <4> QED BY <1>1, <1>2, <3>2, <4>1, JumpFollows
    <3>7. CASE EmptyStmt \/ OpenBlock \/ CloseBlock
      BY <1>1, <3>2, <3>7, QuietStepFollows
    <3>8. CASE BeginIf
      BY <1>1, <3>2, <3>8, BeginIfFollows
    <3>9. CASE BeginWhile
      BY <1>1, <3>2, <3>9, BeginWhileFollows
    <3>10. CASE EndThen
      BY <1>1, <3>2, <3>10, EndThenFollows
    <3>11. CASE EndIf
      BY <1>1, <3>2, <3>11, EndIfFollows
    <3>12. CASE EndWhile
      BY <1>1, <3>2, <3>12, EndWhileFollows
    <3>13. CASE EndFunc
      <4>1. Follows(blk, idx, num)'
        BY <1>1, <3>2, <3>13, EndFuncFollows
      <4> QED BY <4>1
    <3> QED
      BY <2>2, <3>3, <3>4, <3>5, <3>6, <3>7, <3>8, <3>9, <3>10, <3>11, <3>12, <3>13 DEF Step
  <2> QED BY <2>1, <2>2 DEF Next
<1> QED BY <1>1, <1>2 DEF Following

\* Every token of the source has the point of the code that stands for it, in
\* every state and for every function.
THEOREM PointsAreKept ==
  ASSUME "br" \notin EmptyTail, "ret" \notin EmptyTail
  PROVE  Spec => []Following
BY InitFollowing, NextFollowing, PTL DEF Spec
-----------------------------------------------------------------------------
(* Functions that are defined by recursion *)

LEMMA Induct ==
  ASSUME NEW T, 0 \in T, \A n \in Nat : n \in T => n + 1 \in T
  PROVE  Nat \subseteq T
<1> SUFFICES ASSUME Nat \ T # {} PROVE FALSE
  OBVIOUS
<1>1. PICK n \in Nat \ T : \A k \in Nat \ T : n <= k
  BY Least
<1>2. n # 0 /\ n - 1 \in Nat /\ n - 1 \notin Nat \ T
  BY <1>1
<1> QED BY <1>2

\* f[i] is val[i], or what f is at the place that i goes on with.
Down(f, N, go, val) == f = [i \in 1..N |-> IF go[i] = 0 THEN val[i] ELSE f[go[i]]]

\* A function on 1..N whose value at i is given, or is that at a later place.
LEMMA Downward ==
  ASSUME NEW N \in Nat, NEW go, NEW val,
         \A i \in 1..N : go[i] = 0 \/ go[i] \in (i + 1)..N
  PROVE  \E f : Down(f, N, go, val)
<1> DEFINE Good(f, m) == f = [i \in (N + 1 - m)..N |-> IF go[i] = 0 THEN val[i] ELSE f[go[i]]]
           T == {m \in Nat : m <= N => \E f : Good(f, m)}
<1>1. 0 \in T
  <2> DEFINE f == [i \in (N + 1 - 0)..N |-> val[i]]
  <2>1. (N + 1 - 0)..N = {}
    OBVIOUS
  <2>2. Good(f, 0)
    BY <2>1
  <2> QED BY <2>2
<1>2. ASSUME NEW m \in Nat, m \in T PROVE m + 1 \in T
  <2> SUFFICES ASSUME m + 1 <= N PROVE \E f : Good(f, m + 1)
    OBVIOUS
  <2>1. PICK f : Good(f, m)
    BY <1>2
  <2>2. PICK p : p = N - m
    OBVIOUS
  <2>3. p \in 1..N /\ N + 1 - m = p + 1 /\ N + 1 - (m + 1) = p
    BY <2>2
  <2> DEFINE g == [i \in p..N |-> IF i = p THEN (IF go[p] = 0 THEN val[p] ELSE f[go[p]]) ELSE f[i]]
  <2>4. \A i \in (p + 1)..N : f[i] = IF go[i] = 0 THEN val[i] ELSE f[go[i]]
    BY <2>1, <2>3
  <2>5. ASSUME NEW i \in p..N PROVE g[i] = IF go[i] = 0 THEN val[i] ELSE g[go[i]]
    <3>1. i \in 1..N /\ p \in Nat
      BY <2>3
    <3>2. go[i] # 0 => go[i] \in p..N /\ go[i] # p
      <4>1. go[i] # 0 => go[i] \in (i + 1)..N
        BY <3>1
      <4> QED BY <3>1, <4>1
    <3>3. go[i] # 0 => g[go[i]] = f[go[i]]
      BY <3>2
    <3>4. CASE i = p
      BY <3>3, <3>4
    <3>5. CASE i # p
      <4>1. i \in (p + 1)..N
        BY <3>1, <3>5
      <4> QED BY <2>4, <3>3, <3>5, <4>1
    <3> QED BY <3>4, <3>5
  <2>6. g = [i \in p..N |-> IF go[i] = 0 THEN val[i] ELSE g[go[i]]]
    BY <2>5
  <2>7. Good(g, m + 1)
    BY <2>3, <2>6
  <2> QED BY <2>7
<1>3. N \in T
  <2> HIDE DEF T
  <2>1. Nat \subseteq T
    BY <1>1, <1>2, Induct
  <2> QED BY <2>1
<1>4. PICK f : Good(f, N)
  BY <1>3
<1>5. N + 1 - N = 1
  OBVIOUS
<1>6. Down(f, N, go, val)
  BY <1>4, <1>5 DEF Down
<1> QED BY <1>6

-----------------------------------------------------------------------------
(* What the tokens of the source mean *)

\* Where an if or a while ends.
LEMMA EndOf ==
  ASSUME NEW blk, NEW idx, NEW num, NEW w \in 1..Len(src),
         Following, Follows(blk, idx, num), status = "emitted", src[w].tok \in {"if", "while"}
  PROVE  /\ Closer(w) \in 1..Len(src) /\ src[Closer(w)].of = w /\ Closer(w) \in Ends(src, w)
         /\ src[w].tok = "if" => src[Closer(w)].tok = "endif"
         /\ src[w].tok = "while" => /\ src[Closer(w)].tok = "endwhile"
                                    /\ Ends(src, w) = {Closer(w)}
         /\ w < Closer(w)
<1>1. stack = << >> /\ Handled(src, stack) /\ Path(src, code, ip, blk, idx, num)
  BY DEF Follows
<1>2. ~HasHandler(stack, w)
  BY <1>1, EmptySeq DEF HasHandler
<1>3. Ends(src, w) # {}
  BY <1>1, <1>2 DEF Handled
<1>4. Ends(src, w) = {j \in Positions : src[j].of = w /\ Tok(j) \in {"endblock", "endif", "endwhile"}}
  BY DEF Ends, EndTokens, Positions, Tok
<1>5. Closer(w) \in Ends(src, w)
  <2>1. PICK j \in Positions : src[j].of = w /\ Tok(j) \in {"endblock", "endif", "endwhile"}
    BY <1>3, <1>4
  <2>2. /\ Closer(w) \in Positions /\ src[Closer(w)].of = w
        /\ Tok(Closer(w)) \in {"endblock", "endif", "endwhile"}
    BY <2>1 DEF Closer
  <2> QED BY <1>4, <2>2
<1>6. PICK c : c = Closer(w)
  OBVIOUS
<1>7. c \in 1..Len(src) /\ src[c].of = w /\ src[c].tok \in {"endblock", "endif", "endwhile"}
  BY <1>5, <1>6 DEF Ends, EndTokens
<1>8. Does(src, code, ip, blk, idx, num, c)
  BY <1>1, <1>7 DEF Path
<1>9. /\ w \in 1..(c - 1)
      /\ src[c].tok = "endblock" => src[w].tok = "block"
      /\ src[c].tok = "endif" => src[w].tok = "if"
      /\ src[c].tok = "endwhile" => src[w].tok = "while"
  BY <1>7, <1>8 DEF Does
<1>10. /\ src[w].tok = "if" => src[c].tok = "endif"
       /\ src[w].tok = "while" => src[c].tok = "endwhile"
  BY <1>7, <1>9
<1>11. w < c
  <2>1. w \in Nat /\ c \in Nat
    BY <1>7
  <2> QED BY <1>9, <2>1
<1>12. src[w].tok = "while" => Ends(src, w) = {c}
  <2> SUFFICES ASSUME src[w].tok = "while" PROVE Ends(src, w) = {c}
    OBVIOUS
  <2>1. HasEnded(src, w)
    BY <1>2 DEF Following, Located, Framed
  <2> QED BY <1>5, <1>6, <2>1 DEF HasEnded
<1> QED BY <1>5, <1>6, <1>7, <1>10, <1>11, <1>12

\* The loop that a break or continue is taken to be in is the innermost around it.
LEMMA LoopOf ==
  ASSUME NEW blk, NEW idx, NEW num, NEW i \in 1..Len(src), NEW l,
         Following, Follows(blk, idx, num), status = "emitted", Around(src, i, l)
  PROVE  LoopAround(i) = l /\ i < Closer(l) /\ l \in 1..Len(src) /\ src[l].tok = "while"
<1>1. Len(src) \in Nat
  BY Basics
<1>2. l \in 1..(i - 1) /\ l \in 1..Len(src) /\ l < i /\ src[l].tok = "while"
  BY <1>1 DEF Around
<1>3. i < Closer(l)
  <2>1. Closer(l) \in Ends(src, l)
    BY <1>2, EndOf
  <2> QED BY <2>1 DEF Around
<1>4. l \in LoopsAround(i)
  BY <1>2, <1>3 DEF LoopsAround, Positions, Tok
<1>5. ASSUME NEW v \in LoopsAround(i) PROVE v <= l
  <2>1. v \in 1..Len(src) /\ src[v].tok = "while" /\ v < i /\ i < Closer(v)
    BY <1>5 DEF LoopsAround, Positions, Tok
  <2>2. v \in Nat /\ l \in Nat /\ i \in Nat
    BY <1>2, <2>1
  <2> SUFFICES ASSUME l < v PROVE FALSE
    BY <2>2
  <2>3. v \in (l + 1)..(i - 1)
    BY <2>1, <2>2
  <2>4. PICK j \in Ends(src, v) : j < i
    BY <2>1, <2>3 DEF Around
  <2>5. Ends(src, v) = {Closer(v)} /\ Closer(v) \in 1..Len(src)
    BY <2>1, EndOf
  <2>6. Closer(v) < i /\ Closer(v) \in Nat
    BY <2>4, <2>5
  <2> QED BY <2>1, <2>2, <2>6
<1>6. LoopAround(i) \in LoopsAround(i) /\ \A v \in LoopsAround(i) : v <= LoopAround(i)
  BY <1>4, <1>5 DEF LoopAround
<1>7. LoopAround(i) \in Nat /\ l \in Nat
  BY <1>2, <1>6 DEF LoopsAround, Positions
<1>8. LoopAround(i) <= l /\ l <= LoopAround(i)
  BY <1>4, <1>5, <1>6
<1>9. LoopAround(i) = l
  BY <1>7, <1>8
<1> QED BY <1>2, <1>3, <1>9

LEMMA TokenKinds ==
  ASSUME NEW i \in 1..Len(src), Following
  PROVE  src[i].tok \in {"effect", "if", "while", "return_void", "return_value", "block", "endblock",
                         "endif", "empty", "else", "endwhile", "break", "continue"}
<1>1. src[i] \in Token_
  BY Basics, ElementOfSeq
<1> QED BY <1>1 DEF Token_, LeafTokens

\* The recursion of SourceNext always goes on with a later token.
LEMMA SourceLater ==
  ASSUME NEW blk, NEW idx, NEW num, NEW i \in 1..Len(src),
         Following, Follows(blk, idx, num), status = "emitted"
  PROVE  /\ src[i].tok = "else" => /\ src[i].of \in 1..Len(src) /\ src[src[i].of].tok = "if"
                                   /\ Closer(src[i].of) + 1 \in (i + 1)..(Len(src) + 1)
         /\ src[i].tok = "break" => Closer(LoopAround(i)) + 1 \in (i + 1)..(Len(src) + 1)
<1>1. Does(src, code, ip, blk, idx, num, i) /\ Len(src) \in Nat
  BY Basics DEF Follows, Path
<1>2. CASE src[i].tok = "else"
  <2>1. PICK w : w = src[i].of
    OBVIOUS
  <2>2. w \in 1..(i - 1) /\ src[w].tok = "if" /\ \A j \in Ends(src, w) : i < j
    BY <1>1, <1>2, <2>1 DEF Does
  <2>3. w \in 1..Len(src)
    BY <1>1, <2>2
  <2>4. Closer(w) \in Ends(src, w) /\ Closer(w) \in 1..Len(src)
    BY <2>2, <2>3, EndOf
  <2>5. i < Closer(w)
    BY <2>2, <2>4
  <2>6. Closer(w) + 1 \in (i + 1)..(Len(src) + 1)
    BY <1>1, <2>4, <2>5
  <2> QED BY <1>2, <2>1, <2>2, <2>3, <2>6
<1>3. CASE src[i].tok = "break"
  <2>1. PICK l \in 1..(i - 1) : Around(src, i, l)
    BY <1>1, <1>3 DEF Does
  <2>2. LoopAround(i) = l /\ i < Closer(l) /\ l \in 1..Len(src) /\ src[l].tok = "while"
    BY <2>1, LoopOf
  <2>3. Closer(l) \in 1..Len(src)
    BY <2>2, EndOf
  <2>4. Closer(l) + 1 \in (i + 1)..(Len(src) + 1)
    BY <1>1, <2>2, <2>3
  <2> QED BY <1>3, <2>2, <2>4
<1> QED BY <1>2, <1>3

\* Where the meaning of token i goes on, 0 if it is val there.
Later(i) ==
  IF i = Len(src) + 1 \/ Observed(i) THEN 0
  ELSE IF Tok(i) \in {"block", "endblock", "endif", "empty"} THEN i + 1
  ELSE IF Tok(i) = "else" THEN Closer(src[i].of) + 1
  ELSE IF Tok(i) = "break" THEN Closer(LoopAround(i)) + 1
  ELSE 0

Given(i) ==
  IF i = Len(src) + 1 THEN FallsOff
  ELSE IF Observed(i) THEN i
  ELSE IF Tok(i) = "endwhile" THEN src[i].of
  ELSE LoopAround(i)

LEMMA SourceMeans ==
  ASSUME NEW blk, NEW idx, NEW num,
         Following, Follows(blk, idx, num), status = "emitted"
  PROVE  \A i \in 1..(Len(src) + 1) :
           SourceNext[i] = IF Later(i) = 0 THEN Given(i) ELSE SourceNext[Later(i)]
<1>1. Len(src) \in Nat
  BY Basics
<1>2. PICK N \in Nat : N = Len(src) + 1
  BY <1>1
<1>3. PICK go : go = [i \in 1..N |-> Later(i)]
  OBVIOUS
<1>4. PICK val : val = [i \in 1..N |-> Given(i)]
  OBVIOUS
<1>5. ASSUME NEW i \in 1..N PROVE go[i] = 0 \/ go[i] \in (i + 1)..N
  <2>1. go[i] = Later(i)
    BY <1>3
  <2>2. CASE i = Len(src) + 1
    BY <2>1, <2>2 DEF Later
  <2>3. CASE i # Len(src) + 1
    <3>1. i \in 1..Len(src)
      BY <1>1, <1>2, <2>3
    <3>2. /\ src[i].tok = "else" => Closer(src[i].of) + 1 \in (i + 1)..N
          /\ src[i].tok = "break" => Closer(LoopAround(i)) + 1 \in (i + 1)..N
      BY <1>2, <3>1, SourceLater
    <3>3. i + 1 \in (i + 1)..N
      BY <1>1, <1>2, <3>1
    <3> QED BY <2>1, <3>2, <3>3 DEF Later, Tok
  <2> QED BY <2>2, <2>3
<1>51. \A i \in 1..N : go[i] = 0 \/ go[i] \in (i + 1)..N
  BY <1>5
<1>6. PICK f : Down(f, N, go, val)
  BY <1>51, Downward
<1> DEFINE Short(g, i) == IF Later(i) = 0 THEN Given(i) ELSE g[Later(i)]
           Full(g, i) == IF i = Len(src) + 1 THEN FallsOff
                    ELSE IF Observed(i) THEN i
                    ELSE CASE Tok(i) \in {"block", "endblock", "endif", "empty"} -> g[i + 1]
                           [] Tok(i) = "else"     -> g[Closer(src[i].of) + 1]
                           [] Tok(i) = "endwhile" -> src[i].of
                           [] Tok(i) = "break"    -> g[Closer(LoopAround(i)) + 1]
                           [] Tok(i) = "continue" -> LoopAround(i)
<1>7. ASSUME NEW g, NEW i \in 1..N
      PROVE  Short(g, i) = Full(g, i)
  <2>1. CASE i = Len(src) + 1
    BY <2>1 DEF Later, Given
  <2>2. CASE i # Len(src) + 1
    <3>1. i \in 1..Len(src)
      BY <1>1, <1>2, <2>2
    <3>2. /\ Tok(i) = "else" => Closer(src[i].of) + 1 # 0
          /\ Tok(i) = "break" => Closer(LoopAround(i)) + 1 # 0
          /\ i + 1 # 0
      BY <1>1, <3>1, SourceLater DEF Tok
    <3>3. CASE Observed(i)
      BY <2>2, <3>3 DEF Later, Given
    <3>4. CASE ~Observed(i)
      <4>1. Tok(i) \in {"block", "endblock", "endif", "empty", "else", "endwhile", "break", "continue"}
        BY <3>1, <3>4, TokenKinds DEF Observed, Tok
      <4>2. CASE Tok(i) \in {"block", "endblock", "endif", "empty"}
        BY <2>2, <3>2, <3>4, <4>2 DEF Later, Given
      <4>3. CASE Tok(i) = "else"
        BY <2>2, <3>2, <3>4, <4>3 DEF Later, Given
      <4>4. CASE Tok(i) = "endwhile"
        BY <2>2, <3>2, <3>4, <4>4 DEF Later, Given
      <4>5. CASE Tok(i) = "break"
        BY <2>2, <3>2, <3>4, <4>5 DEF Later, Given
      <4>6. CASE Tok(i) = "continue"
        BY <2>2, <3>2, <3>4, <4>6 DEF Later, Given
      <4> QED BY <4>1, <4>2, <4>3, <4>4, <4>5, <4>6
    <3> QED BY <3>3, <3>4
  <2> QED BY <2>1, <2>2
<1>8. f = [i \in 1..(Len(src) + 1) |-> Full(f, i)]
  <2>1. \A i \in 1..N : f[i] = Short(f, i)
    BY <1>3, <1>4, <1>6 DEF Down
  <2> HIDE DEF Short, Full
  <2>2. \A i \in 1..N : f[i] = Full(f, i)
    BY <1>7, <2>1
  <2>3. f = [i \in 1..N |-> f[i]]
    BY <1>6 DEF Down
  <2> QED BY <1>2, <2>2, <2>3
<1>9. SourceNext = [i \in 1..(Len(src) + 1) |-> Full(SourceNext, i)]
  BY <1>8 DEF SourceNext
<1>10. \A i \in 1..N : SourceNext[i] = Full(SourceNext, i)
  <2> HIDE DEF Full
  <2> QED BY <1>2, <1>9
<1>11. \A i \in 1..N : SourceNext[i] = Short(SourceNext, i)
  <2> HIDE DEF Short, Full
  <2> QED BY <1>7, <1>10
<1> QED BY <1>2, <1>11

\* Where control lands after at most n silent branches, for every n up to m.
Landing(f, m) == f = [n \in 0..m |->
                        IF n = 0 THEN [b \in Created |-> Stuck]
                        ELSE [b \in Created |-> Observe(b, 1, f[n - 1])]]

LEMMA LandingExists == \A m \in Nat : \E f : Landing(f, m)
<1> DEFINE T == {m \in Nat : \E f : Landing(f, m)}
           First == [b \in Created |-> Stuck]
           Then(l) == [b \in Created |-> Observe(b, 1, l)]
<1>1. 0 \in T
  <2> DEFINE f == [n \in 0..0 |-> First]
  <2>1. \A n \in 0..0 : n = 0
    OBVIOUS
  <2>2. Landing(f, 0)
    BY <2>1 DEF Landing
  <2> QED BY <2>2
<1>2. ASSUME NEW m \in Nat, m \in T PROVE m + 1 \in T
  <2>1. PICK f : Landing(f, m)
    BY <1>2
  <2> DEFINE g == [n \in 0..(m + 1) |-> IF n = m + 1 THEN Then(f[m]) ELSE f[n]]
  <2> HIDE DEF Then, First
  <2>2. \A n \in 0..m : f[n] = IF n = 0 THEN First ELSE Then(f[n - 1])
    BY <2>1 DEF Landing, Then, First
  <2>3. ASSUME NEW n \in 0..(m + 1)
        PROVE  g[n] = IF n = 0 THEN First ELSE Then(g[n - 1])
    <3>1. CASE n = m + 1
      <4>1. n - 1 = m /\ m \in 0..(m + 1) /\ m # m + 1 /\ n # 0
        BY <3>1
      <4>2. g[m] = f[m] /\ g[n] = Then(f[m])
        BY <3>1, <4>1
      <4> HIDE DEF g
      <4> QED BY <4>1, <4>2
    <3>2. CASE n # m + 1
      <4>1. n \in 0..m /\ g[n] = f[n]
        BY <3>2
      <4>2. n # 0 => n - 1 \in 0..(m + 1) /\ n - 1 # m + 1
        BY <3>2
      <4>3. n # 0 => g[n - 1] = f[n - 1]
        BY <4>2
      <4> HIDE DEF g
      <4> QED BY <2>2, <4>1, <4>3
    <3> QED BY <3>1, <3>2
  <2>4. g = [n \in 0..(m + 1) |-> IF n = 0 THEN First ELSE Then(g[n - 1])]
    <3>1. g = [n \in 0..(m + 1) |-> g[n]]
      OBVIOUS
    <3> HIDE DEF g
    <3> QED BY <2>3, <3>1
  <2>5. Landing(g, m + 1)
    <3> HIDE DEF g
    <3> QED BY <2>4 DEF Landing, Then, First
  <2> HIDE DEF g
  <2> QED BY <2>5
<1> HIDE DEF T
<1>3. Nat \subseteq T
  BY <1>1, <1>2, Induct
<1> QED BY <1>3 DEF T

LEMMA LandMeans ==
  ASSUME Len(src) \in Nat
  PROVE  \E land : /\ Land = land[Len(src)]
                   /\ \A n \in 1..Len(src) : \A b \in Created : land[n][b] = Observe(b, 1, land[n - 1])
<1>1. \E f : f = [n \in 0..Len(src) |->
                    IF n = 0 THEN [b \in Created |-> Stuck]
                    ELSE [b \in Created |-> Observe(b, 1, f[n - 1])]]
  BY LandingExists DEF Landing
<1> DEFINE h == CHOOSE f : f = [n \in 0..Len(src) |->
                    IF n = 0 THEN [b \in Created |-> Stuck]
                    ELSE [b \in Created |-> Observe(b, 1, f[n - 1])]]
<1>2. h = [n \in 0..Len(src) |->
                    IF n = 0 THEN [b \in Created |-> Stuck]
                    ELSE [b \in Created |-> Observe(b, 1, h[n - 1])]]
  BY <1>1
<1>3. Land = h[Len(src)]
  BY DEF Land
<1> HIDE DEF h
<1>4. ASSUME NEW n \in 1..Len(src), NEW b \in Created
      PROVE  h[n][b] = Observe(b, 1, h[n - 1])
  <2>1. n \in 0..Len(src) /\ n # 0
    OBVIOUS
  <2>2. h[n] = [d \in Created |-> Observe(d, 1, h[n - 1])]
    BY <1>2, <2>1
  <2> QED BY <2>2
<1> QED BY <1>3, <1>4

-----------------------------------------------------------------------------
(* The code at the point of a token leads where the token does *)

LEMMA SourceCases ==
  ASSUME NEW blk, NEW idx, NEW num, NEW i \in 1..Len(src),
         Following, Follows(blk, idx, num), status = "emitted"
  PROVE  /\ src[i].tok \in {"effect", "if", "while", "return_void", "return_value"} => SourceNext[i] = i
         /\ src[i].tok \in {"block", "endblock", "endif", "empty"} => SourceNext[i] = SourceNext[i + 1]
         /\ src[i].tok = "else" => SourceNext[i] = SourceNext[Closer(src[i].of) + 1]
         /\ src[i].tok = "endwhile" => SourceNext[i] = src[i].of
         /\ src[i].tok = "break" => SourceNext[i] = SourceNext[Closer(LoopAround(i)) + 1]
         /\ src[i].tok = "continue" => SourceNext[i] = LoopAround(i)
<1>1. Len(src) \in Nat /\ i \in 1..(Len(src) + 1) /\ i # Len(src) + 1 /\ i + 1 # 0
  BY Basics
<1>2. SourceNext[i] = IF Later(i) = 0 THEN Given(i) ELSE SourceNext[Later(i)]
  BY <1>1, SourceMeans
<1>3. /\ src[i].tok = "else" => Closer(src[i].of) + 1 # 0
      /\ src[i].tok = "break" => Closer(LoopAround(i)) + 1 # 0
  BY <1>1, SourceLater
<1>4. Tok(i) = src[i].tok
  BY DEF Tok
<1>5. CASE src[i].tok \in {"effect", "if", "while", "return_void", "return_value"}
  <2>1. Later(i) = 0 /\ Given(i) = i
    BY <1>1, <1>4, <1>5 DEF Later, Given, Observed
  <2> QED BY <1>2, <1>5, <2>1
<1>6. CASE src[i].tok \in {"block", "endblock", "endif", "empty"}
  <2>1. Later(i) = i + 1
    BY <1>1, <1>4, <1>6 DEF Later, Observed
  <2> QED BY <1>1, <1>2, <1>6, <2>1
<1>7. CASE src[i].tok = "else"
  <2>1. Later(i) = Closer(src[i].of) + 1
    BY <1>1, <1>4, <1>7 DEF Later, Observed
  <2> QED BY <1>2, <1>3, <1>7, <2>1
<1>8. CASE src[i].tok = "endwhile"
  <2>1. Later(i) = 0 /\ Given(i) = src[i].of
    BY <1>1, <1>4, <1>8 DEF Later, Given, Observed
  <2> QED BY <1>2, <1>8, <2>1
<1>9. CASE src[i].tok = "break"
  <2>1. Later(i) = Closer(LoopAround(i)) + 1
    BY <1>1, <1>4, <1>9 DEF Later, Observed
  <2> QED BY <1>2, <1>3, <1>9, <2>1
<1>10. CASE src[i].tok = "continue"
  <2>1. Later(i) = 0 /\ Given(i) = LoopAround(i)
    BY <1>1, <1>4, <1>10 DEF Later, Given, Observed
  <2> QED BY <1>2, <1>10, <2>1
<1> QED BY <1>5, <1>6, <1>7, <1>8, <1>9, <1>10

LEMMA SourceEnds ==
  ASSUME NEW blk, NEW idx, NEW num,
         Following, Follows(blk, idx, num), status = "emitted"
  PROVE  SourceNext[Len(src) + 1] = FallsOff
<1>1. Len(src) + 1 \in 1..(Len(src) + 1)
  BY Basics
<1>2. Later(Len(src) + 1) = 0 /\ Given(Len(src) + 1) = FallsOff
  BY DEF Later, Given
<1> QED BY <1>1, <1>2, SourceMeans

\* What is observed from an instruction on.
LEMMA ObserveIn ==
  ASSUME NEW b, NEW k, NEW land
  PROVE  /\ \A at, m : In(code, b, k, Br(at, m)) => Observe(b, k, land) = land[m]
         /\ \A at, m, e : In(code, b, k, CondBr(at, m, e)) => Observe(b, k, land) = at
         /\ \A at : In(code, b, k, Ret(at)) => Observe(b, k, land) = at
         /\ \A at : In(code, b, k, Inst(at)) => Observe(b, k, land) = at
<1> SUFFICES ASSUME k \in 1..Len(code[b]), NEW x, x = code[b][k]
             PROVE  Observe(b, k, land) = IF x.op = "br" /\ Len(x.to) = 1 THEN land[x.to[1]] ELSE x.at
  BY SMTT(30) DEF In, Br, CondBr, Ret, Inst
<1> QED BY DEF Observe

\* land[n] is where control lands after at most n silent branches.
Lands(land) == \A n \in 1..Len(src) : \A b \in Created : land[n][b] = Observe(b, 1, land[n - 1])

\* From the k-th place of b on, with branches left for the tokens from i on, the
\* next observation is that of the source at i, if control can be there.
Arrives(land, b, k, i) ==
  ~Dead(code, b, k) =>
    \A d \in 0..Len(src) : Len(src) + 1 <= d + i => Observe(b, k, land[d]) = SourceNext[i]

LEMMA PointInCode ==
  ASSUME NEW blk, NEW idx, NEW num, NEW i \in 1..(Len(src) + 1),
         Following, Follows(blk, idx, num), status = "emitted"
  PROVE  blk[i] \in 1..Len(code) /\ idx[i] \in Nat \ {0} /\ blk[i] \in Created
<1>1. blk[i] \in 1..Len(code) /\ idx[i] \in Nat \ {0}
  <2>1. CASE i = Len(src) + 1
    BY <2>1 DEF Follows, Final
  <2>2. CASE i # Len(src) + 1
    <3>1. i \in 1..Len(src)
      BY <2>2, Basics
    <3> QED BY <3>1 DEF Follows, Path, Does
  <2> QED BY <2>1, <2>2
<1> QED BY <1>1 DEF Created

LEMMA StartNotDead ==
  ASSUME NEW b
  PROVE  ~Dead(code, b, 1)
BY DEF Dead

LEMMA ArrivesAt ==
  ASSUME NEW land, NEW b, NEW k, NEW i, NEW v, SourceNext[i] = v,
         ASSUME NEW d \in 0..Len(src), Len(src) + 1 <= d + i PROVE Observe(b, k, land[d]) = v
  PROVE  Arrives(land, b, k, i)
BY DEF Arrives

\* A branch to the point of a later token.
LEMMA JumpsOn ==
  ASSUME NEW land, NEW b, NEW k, NEW at, NEW m \in Created, NEW i \in 1..Len(src),
         NEW j \in 1..(Len(src) + 1), NEW v, i < j, Following,
         Lands(land), In(code, b, k, Br(at, m)), Arrives(land, m, 1, j),
         SourceNext[i] = v, SourceNext[j] = v
  PROVE  Arrives(land, b, k, i)
<1>1. Len(src) \in Nat /\ Arrives(land, m, 1, j)
  BY Basics
<1>2. ASSUME NEW d \in 0..Len(src), Len(src) + 1 <= d + i
      PROVE  Observe(b, k, land[d]) = v
  <2>1. PICK e : e = d - 1
    OBVIOUS
  <2>2. d \in 1..Len(src) /\ e \in 0..Len(src) /\ Len(src) + 1 <= e + j
    BY <1>1, <1>2, <2>1
  <2>3. Observe(b, k, land[d]) = land[d][m]
    BY ObserveIn
  <2>4. land[d][m] = Observe(m, 1, land[e])
    BY <2>1, <2>2 DEF Lands
  <2>5. Observe(m, 1, land[e]) = v
    BY <1>1, <2>2, StartNotDead DEF Arrives
  <2> QED BY <2>3, <2>4, <2>5
<1> QED BY <1>2, ArrivesAt

\* A branch to the condition of a loop.
LEMMA JumpsBack ==
  ASSUME NEW land, NEW b, NEW k, NEW at, NEW m \in Created, NEW i \in 1..Len(src), NEW w, NEW e, NEW f,
         Following, Lands(land), In(code, b, k, Br(at, m)), In(code, m, 1, CondBr(w, e, f)), SourceNext[i] = w
  PROVE  Arrives(land, b, k, i)
<1> SUFFICES ASSUME NEW d \in 0..Len(src), Len(src) + 1 <= d + i
             PROVE  Observe(b, k, land[d]) = SourceNext[i]
  BY DEF Arrives
<1>1. Len(src) \in Nat
  BY Basics
<1>2. d \in 1..Len(src)
  BY <1>1
<1>3. Observe(b, k, land[d]) = land[d][m]
  BY ObserveIn
<1>4. land[d][m] = Observe(m, 1, land[d - 1])
  BY <1>2 DEF Lands
<1>5. Observe(m, 1, land[d - 1]) = w
  BY ObserveIn
<1> QED BY <1>3, <1>4, <1>5

LEMMA ArrivesEnd ==
  ASSUME NEW land, NEW blk, NEW idx, NEW num, NEW n, n = Len(src) + 1,
         Following, Follows(blk, idx, num), status = "emitted"
  PROVE  Arrives(land, blk[n], idx[n], n)
<1>1. In(code, blk[n], idx[n], Ret(0)) \/ Dead(code, blk[n], idx[n])
  BY DEF Follows, Final
<1>2. SourceNext[n] = FallsOff
  BY SourceEnds
<1>3. CASE In(code, blk[n], idx[n], Ret(0))
  <2>1. \A d : Observe(blk[n], idx[n], land[d]) = 0
    BY <1>3, ObserveIn
  <2>2. FallsOff = 0
    BY DEF FallsOff
  <2> QED BY <1>2, <2>1, <2>2, ArrivesAt
<1>4. CASE Dead(code, blk[n], idx[n])
  BY <1>4 DEF Arrives
<1> QED BY <1>1, <1>3, <1>4

LEMMA ObservedArrives ==
  ASSUME NEW land, NEW blk, NEW idx, NEW num, NEW i \in 1..Len(src), NEW b, NEW k, b = blk[i], k = idx[i],
         Following, Follows(blk, idx, num), status = "emitted",
         src[i].tok \in {"effect", "if", "return_void", "return_value"}
  PROVE  Arrives(land, b, k, i)
<1>1. Does(src, code, ip, blk, idx, num, i)
  BY DEF Follows, Path
<1>2. SourceNext[i] = i
  BY SourceCases
<1>3. \/ In(code, b, k, Inst(i)) \/ In(code, b, k, Ret(i))
      \/ In(code, b, k, CondBr(i, num[i] + 1, num[i] + 2))
  BY <1>1 DEF Does
<1>4. \A d : Observe(b, k, land[d]) = i
  BY <1>3, ObserveIn
<1> QED BY <1>2, <1>4, ArrivesAt

\* The point behind an if or a while is the one its last block starts.
LEMMA EndPoint ==
  ASSUME NEW blk, NEW idx, NEW num, NEW w \in 1..Len(src),
         Following, Follows(blk, idx, num), status = "emitted", src[w].tok \in {"if", "while"}
  PROVE  /\ blk[Closer(w) + 1] = num[w] + 3 /\ idx[Closer(w) + 1] = 1
         /\ Closer(w) + 1 \in 1..(Len(src) + 1)
<1>1. PICK c : c = Closer(w)
  OBVIOUS
<1>2. c \in 1..Len(src) /\ src[c].of = w /\ src[c].tok \in {"endif", "endwhile"}
  BY <1>1, EndOf
<1>3. Does(src, code, ip, blk, idx, num, c)
  BY <1>2 DEF Follows, Path
<1>4. blk[c + 1] = num[w] + 3 /\ idx[c + 1] = 1
  BY <1>2, <1>3 DEF Does
<1>5. c + 1 \in 1..(Len(src) + 1)
  BY <1>2, Basics
<1> QED BY <1>1, <1>4, <1>5

\* The condition of a while is in its first block.
LEMMA HeadPoint ==
  ASSUME NEW blk, NEW idx, NEW num, NEW w \in 1..Len(src), NEW m,
         Following, Follows(blk, idx, num), status = "emitted", src[w].tok = "while", m = num[w] + 1
  PROVE  In(code, m, 1, CondBr(w, num[w] + 2, num[w] + 3)) /\ m \in Created
<1>1. Does(src, code, ip, blk, idx, num, w)
  BY DEF Follows, Path
<1>2. In(code, m, 1, CondBr(w, num[w] + 2, num[w] + 3))
  BY <1>1 DEF Does
<1> QED BY <1>2 DEF In, Created

\* A branch to the end of an if or a while that is met later.
LEMMA EndArrives ==
  ASSUME NEW land, NEW blk, NEW idx, NEW num, NEW i \in 1..Len(src), NEW b, NEW k, NEW at,
         NEW w \in 1..Len(src),
         Following, Follows(blk, idx, num), status = "emitted", Lands(land),
         \A j \in (i + 1)..(Len(src) + 1) : Arrives(land, blk[j], idx[j], j),
         src[w].tok \in {"if", "while"}, i <= Closer(w), In(code, b, k, Br(at, num[w] + 3)),
         SourceNext[i] = SourceNext[Closer(w) + 1]
  PROVE  Arrives(land, b, k, i)
<1>1. PICK j : j = Closer(w) + 1
  OBVIOUS
<1>2. PICK m : m = num[w] + 3
  OBVIOUS
<1>3. blk[j] = m /\ idx[j] = 1 /\ j \in 1..(Len(src) + 1) /\ m \in Created
  <2>1. /\ blk[Closer(w) + 1] = num[w] + 3 /\ idx[Closer(w) + 1] = 1
        /\ Closer(w) + 1 \in 1..(Len(src) + 1)
    BY EndPoint
  <2>2. blk[j] = m /\ idx[j] = 1 /\ j \in 1..(Len(src) + 1)
    BY <1>1, <1>2, <2>1
  <2> QED BY <2>2, PointInCode
<1>4. Closer(w) \in 1..Len(src)
  BY EndOf
<1>5. j \in (i + 1)..(Len(src) + 1) /\ i < j
  BY <1>1, <1>4, Basics
<1>6. Arrives(land, m, 1, j)
  BY <1>3, <1>5
<1>7. In(code, b, k, Br(at, m)) /\ SourceNext[i] = SourceNext[j]
  BY <1>1, <1>2
<1> QED BY <1>3, <1>5, <1>6, <1>7, JumpsOn

\* A branch to the condition of a while.
LEMMA HeadArrives ==
  ASSUME NEW land, NEW blk, NEW idx, NEW num, NEW i \in 1..Len(src), NEW b, NEW k, NEW at,
         NEW w \in 1..Len(src),
         Following, Follows(blk, idx, num), status = "emitted", Lands(land),
         src[w].tok = "while", In(code, b, k, Br(at, num[w] + 1)), SourceNext[i] = w
  PROVE  Arrives(land, b, k, i)
<1>1. PICK m : m = num[w] + 1
  OBVIOUS
<1>2. In(code, m, 1, CondBr(w, num[w] + 2, num[w] + 3)) /\ m \in Created
  BY <1>1, HeadPoint
<1> QED BY <1>1, <1>2, JumpsBack

LEMMA ArrivesStep ==
  ASSUME NEW land, NEW blk, NEW idx, NEW num, NEW i \in 1..Len(src),
         Following, Follows(blk, idx, num), status = "emitted", Lands(land),
         \A j \in (i + 1)..(Len(src) + 1) : Arrives(land, blk[j], idx[j], j)
  PROVE  Arrives(land, blk[i], idx[i], i)
<1>1. PICK b, k : b = blk[i] /\ k = idx[i]
  OBVIOUS
<1>2. Does(src, code, ip, blk, idx, num, i) /\ Len(src) \in Nat
  BY Basics DEF Follows, Path
<1>3. PICK w : w = src[i].of
  OBVIOUS
<1>4. ASSUME Goes(code, ip, b, k, num[w] + 3), w \in 1..Len(src), src[w].tok \in {"if", "while"},
             i <= Closer(w), SourceNext[i] = SourceNext[Closer(w) + 1]
      PROVE  Arrives(land, b, k, i)
  <2>1. CASE In(code, b, k, Br(0, num[w] + 3))
    BY <1>4, <2>1, EndArrives
  <2>2. CASE Dead(code, b, k)
    BY <2>2 DEF Arrives
  <2> QED BY <1>4, <2>1, <2>2 DEF Goes
<1>5. CASE src[i].tok \in {"effect", "if", "return_void", "return_value"}
  BY <1>1, <1>5, ObservedArrives
<1>6. CASE src[i].tok = "while"
  <2>1. In(code, b, k, Br(0, num[i] + 1)) /\ SourceNext[i] = i
    BY <1>1, <1>2, <1>6, SourceCases DEF Does
  <2> QED BY <1>1, <1>6, <2>1, HeadArrives
<1>7. CASE src[i].tok \in {"block", "endblock", "empty"}
  <2>1. PICK j : j = i + 1
    OBVIOUS
  <2>2. blk[j] = b /\ idx[j] = k /\ SourceNext[i] = SourceNext[j]
    BY <1>1, <1>2, <1>7, <2>1, SourceCases DEF Does
  <2>3. j \in (i + 1)..(Len(src) + 1)
    BY <1>2, <2>1
  <2>4. Arrives(land, b, k, j)
    BY <2>2, <2>3
  <2>5. ASSUME NEW d \in 0..Len(src), Len(src) + 1 <= d + i PROVE Len(src) + 1 <= d + j
    BY <1>2, <2>1, <2>5
  <2> QED BY <1>1, <2>2, <2>4, <2>5 DEF Arrives
<1>8. CASE src[i].tok = "else"
  <2>1. w \in 1..(i - 1) /\ src[w].tok = "if" /\ Goes(code, ip, b, k, num[w] + 3)
    BY <1>1, <1>2, <1>3, <1>8 DEF Does
  <2>2. w \in 1..Len(src) /\ Closer(w) + 1 \in (i + 1)..(Len(src) + 1)
    BY <1>3, <1>8, SourceLater
  <2>3. Closer(w) \in 1..Len(src)
    BY <2>1, <2>2, EndOf
  <2>4. i <= Closer(w)
    BY <1>2, <2>2, <2>3
  <2>5. SourceNext[i] = SourceNext[Closer(w) + 1]
    BY <1>3, <1>8, SourceCases
  <2> QED BY <1>1, <1>4, <2>1, <2>2, <2>4, <2>5
<1>9. CASE src[i].tok = "endif"
  <2>1. w \in 1..(i - 1) /\ src[w].tok = "if" /\ Goes(code, ip, b, k, num[w] + 3)
        /\ blk[i + 1] = num[w] + 3 /\ idx[i + 1] = 1
    BY <1>1, <1>2, <1>3, <1>9 DEF Does
  <2>2. PICK j : j = i + 1
    OBVIOUS
  <2>3. PICK m : m = num[w] + 3
    OBVIOUS
  <2>4. j \in (i + 1)..(Len(src) + 1) /\ j \in 1..(Len(src) + 1) /\ i < j
    BY <1>2, <2>2
  <2>5. Arrives(land, m, 1, j) /\ m \in Created
    BY <2>1, <2>2, <2>3, <2>4, PointInCode
  <2>6. SourceNext[i] = SourceNext[j]
    BY <1>9, <2>2, SourceCases
  <2>7. CASE In(code, b, k, Br(0, num[w] + 3))
    <3>1. In(code, b, k, Br(0, m))
      BY <2>3, <2>7
    <3> QED BY <1>1, <2>4, <2>5, <2>6, <3>1, JumpsOn
  <2>8. CASE Dead(code, b, k)
    BY <1>1, <2>8 DEF Arrives
  <2> QED BY <2>1, <2>7, <2>8 DEF Goes
<1>10. CASE src[i].tok = "endwhile"
  <2>1. w \in 1..(i - 1) /\ src[w].tok = "while" /\ Goes(code, ip, b, k, num[w] + 1)
    BY <1>1, <1>2, <1>3, <1>10 DEF Does
  <2>5. SourceNext[i] = w
    BY <1>3, <1>10, SourceCases
  <2>2. w \in 1..Len(src) /\ SourceNext[i] = w
    BY <1>2, <2>1, <2>5
  <2>3. CASE In(code, b, k, Br(0, num[w] + 1))
    BY <1>1, <2>1, <2>2, <2>3, HeadArrives
  <2>4. CASE Dead(code, b, k)
    BY <1>1, <2>4 DEF Arrives
  <2> QED BY <2>1, <2>3, <2>4 DEF Goes
<1>11. CASE src[i].tok \in {"break", "continue"}
  <2>1. PICK l \in 1..(i - 1) :
          /\ Around(src, i, l)
          /\ In(code, b, k, Br(i, IF src[i].tok = "break" THEN num[l] + 3 ELSE num[l] + 1))
    BY <1>1, <1>2, <1>11 DEF Does
  <2>2. LoopAround(i) = l /\ i < Closer(l) /\ l \in 1..Len(src) /\ src[l].tok = "while"
    BY <2>1, LoopOf
  <2>3. CASE src[i].tok = "break"
    <3>1. In(code, b, k, Br(i, num[l] + 3)) /\ SourceNext[i] = SourceNext[Closer(l) + 1]
      BY <2>1, <2>2, <2>3, SourceCases
    <3>2. Closer(l) \in Nat
      BY <2>2, EndOf
    <3>3. i <= Closer(l)
      BY <2>2, <3>2
    <3> QED BY <1>1, <2>2, <3>1, <3>3, EndArrives
  <2>4. CASE src[i].tok = "continue"
    <3>1. In(code, b, k, Br(i, num[l] + 1)) /\ SourceNext[i] = l
      BY <2>1, <2>2, <2>4, SourceCases
    <3> QED BY <1>1, <2>2, <3>1, HeadArrives
  <2> QED BY <1>11, <2>3, <2>4
<1> QED BY <1>5, <1>6, <1>7, <1>8, <1>9, <1>10, <1>11, TokenKinds

LEMMA PointsArrive ==
  ASSUME NEW land, NEW blk, NEW idx, NEW num,
         Following, Follows(blk, idx, num), status = "emitted", Lands(land)
  PROVE  \A i \in 1..(Len(src) + 1) : Arrives(land, blk[i], idx[i], i)
<1>1. PICK N : N = Len(src) + 1
  OBVIOUS
<1>2. N \in Nat /\ Len(src) \in Nat
  BY <1>1, Basics
<1> DEFINE T == {m \in Nat : \A i \in 1..N : N <= i + m => Arrives(land, blk[i], idx[i], i)}
<1>3. 0 \in T
  <2>1. Arrives(land, blk[N], idx[N], N)
    BY <1>1, ArrivesEnd
  <2>2. \A i \in 1..N : N <= i + 0 => i = N
    BY <1>2
  <2> QED BY <2>1, <2>2
<1>4. ASSUME NEW m \in Nat, m \in T PROVE m + 1 \in T
  <2>1. \A j \in 1..N : N <= j + m => Arrives(land, blk[j], idx[j], j)
    BY <1>4
  <2>2. ASSUME NEW i \in 1..N, N <= i + (m + 1) PROVE Arrives(land, blk[i], idx[i], i)
    <3>1. CASE i = N
      BY <1>1, <3>1, ArrivesEnd
    <3>2. CASE i # N
      <4>1. i \in 1..Len(src)
        BY <1>1, <1>2, <3>2
      <4>2. \A j \in (i + 1)..N : j \in 1..N /\ N <= j + m
        BY <1>2, <2>2, <4>1
      <4>3. \A j \in (i + 1)..(Len(src) + 1) : Arrives(land, blk[j], idx[j], j)
        BY <1>1, <2>1, <4>2
      <4> QED BY <4>1, <4>3, ArrivesStep
    <3> QED BY <3>1, <3>2
  <2> QED BY <2>2
<1>5. N \in T
  <2> HIDE DEF T
  <2> QED BY <1>2, <1>3, <1>4, Induct
<1>6. ASSUME NEW i \in 1..N PROVE Arrives(land, blk[i], idx[i], i)
  BY <1>2, <1>5
<1> QED BY <1>1, <1>6

\* What is observed in the code from a point, or after a branch to one.
LEMMA PointMeans ==
  ASSUME NEW blk, NEW idx, NEW num, NEW i \in 1..(Len(src) + 1),
         Following, Follows(blk, idx, num), status = "emitted", ~Dead(code, blk[i], idx[i])
  PROVE  /\ CodeNext(blk[i], idx[i]) = SourceNext[i]
         /\ i # 1 /\ idx[i] = 1 =>
              \A b, k : In(code, b, k, Br(0, blk[i])) => CodeNext(b, k) = SourceNext[i]
<1>1. Len(src) \in Nat
  BY Basics
<1>2. PICK land : Land = land[Len(src)] /\ Lands(land)
  BY <1>1, LandMeans DEF Lands
<1>3. Arrives(land, blk[i], idx[i], i)
  BY <1>2, PointsArrive
<1>4. \A d \in 0..Len(src) : Len(src) + 1 <= d + i => Observe(blk[i], idx[i], land[d]) = SourceNext[i]
  BY <1>3 DEF Arrives
<1>5. CodeNext(blk[i], idx[i]) = SourceNext[i]
  <2>1. Len(src) \in 0..Len(src) /\ Len(src) + 1 <= Len(src) + i
    BY <1>1
  <2>2. Observe(blk[i], idx[i], land[Len(src)]) = SourceNext[i]
    BY <1>4, <2>1
  <2> QED BY <1>2, <2>2 DEF CodeNext
<1>6. ASSUME i # 1, idx[i] = 1, NEW b, NEW k, In(code, b, k, Br(0, blk[i]))
      PROVE  CodeNext(b, k) = SourceNext[i]
  <2>1. PICK d : d = Len(src) - 1
    OBVIOUS
  <2>2. d \in 0..Len(src) /\ Len(src) + 1 <= d + i /\ Len(src) \in 1..Len(src)
    BY <1>1, <1>6, <2>1
  <2>3. CodeNext(b, k) = land[Len(src)][blk[i]]
    BY <1>2, <1>6, ObserveIn DEF CodeNext
  <2>4. blk[i] \in Created
    BY PointInCode
  <2>5. land[Len(src)][blk[i]] = Observe(blk[i], 1, land[d])
    BY <1>2, <2>1, <2>2, <2>4 DEF Lands
  <2>6. Observe(blk[i], 1, land[d]) = SourceNext[i]
    BY <1>4, <1>6, <2>2
  <2> QED BY <2>3, <2>5, <2>6
<1> QED BY <1>5, <1>6

\* The two outcomes of a condition.
LEMMA OutcomesMean ==
  ASSUME NEW blk, NEW idx, NEW num, NEW w \in 1..Len(src),
         Following, Follows(blk, idx, num), status = "emitted"
  PROVE  /\ src[w].tok = "if" => /\ CodeNext(num[w] + 1, 1) = WhenTrue(w)
                                 /\ CodeNext(num[w] + 2, 1) = WhenFalse(w)
         /\ src[w].tok = "while" => /\ CodeNext(num[w] + 2, 1) = WhenTrue(w)
                                    /\ CodeNext(num[w] + 3, 1) = WhenFalse(w)
<1>1. PICK i : i = w + 1
  OBVIOUS
<1>2. i \in 1..(Len(src) + 1)
  BY <1>1, Basics
<1>3. Does(src, code, ip, blk, idx, num, w)
  BY DEF Follows, Path
<1>4. /\ src[w].tok = "if" => blk[i] = num[w] + 1 /\ idx[i] = 1
      /\ src[w].tok = "while" => blk[i] = num[w] + 2 /\ idx[i] = 1
  BY <1>1, <1>3 DEF Does
<1>5. /\ src[w].tok = "if" => CodeNext(num[w] + 1, 1) = WhenTrue(w)
      /\ src[w].tok = "while" => CodeNext(num[w] + 2, 1) = WhenTrue(w)
  <2>1. idx[i] = 1 => CodeNext(blk[i], idx[i]) = SourceNext[i]
    BY <1>2, StartNotDead, PointMeans
  <2> QED BY <1>1, <1>4, <2>1 DEF WhenTrue
<1> DEFINE elses == {j \in Positions : Tok(j) = "else" /\ src[j].of = w}
<1>6. WhenFalse(w) = IF elses # {} THEN SourceNext[(CHOOSE j \in elses : TRUE) + 1]
                     ELSE SourceNext[Closer(w) + 1]
  BY DEF WhenFalse
<1>7. ASSUME elses # {}
      PROVE  src[w].tok = "if" /\ CodeNext(num[w] + 2, 1) = WhenFalse(w)
  <2>1. PICK j : j = CHOOSE e \in elses : TRUE
    OBVIOUS
  <2>2. j \in elses
    BY <1>7, <2>1
  <2>3. j \in 1..Len(src) /\ src[j].tok = "else" /\ src[j].of = w
    BY <2>2 DEF Positions, Tok
  <2>4. Does(src, code, ip, blk, idx, num, j)
    BY <2>3 DEF Follows, Path
  <2>5. src[w].tok = "if" /\ blk[j + 1] = num[w] + 2 /\ idx[j + 1] = 1
    BY <2>3, <2>4 DEF Does
  <2>6. j + 1 \in 1..(Len(src) + 1)
    BY <2>3, Basics
  <2>7. CodeNext(blk[j + 1], idx[j + 1]) = SourceNext[j + 1]
    BY <2>5, <2>6, StartNotDead, PointMeans
  <2> QED BY <1>6, <1>7, <2>1, <2>5, <2>7
<1>8. ASSUME elses = {}, src[w].tok \in {"if", "while"}
      PROVE  /\ src[w].tok = "if" => CodeNext(num[w] + 2, 1) = WhenFalse(w)
             /\ src[w].tok = "while" => CodeNext(num[w] + 3, 1) = WhenFalse(w)
  <2>1. PICK c : c = Closer(w)
    OBVIOUS
  <2>2. PICK j : j = c + 1
    OBVIOUS
  <2>3. blk[j] = num[w] + 3 /\ idx[j] = 1 /\ j \in 1..(Len(src) + 1)
    <3>1. /\ blk[Closer(w) + 1] = num[w] + 3 /\ idx[Closer(w) + 1] = 1
          /\ Closer(w) + 1 \in 1..(Len(src) + 1)
      BY <1>8, EndPoint
    <3> QED BY <2>1, <2>2, <3>1
  <2>4. c \in 1..Len(src) /\ src[c].of = w /\ (src[w].tok = "if" => src[c].tok = "endif")
    BY <1>8, <2>1, EndOf
  <2>5. ~Dead(code, blk[j], idx[j]) /\ j # 1
    BY <2>2, <2>3, <2>4, StartNotDead
  <2>6. WhenFalse(w) = SourceNext[j]
    BY <1>6, <1>8, <2>1, <2>2
  <2>7. CASE src[w].tok = "while"
    <3>1. CodeNext(blk[j], idx[j]) = SourceNext[j]
      BY <2>3, <2>5, PointMeans
    <3> QED BY <2>3, <2>6, <2>7, <3>1
  <2>8. CASE src[w].tok = "if"
    <3>1. Does(src, code, ip, blk, idx, num, c)
      BY <2>4 DEF Follows, Path
    <3>2. ~HasElse(src, w)
      BY <1>8 DEF HasElse, Positions, Tok
    <3>3. In(code, num[w] + 2, 1, Br(0, num[w] + 3))
      BY <2>4, <2>8, <3>1, <3>2 DEF Does
    <3>4. In(code, num[w] + 2, 1, Br(0, blk[j]))
      BY <2>3, <3>3
    <3>5. \A b, k : In(code, b, k, Br(0, blk[j])) => CodeNext(b, k) = SourceNext[j]
      BY <2>3, <2>5, PointMeans
    <3>6. CodeNext(num[w] + 2, 1) = SourceNext[j]
      BY <3>4, <3>5
    <3> QED BY <2>6, <2>8, <3>6
  <2> QED BY <1>8, <2>7, <2>8
<1> HIDE DEF elses
<1> QED BY <1>5, <1>7, <1>8

LEMMA FollowingMeans ==
  ASSUME Following
  PROVE  CodeFollowsSource
<1> SUFFICES ASSUME status = "emitted"
             PROVE  /\ CodeNext(Entry, 1) = SourceNext[1]
                    /\ \A b \in Created : \A k \in 1..Len(code[b]) :
                         LET i == code[b][k]
                         IN  /\ i.op = "other" => CodeNext(b, k + 1) = SourceNext[i.at + 1]
                             /\ Len(i.to) = 2 => /\ CodeNext(i.to[1], 1) = WhenTrue(i.at)
                                                 /\ CodeNext(i.to[2], 1) = WhenFalse(i.at)
  BY DEF CodeFollowsSource
<1>1. PICK blk, idx, num : Follows(blk, idx, num)
  BY DEF Following
<1>2. CodeNext(Entry, 1) = SourceNext[1]
  <2>1. 1 \in 1..(Len(src) + 1)
    BY Basics
  <2>2. blk[1] = Entry /\ idx[1] = 1
    BY <1>1 DEF Follows, Path
  <2>3. ~Dead(code, blk[1], idx[1])
    BY <2>2, StartNotDead
  <2>4. CodeNext(blk[1], idx[1]) = SourceNext[1]
    BY <1>1, <2>1, <2>3, PointMeans
  <2> QED BY <2>2, <2>4
<1>3. ASSUME NEW b \in Created, NEW k \in 1..Len(code[b]), NEW x, x = code[b][k]
      PROVE  /\ x.op = "other" => CodeNext(b, k + 1) = SourceNext[x.at + 1]
             /\ Len(x.to) = 2 => /\ CodeNext(x.to[1], 1) = WhenTrue(x.at)
                                 /\ CodeNext(x.to[2], 1) = WhenFalse(x.at)
  <2>1. Traced(src, b, k, x, blk, idx, num)
    BY <1>1, <1>3 DEF Follows, Origin, Created
  <2>2. PICK i : i = x.at
    OBVIOUS
  <2>3. ASSUME x.op = "other" PROVE CodeNext(b, k + 1) = SourceNext[i + 1]
    <3>1. i \in 1..Len(src) /\ src[i].tok = "effect" /\ blk[i] = b /\ idx[i] = k
      BY <2>1, <2>2, <2>3 DEF Traced
    <3>2. Does(src, code, ip, blk, idx, num, i)
      BY <1>1, <3>1 DEF Follows, Path
    <3>3. blk[i + 1] = b /\ idx[i + 1] = k + 1 /\ k \in Nat
      BY <3>1, <3>2 DEF Does
    <3>4. ~Dead(code, b, k + 1)
      <4>1. k + 1 - 1 = k
        BY <3>3
      <4> QED BY <1>3, <2>3, <4>1 DEF Dead, IsTerminator
    <3>5. i + 1 \in 1..(Len(src) + 1)
      BY <3>1, Basics
    <3>6. ~Dead(code, blk[i + 1], idx[i + 1])
      BY <3>3, <3>4
    <3>7. CodeNext(blk[i + 1], idx[i + 1]) = SourceNext[i + 1]
      BY <1>1, <3>5, <3>6, PointMeans
    <3> QED BY <3>3, <3>7
  <2>4. ASSUME Len(x.to) = 2
        PROVE  CodeNext(x.to[1], 1) = WhenTrue(i) /\ CodeNext(x.to[2], 1) = WhenFalse(i)
    <3>1. /\ i \in 1..Len(src)
          /\ \/ src[i].tok = "if" /\ x.to = <<num[i] + 1, num[i] + 2>>
             \/ src[i].tok = "while" /\ x.to = <<num[i] + 2, num[i] + 3>>
      BY <2>1, <2>2, <2>4 DEF Traced
    <3>2. CASE src[i].tok = "if" /\ x.to = <<num[i] + 1, num[i] + 2>>
      <4>1. CodeNext(num[i] + 1, 1) = WhenTrue(i) /\ CodeNext(num[i] + 2, 1) = WhenFalse(i)
        BY <1>1, <3>1, <3>2, OutcomesMean
      <4> QED BY <3>2, <4>1
    <3>3. CASE src[i].tok = "while" /\ x.to = <<num[i] + 2, num[i] + 3>>
      <4>1. CodeNext(num[i] + 2, 1) = WhenTrue(i) /\ CodeNext(num[i] + 3, 1) = WhenFalse(i)
        BY <1>1, <3>1, <3>3, OutcomesMean
      <4> QED BY <3>3, <4>1
    <3> QED BY <3>1, <3>2, <3>3
  <2> QED BY <2>2, <2>3, <2>4
<1> QED BY <1>2, <1>3

\* The emitted blocks take the path that the statements describe: from the entry,
\* after every effect and on both outcomes of every condition, the next effect,
\* condition or return is that of the source; for programs of any length, where
\* back() of an empty block is taken neither for a branch nor for a return.
THEOREM CodeTakesSourcePath ==
  ASSUME "br" \notin EmptyTail, "ret" \notin EmptyTail
  PROVE  Spec => []CodeFollowsSource
<1>1. Spec => []Following
  BY PointsAreKept
<1>2. Following => CodeFollowsSource
  BY FollowingMeans
<1> QED BY <1>1, <1>2, PTL
=============================================================================
