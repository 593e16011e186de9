-------------------------- MODULE ControlFlowLoops --------------------------
(***************************************************************************)
(* Proofs that _nested_blocks is the list of the loops whose               *)
(* codeGenWhileStmt is active, and that break and continue are therefore   *)
(* rejected where the source has them outside of a loop and nowhere else;  *)
(* for every bound, every choice of statements and every outcome of back() *)
(* on an empty block.                                                      *)
(***************************************************************************)
EXTENDS ControlFlowProofs, StatementFlow, FiniteSetTheorems

\* The while frames among the first n of a stack, and their list of loops.
While(stk, n) == {i \in 1..n : stk[i].kind = "while"}

Mirrors(lps, stk, n) ==
  /\ Len(lps) = Cardinality(While(stk, n))
  /\ \A i \in While(stk, n) :
       lps[Cardinality(While(stk, i))] = <<stk[i].b1, stk[i].b2>>

Loops == WellFormed /\ Mirrors(loops, stack, Len(stack))

\* The first n frames of two stacks are of the same handlers.
Alike(s, t, n) ==
  \A i \in 1..n : s[i].kind = t[i].kind /\ s[i].b1 = t[i].b1 /\ s[i].b2 = t[i].b2

-----------------------------------------------------------------------------
(* While frames are counted *)

LEMMA WhileFinite ==
  ASSUME NEW stk, NEW n \in Nat
  PROVE  IsFiniteSet(While(stk, n)) /\ Cardinality(While(stk, n)) \in Nat
<1>1. IsFiniteSet(1..n)
  BY FS_Interval
<1>2. While(stk, n) \in SUBSET (1..n)
  BY DEF While
<1>3. IsFiniteSet(While(stk, n))
  BY <1>1, <1>2, FS_Subset
<1> QED BY <1>3, FS_CardinalityType

\* One frame more counts if it is a loop's.
LEMMA WhileCounts ==
  ASSUME NEW stk, NEW n \in Nat
  PROVE  /\ stk[n + 1].kind = "while" =>
              /\ While(stk, n + 1) = While(stk, n) \cup {n + 1}
              /\ Cardinality(While(stk, n + 1)) = Cardinality(While(stk, n)) + 1
         /\ stk[n + 1].kind # "while" => While(stk, n + 1) = While(stk, n)
<1>1. stk[n + 1].kind = "while" => While(stk, n + 1) = While(stk, n) \cup {n + 1}
  BY DEF While
<1>2. stk[n + 1].kind # "while" => While(stk, n + 1) = While(stk, n)
  BY DEF While
<1>3. n + 1 \notin While(stk, n)
  BY DEF While
<1>4. Cardinality(While(stk, n) \cup {n + 1}) = Cardinality(While(stk, n)) + 1
  BY <1>3, WhileFinite, FS_AddElement
<1> QED BY <1>1, <1>2, <1>4

\* A frame inside has fewer loops around it than there are.
LEMMA WhileGrows ==
  ASSUME NEW stk, NEW n \in Nat, NEW i \in While(stk, n)
  PROVE  Cardinality(While(stk, i)) \in 1..Cardinality(While(stk, n))
<1>1. i \in Nat /\ While(stk, i) \in SUBSET While(stk, n) /\ i \in While(stk, i)
  BY DEF While
<1>2. Cardinality(While(stk, i)) <= Cardinality(While(stk, n))
  BY <1>1, WhileFinite, FS_Subset
<1>3. Cardinality(While(stk, i)) \in Nat /\ Cardinality(While(stk, n)) \in Nat
  BY <1>1, WhileFinite
<1>4. Cardinality(While(stk, i)) # 0
  BY <1>1, WhileFinite, FS_EmptySet
<1> QED BY <1>2, <1>3, <1>4

LEMMA WhileAlike ==
  ASSUME NEW s, NEW t, NEW n \in Nat, Alike(s, t, n), NEW k \in 0..n
  PROVE  While(s, k) = While(t, k)
BY DEF Alike, While

-----------------------------------------------------------------------------
(* What handlers do to the list *)

\* The same handlers, the same loops.
LEMMA MirrorsAlike ==
  ASSUME NEW s, NEW t, NEW n \in Nat, Alike(s, t, n), NEW lps, Mirrors(lps, s, n)
  PROVE  Mirrors(lps, t, n)
<1>1. While(s, n) = While(t, n)
  BY WhileAlike
<1>2. \A i \in While(t, n) : i \in 1..n /\ While(s, i) = While(t, i)
  BY WhileAlike DEF While
<1> QED BY <1>1, <1>2 DEF Mirrors, Alike

\* A handler that is no loop comes or goes.
LEMMA MirrorsOther ==
  ASSUME NEW stk, NEW n \in Nat, stk[n + 1].kind # "while", NEW lps
  PROVE  Mirrors(lps, stk, n) <=> Mirrors(lps, stk, n + 1)
BY WhileCounts DEF Mirrors

\* A loop is entered.
LEMMA MirrorsEnter ==
  ASSUME NEW stk, NEW n \in Nat, stk[n + 1].kind = "while",
         NEW S, NEW lps \in Seq(S), NEW l \in S, l = <<stk[n + 1].b1, stk[n + 1].b2>>,
         Mirrors(lps, stk, n)
  PROVE  Mirrors(Append(lps, l), stk, n + 1)
<1> DEFINE c == Cardinality(While(stk, n))
<1>1. /\ Len(Append(lps, l)) = c + 1
      /\ \A i \in 1..c : Append(lps, l)[i] = lps[i]
      /\ Append(lps, l)[c + 1] = l
  BY AppendProperties DEF Mirrors
<1>2. /\ While(stk, n + 1) = While(stk, n) \cup {n + 1}
      /\ Cardinality(While(stk, n + 1)) = c + 1
  BY WhileCounts
<1>3. \A i \in While(stk, n) : Cardinality(While(stk, i)) \in 1..c
  BY WhileGrows
<1> HIDE DEF c
<1>4. \A i \in While(stk, n) :
        Append(lps, l)[Cardinality(While(stk, i))] = <<stk[i].b1, stk[i].b2>>
  BY <1>1, <1>3 DEF Mirrors
<1>5. Append(lps, l)[Cardinality(While(stk, n + 1))] = <<stk[n + 1].b1, stk[n + 1].b2>>
  BY <1>1, <1>2
<1>6. Len(Append(lps, l)) = Cardinality(While(stk, n + 1))
  BY <1>1, <1>2
<1> QED BY <1>2, <1>4, <1>5, <1>6 DEF Mirrors

\* The innermost loop is left.
LEMMA MirrorsLeave ==
  ASSUME NEW stk, NEW n \in Nat, stk[n + 1].kind = "while",
         NEW S, NEW lps \in Seq(S), Mirrors(lps, stk, n + 1)
  PROVE  Mirrors(SubSeq(lps, 1, Len(lps) - 1), stk, n)
<1> DEFINE c == Cardinality(While(stk, n))
           p == SubSeq(lps, 1, Len(lps) - 1)
<1>1. /\ While(stk, n + 1) = While(stk, n) \cup {n + 1}
      /\ Cardinality(While(stk, n + 1)) = c + 1 /\ c \in Nat
  BY WhileCounts, WhileFinite
<1>2. Len(lps) = c + 1 /\ lps # << >>
  BY <1>1, EmptySeq DEF Mirrors
<1>3. Len(p) = Len(lps) - 1 /\ \A i \in 1..(Len(lps) - 1) : p[i] = lps[i]
  BY <1>2, Prefix
<1>4. \A i \in While(stk, n) : Cardinality(While(stk, i)) \in 1..c
  BY WhileGrows
<1> HIDE DEF c, p
<1>5. Len(p) = c /\ \A i \in 1..c : p[i] = lps[i]
  BY <1>1, <1>2, <1>3
<1>6. \A i \in While(stk, n) : p[Cardinality(While(stk, i))] = <<stk[i].b1, stk[i].b2>>
  BY <1>1, <1>4, <1>5 DEF Mirrors
<1> QED BY <1>5, <1>6 DEF Mirrors, c, p

-----------------------------------------------------------------------------
(* Every action keeps the list *)

\* A statement that is done leaves the handlers as they are.
LEMMA StatementLoops ==
  ASSUME Loops, stack' = Return(stack) \/ stack' = stack, loops' = loops
  PROVE  Mirrors(loops', stack', Len(stack'))
<1>1. stack \in Seq(Frame) /\ Len(stack) \in Nat
  BY Lengths DEF Loops, WellFormed
<1>2. Len(stack') = Len(stack) /\ Alike(stack, stack', Len(stack))
  BY <1>1, ReturnMarks DEF Alike
<1> QED BY <1>1, <1>2, MirrorsAlike DEF Loops

\* What is left of the stack when a handler closes.
LEMMA PopAlike ==
  ASSUME WellFormed, stack # << >>
  PROVE  /\ Len(Return(Pop)) \in Nat /\ Len(stack) = Len(Return(Pop)) + 1
         /\ Alike(stack, Return(Pop), Len(Return(Pop)))
<1>1. /\ Pop \in Seq(Frame)
      /\ Len(Pop) = Len(stack) - 1 /\ Len(stack) \in Nat \ {0}
      /\ \A i \in 1..(Len(stack) - 1) : Pop[i] = stack[i]
  BY PopRemoves DEF WellFormed
<1>2. /\ Len(Return(Pop)) = Len(Pop)
      /\ \A i \in 1..Len(Pop) : /\ Return(Pop)[i].kind = Pop[i].kind
                                /\ Return(Pop)[i].b1 = Pop[i].b1
                                /\ Return(Pop)[i].b2 = Pop[i].b2
  BY <1>1, ReturnMarks
<1> QED BY <1>1, <1>2 DEF Alike

LEMMA PushAlike ==
  ASSUME WellFormed, NEW f, f \in Frame
  PROVE  /\ Len(stack) \in Nat /\ Len(Append(stack, f)) = Len(stack) + 1
         /\ Append(stack, f)[Len(stack) + 1] = f
         /\ Alike(stack, Append(stack, f), Len(stack))
BY AppendProperties, LenProperties DEF WellFormed, Alike

LEMMA OpenLoops ==
  ASSUME Loops, OpenBlock \/ BeginIf
  PROVE  Mirrors(loops', stack', Len(stack'))
<1>1. Len(code) \in Nat /\ Here \in Nat
  BY Lengths DEF Loops
<1>2. /\ BlockFrame(Here) \in Frame /\ BlockFrame(Here).kind # "while"
      /\ IfFrame(Here, Len(code) + 2, Len(code) + 3) \in Frame
      /\ IfFrame(Here, Len(code) + 2, Len(code) + 3).kind # "while"
  BY <1>1 DEF BlockFrame, IfFrame, Frame, NoBlock
<1>3. /\ loops' = loops
      /\ \E f \in Frame : f.kind # "while" /\ stack' = Append(stack, f)
  BY <1>2 DEF OpenBlock, BeginIf
<1>4. PICK f \in Frame : f.kind # "while" /\ stack' = Append(stack, f)
  BY <1>3
<1>5. /\ Len(stack) \in Nat /\ Len(stack') = Len(stack) + 1
      /\ stack'[Len(stack) + 1] = f /\ Alike(stack, stack', Len(stack))
  BY <1>4, PushAlike DEF Loops
<1>6. Mirrors(loops, stack', Len(stack))
  BY <1>5, MirrorsAlike DEF Loops
<1>7. stack'[Len(stack) + 1].kind # "while"
  BY <1>4, <1>5
<1>8. Mirrors(loops, stack', Len(stack) + 1)
  BY <1>5, <1>6, <1>7, MirrorsOther
<1> QED BY <1>3, <1>5, <1>8

LEMMA CloseLoops ==
  ASSUME Loops, CloseBlock \/ EndIf
  PROVE  Mirrors(loops', stack', Len(stack'))
<1>1. stack' = Return(Pop) /\ loops' = loops /\ stack # << >> /\ Top.kind # "while"
  <2>1. CASE CloseBlock
    BY <2>1 DEF CloseBlock, AwaitsStmt
  <2>2. CASE EndIf
    <3>1. stack # << >> /\ Top.phase = "else"
      BY <2>2 DEF EndIf
    <3>2. FrameOK(Top, Len(code))
      BY <3>1, TopFrame DEF Loops
    <3> QED BY <2>2, <3>1, <3>2 DEF EndIf, FrameOK
  <2> QED BY <2>1, <2>2
<1>2. /\ Len(stack') \in Nat /\ Len(stack) = Len(stack') + 1
      /\ Alike(stack, stack', Len(stack'))
  BY <1>1, PopAlike DEF Loops
<1>3. stack[Len(stack') + 1].kind # "while"
  BY <1>1, <1>2, TopFrame DEF Loops
<1>4. Mirrors(loops, stack, Len(stack'))
  BY <1>2, <1>3, MirrorsOther DEF Loops
<1> QED BY <1>1, <1>2, <1>4, MirrorsAlike

LEMMA ThenLoops ==
  ASSUME Loops, EndThen
  PROVE  Mirrors(loops', stack', Len(stack'))
<1>1. stack # << >> /\ stack \in Seq(Frame) /\ loops' = loops
  BY DEF EndThen, Loops, WellFormed
<1>2. PICK hasElse \in BOOLEAN :
        stack' = [stack EXCEPT ![Len(stack)].phase = "else", ![Len(stack)].done = ~hasElse]
  BY DEF EndThen
<1>3. Len(stack) \in 1..Len(stack) /\ Len(stack) \in Nat /\ stack[Len(stack)] \in Frame
  BY <1>1, EmptySeq, ElementOfSeq
<1> DEFINE f == [[stack[Len(stack)] EXCEPT !.phase = "else"] EXCEPT !.done = ~hasElse]
<1>4. f \in Frame /\ f.kind = stack[Len(stack)].kind
      /\ f.b1 = stack[Len(stack)].b1 /\ f.b2 = stack[Len(stack)].b2
  BY <1>3 DEF Frame
<1>5. stack' = [stack EXCEPT ![Len(stack)] = f]
  BY <1>1, <1>2, <1>3
<1> HIDE DEF f
<1>6. /\ Len(stack') = Len(stack)
      /\ \A i \in 1..Len(stack) : stack'[i] = IF i = Len(stack) THEN f ELSE stack[i]
  BY <1>1, <1>3, <1>4, <1>5, ExceptSeq
<1>7. Alike(stack, stack', Len(stack))
  BY <1>4, <1>6 DEF Alike
<1> QED BY <1>1, <1>3, <1>6, <1>7, MirrorsAlike DEF Loops

LEMMA EnterLoops ==
  ASSUME Loops, BeginWhile
  PROVE  Mirrors(loops', stack', Len(stack'))
<1> DEFINE l == <<Len(code) + 1, Len(code) + 3>>
           f == WhileFrame(Here, Len(code) + 1, Len(code) + 3)
<1>1. Len(code) \in Nat /\ Here \in Nat
  BY Lengths DEF Loops
<1>2. f \in Frame /\ f.kind = "while" /\ l = <<f.b1, f.b2>>
  BY <1>1 DEF WhileFrame, Frame
<1>3. stack' = Append(stack, f) /\ loops' = Append(loops, l)
  BY DEF BeginWhile
<1>4. loops \in Seq(Nat \X Nat) /\ l \in Nat \X Nat
  <2>1. (2..Len(code)) \X (2..Len(code)) \subseteq Nat \X Nat
    BY <1>1
  <2> QED BY <1>1, <2>1, SeqMonotonic DEF Loops, WellFormed
<1> HIDE DEF l, f
<1>5. /\ Len(stack) \in Nat /\ Len(stack') = Len(stack) + 1
      /\ stack'[Len(stack) + 1] = f /\ Alike(stack, stack', Len(stack))
  BY <1>2, <1>3, PushAlike DEF Loops
<1>6. Mirrors(loops, stack', Len(stack))
  BY <1>5, MirrorsAlike DEF Loops
<1> QED BY <1>2, <1>3, <1>4, <1>5, <1>6, MirrorsEnter

LEMMA LeaveLoops ==
  ASSUME Loops, EndWhile
  PROVE  Mirrors(loops', stack', Len(stack'))
<1>1. stack' = Return(Pop) /\ loops' = SubSeq(loops, 1, Len(loops) - 1) /\ stack # << >>
  BY DEF EndWhile, LeaveLoop
<1>2. Top.kind = "while" /\ Top = stack[Len(stack)]
  BY <1>1, TopFrame DEF EndWhile, Loops, FrameOK
<1>3. /\ Len(stack') \in Nat /\ Len(stack) = Len(stack') + 1
      /\ Alike(stack, stack', Len(stack'))
  BY <1>1, PopAlike DEF Loops
<1>4. stack[Len(stack') + 1].kind = "while"
  BY <1>2, <1>3
<1>5. Mirrors(loops, stack, Len(stack') + 1) /\ loops \in Seq((2..Len(code)) \X (2..Len(code)))
  BY <1>3 DEF Loops, WellFormed
<1>6. Mirrors(loops', stack, Len(stack'))
  BY <1>1, <1>3, <1>4, <1>5, MirrorsLeave
<1> QED BY <1>3, <1>6, MirrorsAlike

LEMMA InitLoops == Init => Loops
<1> SUFFICES ASSUME Init PROVE Loops
  OBVIOUS
<1>1. Len(stack) = 1 /\ stack[0 + 1].kind # "while" /\ Len(loops) = 0
  BY DEF Init, BlockFrame
<1>2. While(stack, 0) = {}
  BY DEF While
<1>3. Cardinality(While(stack, 0)) = 0
  BY <1>2, FS_EmptySet
<1>4. Mirrors(loops, stack, 0)
  BY <1>1, <1>2, <1>3 DEF Mirrors
<1>5. Mirrors(loops, stack, 0 + 1)
  BY <1>1, <1>4, MirrorsOther
<1> QED BY <1>1, <1>5, InitWellFormed DEF Loops

LEMMA NextLoops == Loops /\ [Next]_vars => Loops'
<1> SUFFICES ASSUME Loops, [Next]_vars PROVE Mirrors(loops', stack', Len(stack'))
  BY NextWellFormed DEF Loops
<1>1. CASE UNCHANGED vars \/ Finished \/ EndFunc
  <2>1. stack' = stack /\ loops' = loops
    BY <1>1 DEF vars, Finished, EndFunc
  <2> QED BY <2>1 DEF Loops
<1>2. CASE ExprStmt \/ EmptyStmt \/ ReturnStmt \/ ContinueStmt \/ BreakStmt
  <2>1. (stack' = Return(stack) \/ stack' = stack) /\ loops' = loops
    BY <1>2 DEF ExprStmt, EmptyStmt, ReturnStmt, ContinueStmt, BreakStmt, BreakOrContinue, Leaf
  <2> QED BY <2>1, StatementLoops
<1> QED BY <1>1, <1>2, OpenLoops, CloseLoops, ThenLoops, EnterLoops, LeaveLoops DEF Next, Step

-----------------------------------------------------------------------------
\* _nested_blocks lists exactly the loops whose codeGenWhileStmt is active,
\* outermost first and each with its own blocks, in programs of any size: break
\* and continue always mean the innermost loop around them.
THEOREM LoopsAreMirrored == Spec => []LoopsMirrorHandlers
<1>1. Loops => LoopsMirrorHandlers
  <2> SUFFICES ASSUME Loops PROVE LoopsMirrorHandlers
    OBVIOUS
  <2>1. Len(stack) \in Nat
    BY Lengths DEF Loops
  <2>2. WhileFrames = While(stack, Len(stack))
    BY DEF WhileFrames, While
  <2>3. \A i \in WhileFrames : {j \in WhileFrames : j <= i} = While(stack, i)
    BY <2>1 DEF WhileFrames, While
  <2> QED BY <2>2, <2>3 DEF Loops, Mirrors, LoopsMirrorHandlers
<1> QED BY <1>1, InitLoops, NextLoops, PTL DEF Spec

-----------------------------------------------------------------------------
(* The tokens of the source and the handlers *)

EndTokens == {"endblock", "endif", "endwhile"}
Jumps(t) == t.tok \in {"break", "continue"}

\* Where the statement that starts at token w of s ends, if it has.
Ends(s, w) == {j \in 1..Len(s) : s[j].of = w /\ s[j].tok \in EndTokens}

\* A token names one before it, or none.
Backward(s) == \A j \in 1..Len(s) : s[j].of \in 0..(j - 1)

\* A handler on the stack is that of a statement that has not ended.
Open(s, f) == f.at \in 1..Len(s) /\ s[f.at].tok = f.kind /\ Ends(s, f.at) = {}

\* No two handlers are of the same statement.
OneEach(stk) == \A i, k \in 1..Len(stk) : stk[i].at = stk[k].at => i = k

\* A loop that has no handler has ended.
HasHandler(stk, w) == \E i \in 1..Len(stk) : stk[i].at = w
HasEnded(s, w) == \E j \in 1..Len(s) : s[j].tok = "endwhile" /\ Ends(s, w) = {j}

Framed(s, stk) ==
  /\ Backward(s) /\ OneEach(stk)
  /\ \A i \in 1..Len(stk) : Open(s, stk[i])
  /\ \A w \in 1..Len(s) : s[w].tok = "while" => HasHandler(stk, w) \/ HasEnded(s, w)

\* Token i is inside of a loop.
Inside(s, i) ==
  \E w \in 1..(i - 1) : s[w].tok = "while" /\ \A j \in Ends(s, w) : i < j

Passed ==
  \A i \in 1..Len(src) : Jumps(src[i]) =>
    Inside(src, i) \/ (status = "error" /\ i = Len(src))

Stopped ==
  status = "error" =>
    /\ Jumps(src[Len(src)])
    /\ \A w \in 1..Len(src) : src[w].tok = "while" => Ends(src, w) # {}

Located == Loops /\ Framed(src, stack) /\ Passed /\ Stopped

\* The first n frames of two stacks are of the same statements.
SameAt(s, t, n) == \A i \in 1..n : s[i].kind = t[i].kind /\ s[i].at = t[i].at


LEMMA TokensOne ==
  ASSUME NEW s \in Seq(Token_), NEW t \in Token_
  PROVE  /\ Len(s) \in Nat /\ Len(Append(s, t)) = Len(s) + 1
         /\ \A j \in 1..Len(s) : Append(s, t)[j] = s[j]
         /\ Append(s, t)[Len(s) + 1] = t
BY AppendProperties, LenProperties

\* A token ends the statement it names, if it ends one.
LEMMA EndsOne ==
  ASSUME NEW s \in Seq(Token_), NEW t \in Token_, NEW w
  PROVE  /\ t.tok \notin EndTokens \/ t.of # w => Ends(Append(s, t), w) = Ends(s, w)
         /\ t.tok \in EndTokens /\ t.of = w => Ends(Append(s, t), w) = Ends(s, w) \cup {Len(s) + 1}
<1>1. \A j : j \in 1..Len(Append(s, t)) <=> j \in 1..Len(s) \/ j = Len(s) + 1
  BY TokensOne
<1>2. Len(s) + 1 \notin 1..Len(s)
  BY TokensOne
<1> QED BY <1>1, <1>2, TokensOne DEF Ends

\* What is inside of a loop stays there.
LEMMA InsideStays ==
  ASSUME NEW s \in Seq(Token_), NEW t \in Token_, NEW i \in 1..Len(s), Inside(s, i)
  PROVE  Inside(Append(s, t), i)
<1>1. PICK w \in 1..(i - 1) : s[w].tok = "while" /\ \A j \in Ends(s, w) : i < j
  BY DEF Inside
<1>2. /\ w \in 1..Len(s) /\ i < Len(s) + 1
  BY <1>1, TokensOne
<1>3. Append(s, t)[w].tok = "while"
  BY <1>1, <1>2, TokensOne
<1>4. \A j \in Ends(Append(s, t), w) : j \in Ends(s, w) \/ j = Len(s) + 1
  BY EndsOne
<1> QED BY <1>1, <1>2, <1>3, <1>4 DEF Inside

LEMMA BackwardOne ==
  ASSUME NEW s \in Seq(Token_), NEW t \in Token_, Backward(s), t.of \in 0..Len(s)
  PROVE  Backward(Append(s, t))
<1> DEFINE u == Append(s, t)
<1>1. /\ Len(s) \in Nat /\ Len(u) = Len(s) + 1
      /\ \A j \in 1..Len(s) : u[j] = s[j]
      /\ u[Len(s) + 1] = t
  BY TokensOne
<1> HIDE DEF u
<1>2. ASSUME NEW j \in 1..Len(u) PROVE u[j].of \in 0..(j - 1)
  <2>1. CASE j = Len(s) + 1
    BY <1>1, <2>1
  <2>2. CASE j \in 1..Len(s)
    BY <1>1, <2>2 DEF Backward
  <2> QED BY <1>1, <2>1, <2>2
<1> QED BY <1>2 DEF Backward, u

\* A token that ends another statement, or none, changes nothing for a handler
\* and for a loop that has ended.
LEMMA OpenOne ==
  ASSUME NEW s \in Seq(Token_), NEW t \in Token_, NEW f, NEW g, Open(s, f),
         g.at = f.at, g.kind = f.kind, t.tok \notin EndTokens \/ t.of # f.at
  PROVE  Open(Append(s, t), g)
BY TokensOne, EndsOne DEF Open

LEMMA EndedOne ==
  ASSUME NEW s \in Seq(Token_), NEW t \in Token_, NEW w, HasEnded(s, w),
         t.tok \notin EndTokens \/ t.of # w
  PROVE  HasEnded(Append(s, t), w)
<1>1. PICK j \in 1..Len(s) : s[j].tok = "endwhile" /\ Ends(s, w) = {j}
  BY DEF HasEnded
<1>2. j \in 1..Len(Append(s, t)) /\ Append(s, t)[j] = s[j] /\ Ends(Append(s, t), w) = {j}
  BY <1>1, TokensOne, EndsOne
<1> QED BY <1>1, <1>2 DEF HasEnded

LEMMA LastOrEarlier ==
  ASSUME NEW s \in Seq(Token_), NEW t \in Token_, NEW w \in 1..Len(Append(s, t))
  PROVE  \/ w \in 1..Len(s) /\ Append(s, t)[w] = s[w]
         \/ w = Len(s) + 1 /\ Append(s, t)[w] = t
BY TokensOne

\* A token within a statement.
LEMMA FramedOne ==
  ASSUME NEW s \in Seq(Token_), NEW t \in Token_, NEW stk, NEW r,
         Framed(s, stk), Len(r) = Len(stk), SameAt(stk, r, Len(stk)),
         t.tok \notin EndTokens, t.tok # "while", t.of \in 0..Len(s)
  PROVE  Framed(Append(s, t), r)
<1>1. Backward(Append(s, t))
  BY BackwardOne DEF Framed
<1>2. OneEach(r)
  BY DEF Framed, OneEach, SameAt
<1>3. ASSUME NEW i \in 1..Len(r) PROVE Open(Append(s, t), r[i])
  <2>1. Open(s, stk[i]) /\ r[i].at = stk[i].at /\ r[i].kind = stk[i].kind
    BY DEF Framed, SameAt
  <2> QED BY <2>1, OpenOne
<1>4. ASSUME NEW w \in 1..Len(Append(s, t)), Append(s, t)[w].tok = "while"
      PROVE  HasHandler(r, w) \/ HasEnded(Append(s, t), w)
  <2>1. w \in 1..Len(s) /\ s[w].tok = "while"
    BY <1>4, LastOrEarlier
  <2>2. HasHandler(stk, w) \/ HasEnded(s, w)
    BY <2>1 DEF Framed
  <2>3. HasHandler(stk, w) => HasHandler(r, w)
    BY DEF HasHandler, SameAt
  <2> QED BY <2>2, <2>3, EndedOne
<1> QED BY <1>1, <1>2, <1>3, <1>4 DEF Framed

\* A statement begins, and its handler with it.
LEMMA FramedMore ==
  ASSUME NEW s \in Seq(Token_), NEW t \in Token_, NEW stk, NEW r,
         Framed(s, stk), Len(stk) \in Nat, Len(r) = Len(stk) + 1, SameAt(stk, r, Len(stk)),
         t.tok \notin EndTokens, t.of = 0,
         r[Len(stk) + 1].at = Len(s) + 1, r[Len(stk) + 1].kind = t.tok
  PROVE  Framed(Append(s, t), r)
<1> DEFINE n == Len(stk)
<1>1. Backward(Append(s, t))
  BY BackwardOne, TokensOne DEF Framed
<1>2. \A i \in 1..Len(r) : i \in 1..n \/ i = n + 1
  OBVIOUS
<1>3. \A i \in 1..n : r[i].at = stk[i].at /\ r[i].kind = stk[i].kind /\ Open(s, stk[i])
  BY DEF Framed, SameAt
<1>4. OneEach(r)
  <2>1. \A i, k \in 1..n : r[i].at = r[k].at => i = k
    BY <1>3 DEF Framed, OneEach
  <2>2. \A i \in 1..n : r[i].at # r[n + 1].at
    BY <1>3, TokensOne DEF Open
  <2> QED BY <1>2, <2>1, <2>2 DEF OneEach
<1>5. Open(Append(s, t), r[n + 1])
  <2>1. Ends(s, Len(s) + 1) = {}
    BY TokensOne DEF Ends, Framed, Backward
  <2> QED BY <2>1, TokensOne, EndsOne DEF Open
<1>6. \A i \in 1..Len(r) : Open(Append(s, t), r[i])
  <2>1. ASSUME NEW i \in 1..n PROVE Open(Append(s, t), r[i])
    BY <1>3, OpenOne
  <2> QED BY <1>2, <1>5, <2>1
<1>7. ASSUME NEW w \in 1..Len(Append(s, t)), Append(s, t)[w].tok = "while"
      PROVE  HasHandler(r, w) \/ HasEnded(Append(s, t), w)
  <2>1. CASE w = Len(s) + 1
    BY <2>1 DEF HasHandler
  <2>2. CASE w \in 1..Len(s) /\ s[w].tok = "while"
    <3>1. HasHandler(stk, w) \/ HasEnded(s, w)
      BY <2>2 DEF Framed
    <3>2. HasHandler(stk, w) => HasHandler(r, w)
      <4> SUFFICES ASSUME NEW i \in 1..n, stk[i].at = w PROVE HasHandler(r, w)
        BY DEF HasHandler
      <4> QED BY <1>3 DEF HasHandler
    <3> QED BY <3>1, <3>2, EndedOne
  <2> QED BY <1>7, <2>1, <2>2, LastOrEarlier
<1> QED BY <1>1, <1>4, <1>6, <1>7 DEF Framed

\* The innermost statement ends, and its handler with it.
LEMMA FramedLess ==
  ASSUME NEW s \in Seq(Token_), NEW t \in Token_, NEW stk, NEW r,
         Framed(s, stk), Len(r) \in Nat, Len(stk) = Len(r) + 1, SameAt(stk, r, Len(r)),
         t.tok \in EndTokens, t.of = stk[Len(stk)].at,
         stk[Len(stk)].kind = "while" => t.tok = "endwhile"
  PROVE  Framed(Append(s, t), r)
<1> DEFINE n == Len(r)
<1>1. Open(s, stk[n + 1]) /\ t.of = stk[n + 1].at
  BY DEF Framed
<1>2. Backward(Append(s, t))
  BY <1>1, BackwardOne DEF Framed, Open
<1>3. ASSUME NEW i \in 1..n
      PROVE  r[i].at = stk[i].at /\ r[i].kind = stk[i].kind /\ Open(s, stk[i]) /\ t.of # stk[i].at
  <2>1. i \in 1..Len(stk) /\ n + 1 \in 1..Len(stk) /\ i # n + 1
    OBVIOUS
  <2> QED BY <1>1, <2>1 DEF Framed, OneEach, SameAt
<1>4. OneEach(r)
  <2>1. \A i \in 1..n : i \in 1..Len(stk)
    OBVIOUS
  <2> QED BY <1>3, <2>1 DEF Framed, OneEach
<1>5. \A i \in 1..n : Open(Append(s, t), r[i])
  BY <1>3, OpenOne
<1>6. ASSUME NEW w \in 1..Len(Append(s, t)), Append(s, t)[w].tok = "while"
      PROVE  HasHandler(r, w) \/ HasEnded(Append(s, t), w)
  <2>1. w \in 1..Len(s) /\ s[w].tok = "while"
    BY <1>6, LastOrEarlier DEF EndTokens
  <2>2. CASE w = t.of
    <3>1. Ends(Append(s, t), w) = {Len(s) + 1} /\ s[w].tok = stk[n + 1].kind
      <4>1. Ends(Append(s, t), w) = Ends(s, w) \cup {Len(s) + 1}
        BY <2>2, EndsOne
      <4>2. Ends(s, w) = {} /\ s[w].tok = stk[n + 1].kind
        BY <1>1, <2>2 DEF Open
      <4> QED BY <4>1, <4>2
    <3>2. t.tok = "endwhile"
      BY <2>1, <3>1
    <3> QED BY <3>1, <3>2, TokensOne DEF HasEnded
  <2>3. CASE w # t.of
    <3>1. HasHandler(stk, w) \/ HasEnded(s, w)
      BY <2>1 DEF Framed
    <3>2. ASSUME NEW i \in 1..Len(stk), stk[i].at = w PROVE HasHandler(r, w)
      <4>1. i \in 1..n
        BY <1>1, <2>3, <3>2
      <4> QED BY <1>3, <3>2, <4>1 DEF HasHandler
    <3> QED BY <2>3, <3>1, <3>2, EndedOne DEF HasHandler
  <2> QED BY <2>2, <2>3
<1> QED BY <1>2, <1>4, <1>5, <1>6 DEF Framed

-----------------------------------------------------------------------------
(* Every action keeps tokens and handlers together *)

LEMMA ReturnSameAt ==
  ASSUME NEW stk \in Seq(Frame)
  PROVE  Len(Return(stk)) = Len(stk) /\ SameAt(stk, Return(stk), Len(stk))
BY ReturnMarks DEF SameAt

LEMMA PopSameAt ==
  ASSUME WellFormed, stack # << >>
  PROVE  /\ Len(Return(Pop)) \in Nat /\ Len(stack) = Len(Return(Pop)) + 1
         /\ SameAt(stack, Return(Pop), Len(Return(Pop)))
<1>1. /\ Pop \in Seq(Frame)
      /\ Len(Pop) = Len(stack) - 1 /\ Len(stack) \in Nat \ {0}
      /\ \A i \in 1..(Len(stack) - 1) : Pop[i] = stack[i]
  BY PopRemoves DEF WellFormed
<1>2. Len(Return(Pop)) = Len(Pop) /\ SameAt(Pop, Return(Pop), Len(Pop))
  BY <1>1, ReturnSameAt
<1> QED BY <1>1, <1>2 DEF SameAt

LEMMA PushSameAt ==
  ASSUME WellFormed, NEW f \in Frame
  PROVE  /\ Len(stack) \in Nat /\ Len(Append(stack, f)) = Len(stack) + 1
         /\ Append(stack, f)[Len(stack) + 1] = f
         /\ SameAt(stack, Append(stack, f), Len(stack))
BY AppendProperties, LenProperties DEF WellFormed, SameAt

\* One more token that is no break or continue, or one that is in a loop.
LEMMA TokenLocated ==
  ASSUME Located, status = "generating", status' = "generating",
         NEW t \in Token_, src' = Append(src, t), Framed(src', stack'),
         Jumps(t) => Inside(src', Len(src) + 1)
  PROVE  Framed(src', stack') /\ Passed' /\ Stopped'
<1>1. src \in Seq(Token_)
  BY DEF Located, Loops, WellFormed
<1>2. ASSUME NEW i \in 1..Len(src'), Jumps(src'[i]) PROVE Inside(src', i)
  <2>1. CASE i = Len(src) + 1
    BY <1>1, <1>2, <2>1, TokensOne
  <2>2. CASE i \in 1..Len(src) /\ src'[i] = src[i]
    <3>1. Inside(src, i)
      BY <1>2, <2>2 DEF Located, Passed
    <3> QED BY <1>1, <2>2, <3>1, InsideStays
  <2> QED BY <1>1, <2>1, <2>2, LastOrEarlier
<1> QED BY <1>2 DEF Passed, Stopped

LEMMA SimpleLocated ==
  ASSUME Located, ExprStmt \/ EmptyStmt \/ ReturnStmt
  PROVE  Framed(src', stack') /\ Passed' /\ Stopped'
<1>1. PICK tok \in {"effect", "empty", "return_void", "return_value"} : Leaf(tok)
  BY DEF ExprStmt, EmptyStmt, ReturnStmt
<1>2. /\ status = "generating" /\ status' = "generating" /\ stack' = Return(stack)
      /\ src' = Append(src, Token(tok, 0))
  BY <1>1 DEF ExprStmt, EmptyStmt, ReturnStmt, Leaf, AwaitsStmt
<1> DEFINE t == Token(tok, 0)
<1>3. /\ t \in Token_ /\ t.of = 0 /\ ~Jumps(t)
      /\ t.tok \notin EndTokens /\ t.tok # "while"
  BY <1>1 DEF Token, Token_, LeafTokens, Jumps, EndTokens
<1>4. /\ src \in Seq(Token_) /\ stack \in Seq(Frame) /\ Framed(src, stack)
      /\ Len(src) \in Nat
  BY Lengths DEF Located, Loops, WellFormed
<1>5. Len(Return(stack)) = Len(stack) /\ SameAt(stack, Return(stack), Len(stack))
  BY <1>4, ReturnSameAt
<1> HIDE DEF t
<1>6. Framed(Append(src, t), Return(stack))
  BY <1>3, <1>4, <1>5, FramedOne
<1> QED BY <1>2, <1>3, <1>6, TokenLocated DEF t

\* A loop is being generated exactly if _nested_blocks is not empty.
LEMMA LoopsOpen ==
  ASSUME Loops
  PROVE  loops # << >> <=> \E i \in 1..Len(stack) : stack[i].kind = "while"
<1>1. Len(stack) \in Nat /\ loops \in Seq((2..Len(code)) \X (2..Len(code)))
  BY Lengths DEF Loops, WellFormed
<1>2. loops = << >> <=> Len(loops) = 0
  BY <1>1, EmptySeq
<1>3. Cardinality(While(stack, Len(stack))) = 0 <=> While(stack, Len(stack)) = {}
  BY <1>1, WhileFinite, FS_EmptySet
<1> QED BY <1>2, <1>3 DEF Loops, Mirrors, While

LEMMA JumpLocated ==
  ASSUME Located, ContinueStmt \/ BreakStmt
  PROVE  Framed(src', stack') /\ Passed' /\ Stopped'
<1>1. PICK tok \in {"break", "continue"}, target \in {1, 2} : BreakOrContinue(tok, target)
  BY DEF ContinueStmt, BreakStmt
<1> DEFINE t == Token(tok, 0)
<1>2. /\ status = "generating" /\ src' = Append(src, t)
      /\ loops = << >> => status' = "error" /\ stack' = stack
      /\ loops # << >> => status' = status /\ stack' = Return(stack)
  BY <1>1 DEF BreakOrContinue, Leaf, AwaitsStmt
<1>3. /\ t \in Token_ /\ t.of = 0 /\ Jumps(t)
      /\ t.tok \notin EndTokens /\ t.tok # "while"
  BY <1>1 DEF Token, Token_, LeafTokens, Jumps, EndTokens
<1> HIDE DEF t
<1>4. /\ src \in Seq(Token_) /\ stack \in Seq(Frame) /\ Framed(src, stack)
      /\ Len(src) \in Nat /\ Loops
  BY Lengths DEF Located, Loops, WellFormed
<1>5. Len(stack') = Len(stack) /\ SameAt(stack, stack', Len(stack))
  <2>1. CASE stack' = stack
    BY <2>1 DEF SameAt
  <2>2. CASE stack' = Return(stack)
    BY <1>4, <2>2, ReturnSameAt
  <2> QED BY <1>2, <2>1, <2>2
<1>6. Framed(src', stack')
  BY <1>2, <1>3, <1>4, <1>5, FramedOne
<1>7. /\ Len(src') = Len(src) + 1 /\ src'[Len(src) + 1] = t
      /\ \A w : Ends(src', w) = Ends(src, w)
  BY <1>2, <1>3, <1>4, TokensOne, EndsOne
<1>8. CASE loops # << >>
  <2>1. PICK i \in 1..Len(stack) : stack[i].kind = "while"
    BY <1>4, <1>8, LoopsOpen
  <2>2. Open(src, stack[i])
    BY <1>4 DEF Framed
  <2>3. /\ stack[i].at \in 1..(Len(src) + 1 - 1) /\ stack[i].at \in 1..Len(src)
        /\ src[stack[i].at].tok = "while" /\ Ends(src, stack[i].at) = {}
    BY <1>4, <2>1, <2>2 DEF Open
  <2>4. src'[stack[i].at] = src[stack[i].at]
    BY <1>2, <1>3, <1>4, <2>3, TokensOne
  <2>5. Inside(src', Len(src) + 1)
    BY <1>7, <2>3, <2>4 DEF Inside
  <2> QED BY <1>2, <1>3, <1>6, <1>8, <2>5, TokenLocated
<1>9. CASE loops = << >>
  <2>1. Passed'
    <3> SUFFICES ASSUME NEW i \in 1..Len(src'), Jumps(src'[i]), i # Len(src')
                 PROVE  Inside(src', i)
      BY <1>2, <1>9 DEF Passed
    <3>1. i \in 1..Len(src) /\ src'[i] = src[i]
      BY <1>2, <1>3, <1>4, <1>7, LastOrEarlier
    <3>2. Inside(src, i)
      BY <1>2, <3>1 DEF Located, Passed
    <3> QED BY <1>2, <1>3, <1>4, <3>1, <3>2, InsideStays
  <2>2. ASSUME NEW w \in 1..Len(src'), src'[w].tok = "while" PROVE Ends(src', w) # {}
    <3>1. w \in 1..Len(src) /\ src[w].tok = "while"
      BY <1>2, <1>3, <1>4, <2>2, LastOrEarlier
    <3>2. ~HasHandler(stack, w)
      <4> SUFFICES ASSUME NEW i \in 1..Len(stack), stack[i].at = w PROVE FALSE
        BY DEF HasHandler
      <4>1. stack[i].kind = "while"
        BY <1>4, <3>1 DEF Framed, Open
      <4> QED BY <1>4, <1>9, <4>1, LoopsOpen
    <3>3. HasEnded(src, w)
      BY <1>4, <3>1, <3>2 DEF Framed
    <3> QED BY <1>7, <3>3 DEF HasEnded
  <2>3. Stopped'
    BY <1>3, <1>7, <2>2 DEF Stopped
  <2> QED BY <1>6, <2>1, <2>3
<1> QED BY <1>8, <1>9

LEMMA OpenLocated ==
  ASSUME Located, OpenBlock \/ BeginIf \/ BeginWhile
  PROVE  Framed(src', stack') /\ Passed' /\ Stopped'
<1>1. /\ Len(code) \in Nat /\ Here = Len(src) + 1 /\ Len(src) \in Nat
      /\ src \in Seq(Token_) /\ Framed(src, stack) /\ WellFormed
  BY Lengths DEF Located, Loops, WellFormed, Here
<1>2. /\ BlockFrame(Here) \in Frame
      /\ IfFrame(Here, Len(code) + 2, Len(code) + 3) \in Frame
      /\ WhileFrame(Here, Len(code) + 1, Len(code) + 3) \in Frame
  BY <1>1 DEF BlockFrame, IfFrame, WhileFrame, Frame, NoBlock
<1>3. /\ status = "generating" /\ status' = "generating"
      /\ \E f \in Frame : /\ f.kind \in {"block", "if", "while"} /\ f.at = Here
                          /\ stack' = Append(stack, f)
                          /\ src' = Append(src, Token(f.kind, 0))
  <2>1. CASE OpenBlock
    BY <1>2, <2>1 DEF OpenBlock, AwaitsStmt, BlockFrame
  <2>2. CASE BeginIf
    BY <1>2, <2>2 DEF BeginIf, AwaitsStmt, IfFrame
  <2>3. CASE BeginWhile
    BY <1>2, <2>3 DEF BeginWhile, AwaitsStmt, WhileFrame
  <2> QED BY <2>1, <2>2, <2>3
<1>4. PICK f \in Frame : /\ f.kind \in {"block", "if", "while"} /\ f.at = Here
                         /\ stack' = Append(stack, f)
                         /\ src' = Append(src, Token(f.kind, 0))
  BY <1>3
<1> DEFINE t == Token(f.kind, 0)
<1>5. t \in Token_ /\ t.of = 0 /\ ~Jumps(t) /\ t.tok \notin EndTokens /\ t.tok = f.kind
  BY <1>4 DEF Token, Token_, Jumps, EndTokens
<1> HIDE DEF t
<1>6. /\ Len(stack) \in Nat /\ Len(stack') = Len(stack) + 1
      /\ stack'[Len(stack) + 1] = f /\ SameAt(stack, stack', Len(stack))
  BY <1>1, <1>4, PushSameAt
<1>7. Framed(Append(src, t), stack')
  BY <1>1, <1>4, <1>5, <1>6, FramedMore
<1> QED BY <1>3, <1>4, <1>5, <1>7, TokenLocated DEF t

LEMMA CloseLocated ==
  ASSUME Located, CloseBlock \/ EndIf \/ EndWhile
  PROVE  Framed(src', stack') /\ Passed' /\ Stopped'
<1>1. /\ src \in Seq(Token_) /\ Framed(src, stack) /\ WellFormed
      /\ status = "generating" /\ status' = "generating" /\ stack # << >>
      /\ stack' = Return(Pop)
  BY DEF Located, Loops, WellFormed, CloseBlock, EndIf, EndWhile, AwaitsStmt
<1>2. Top = stack[Len(stack)] /\ FrameOK(Top, Len(code)) /\ Top \in Frame
  BY <1>1, TopFrame
<1>3. PICK tok \in EndTokens :
        (Top.kind = "while" => tok = "endwhile") /\ src' = Append(src, Token(tok, Top.at))
  <2>1. CASE CloseBlock
    BY <2>1 DEF CloseBlock, EndTokens
  <2>2. CASE EndIf
    BY <1>2, <2>2 DEF EndIf, EndTokens, FrameOK
  <2>3. CASE EndWhile
    BY <2>3 DEF EndWhile, EndTokens
  <2> QED BY <2>1, <2>2, <2>3
<1> DEFINE t == Token(tok, Top.at)
<1>4. t \in Token_ /\ t.tok \in EndTokens /\ t.tok = tok /\ t.of = Top.at /\ ~Jumps(t)
  BY <1>2, <1>3 DEF Token, Token_, EndTokens, Jumps, Frame
<1> HIDE DEF t
<1>5. /\ Len(stack') \in Nat /\ Len(stack) = Len(stack') + 1
      /\ SameAt(stack, stack', Len(stack'))
  BY <1>1, PopSameAt
<1>6. Framed(Append(src, t), stack')
  BY <1>1, <1>2, <1>3, <1>4, <1>5, FramedLess
<1> QED BY <1>1, <1>3, <1>4, <1>6, TokenLocated DEF t

\* Handlers go on without a token.
LEMMA SameLocated ==
  ASSUME Located, src' = src, Len(stack') = Len(stack), SameAt(stack, stack', Len(stack)),
         status' = status \/ (status = "generating" /\ status' = "emitted")
  PROVE  Framed(src', stack') /\ Passed' /\ Stopped'
<1>1. Framed(src, stack')
  <2>1. \A i \in 1..Len(stack') : Open(src, stack'[i])
    BY DEF Located, Framed, Open, SameAt
  <2>2. OneEach(stack')
    BY DEF Located, Framed, OneEach, SameAt
  <2>3. \A w : HasHandler(stack, w) => HasHandler(stack', w)
    BY DEF HasHandler, SameAt
  <2> QED BY <2>1, <2>2, <2>3 DEF Located, Framed
<1>2. Passed' /\ Stopped'
  BY DEF Located, Passed, Stopped
<1> QED BY <1>1, <1>2

LEMMA ThenLocated ==
  ASSUME Located, EndThen
  PROVE  Framed(src', stack') /\ Passed' /\ Stopped'
<1>1. /\ src \in Seq(Token_) /\ stack \in Seq(Frame) /\ Framed(src, stack) /\ WellFormed
      /\ status = "generating" /\ status' = "generating" /\ stack # << >>
  BY DEF Located, Loops, WellFormed, EndThen
<1>2. Top = stack[Len(stack)] /\ Top \in Frame
  BY <1>1, TopFrame
<1>3. PICK hasElse \in BOOLEAN :
        /\ src' = IF hasElse THEN Append(src, Token("else", Top.at)) ELSE src
        /\ stack' = [stack EXCEPT ![Len(stack)].phase = "else", ![Len(stack)].done = ~hasElse]
  BY DEF EndThen
<1>4. Len(stack) \in 1..Len(stack) /\ Len(stack) \in Nat
  BY <1>1, EmptySeq
<1> DEFINE f == [[stack[Len(stack)] EXCEPT !.phase = "else"] EXCEPT !.done = ~hasElse]
<1>5. f \in Frame /\ f.kind = stack[Len(stack)].kind /\ f.at = stack[Len(stack)].at
  BY <1>2 DEF Frame
<1>6. stack' = [stack EXCEPT ![Len(stack)] = f]
  BY <1>1, <1>3, <1>4
<1> HIDE DEF f
<1>7. /\ Len(stack') = Len(stack)
      /\ \A i \in 1..Len(stack) : stack'[i] = IF i = Len(stack) THEN f ELSE stack[i]
  BY <1>1, <1>4, <1>5, <1>6, ExceptSeq
<1>8. SameAt(stack, stack', Len(stack))
  BY <1>5, <1>7 DEF SameAt
<1>9. CASE hasElse
  <2> DEFINE t == Token("else", Top.at)
  <2>1. Open(src, Top)
    BY <1>1, <1>2, <1>4 DEF Framed
  <2>2. /\ t \in Token_ /\ t.of \in 0..Len(src) /\ ~Jumps(t)
        /\ t.tok \notin EndTokens /\ t.tok # "while"
    BY <1>2, <2>1 DEF Token, Token_, EndTokens, Jumps, Frame, Open
  <2> HIDE DEF t
  <2>3. Framed(Append(src, t), stack')
    BY <1>1, <1>7, <1>8, <2>2, FramedOne
  <2> QED BY <1>1, <1>3, <1>9, <2>2, <2>3, TokenLocated DEF t
<1>10. CASE ~hasElse
  BY <1>1, <1>3, <1>7, <1>8, <1>10, SameLocated
<1> QED BY <1>9, <1>10

LEMMA InitLocated == Init => Located
<1> SUFFICES ASSUME Init PROVE Located
  OBVIOUS
<1>1. /\ Len(src) = 1 /\ src[1].tok = "block" /\ src[1].of = 0
      /\ Len(stack) = 1 /\ stack[1].at = 1 /\ stack[1].kind = "block"
      /\ status = "generating"
  BY DEF Init, Token, BlockFrame
<1>2. Ends(src, 1) = {}
  BY <1>1 DEF Ends
<1>3. Backward(src) /\ OneEach(stack)
  BY <1>1 DEF Backward, OneEach
<1>4. Framed(src, stack)
  BY <1>1, <1>2, <1>3 DEF Framed, Open
<1>5. Passed /\ Stopped
  BY <1>1 DEF Passed, Stopped, Jumps
<1> QED BY <1>4, <1>5, InitLoops DEF Located

LEMMA NextLocated == Located /\ [Next]_vars => Located'
<1> SUFFICES ASSUME Located, [Next]_vars PROVE Framed(src', stack') /\ Passed' /\ Stopped'
  BY NextLoops DEF Located
<1>1. CASE UNCHANGED vars \/ Finished \/ EndFunc
  <2>1. /\ src' = src /\ stack' = stack
        /\ status' = status \/ (status = "generating" /\ status' = "emitted")
    BY <1>1 DEF vars, Finished, EndFunc
  <2> QED BY <2>1, SameLocated DEF SameAt
<1> QED
  BY <1>1, SimpleLocated, JumpLocated, OpenLocated, CloseLocated, ThenLocated DEF Next, Step

\* What the property calls open has no end, and any other loop has one.
LEMMA WhereLoopsEnd ==
  ASSUME Located, NEW w \in Positions, Tok(w) = "while"
  PROVE  LET open == ~\E j \in Positions : src[j].of = w /\ Tok(j) = "endwhile"
         IN  \/ open /\ Ends(src, w) = {}
             \/ ~open /\ Closer(w) \in Positions /\ Ends(src, w) = {Closer(w)}
<1>1. Positions = 1..Len(src) /\ src[w].tok = "while"
  BY DEF Positions, Tok
<1>2. CASE HasHandler(stack, w)
  <2>1. PICK i \in 1..Len(stack) : stack[i].at = w
    BY <1>2 DEF HasHandler
  <2>2. Ends(src, w) = {}
    BY <2>1 DEF Located, Framed, Open
  <2> QED BY <1>1, <2>2 DEF Ends, EndTokens, Tok
<1>3. CASE HasEnded(src, w)
  <2>1. PICK j \in 1..Len(src) : src[j].tok = "endwhile" /\ Ends(src, w) = {j}
    BY <1>3 DEF HasEnded
  <2>2. src[j].of = w
    BY <2>1 DEF Ends
  <2>3. \A k \in Positions :
          src[k].of = w /\ Tok(k) \in {"endblock", "endif", "endwhile"} <=> k = j
    BY <1>1, <2>1 DEF Ends, EndTokens, Tok
  <2>4. Closer(w) = j
    BY <1>1, <2>3 DEF Closer
  <2> QED BY <1>1, <2>1, <2>2, <2>4 DEF Tok
<1> QED BY <1>1, <1>2, <1>3 DEF Located, Framed

\* codeGenStmt rejects a program exactly where a break or continue is outside of
\* every loop of the source: _nested_blocks is never empty inside of a loop, and
\* always is outside.
THEOREM RejectionIsExact == Spec => []RejectedOutsideLoopOnly
<1>1. Located => RejectedOutsideLoopOnly
  <2> SUFFICES ASSUME Located PROVE RejectedOutsideLoopOnly
    OBVIOUS
  <2> DEFINE unended(w) == ~\E j \in Positions : src[j].of = w /\ Tok(j) = "endwhile"
             within(i, w) == w < i /\ (unended(w) \/ i < Closer(w))
  <2>1. Positions = 1..Len(src) /\ Len(src) \in Nat
    BY Lengths DEF Located, Loops, Positions
  <2>2. \A w \in Positions : Tok(w) = "while" =>
          \/ unended(w) /\ Ends(src, w) = {}
          \/ ~unended(w) /\ Closer(w) \in Positions /\ Ends(src, w) = {Closer(w)}
    BY WhereLoopsEnd
  <2> HIDE DEF unended
  <2>3. ASSUME NEW i \in Positions, Tok(i) \in {"break", "continue"}
        PROVE  (\E w \in Positions : Tok(w) = "while" /\ within(i, w))
               <=> ~(status = "error" /\ i = Len(src))
    <3>1. CASE status = "error" /\ i = Len(src)
      <4> SUFFICES ASSUME NEW w \in Positions, Tok(w) = "while" PROVE ~within(i, w)
        BY <3>1
      <4>1. Ends(src, w) # {}
        BY <2>1, <3>1 DEF Located, Stopped, Tok
      <4>2. ~unended(w) /\ Closer(w) \in Positions
        BY <2>2, <4>1
      <4> QED BY <2>1, <3>1, <4>2
    <3>2. CASE ~(status = "error" /\ i = Len(src))
      <4>1. Inside(src, i)
        BY <2>1, <2>3, <3>2 DEF Located, Passed, Jumps, Tok
      <4>2. PICK w \in 1..(i - 1) : src[w].tok = "while" /\ \A j \in Ends(src, w) : i < j
        BY <4>1 DEF Inside
      <4>3. w \in Positions /\ Tok(w) = "while" /\ w < i
        BY <2>1, <4>2 DEF Tok
      <4>4. within(i, w)
        BY <2>2, <4>2, <4>3
      <4> QED BY <3>2, <4>3, <4>4
    <3> QED BY <3>1, <3>2
  <2> QED BY <2>3 DEF RejectedOutsideLoopOnly, unended
<1> QED BY <1>1, InitLocated, NextLocated, PTL DEF Spec
=============================================================================
