------------------------- MODULE ControlFlowProofs -------------------------
(***************************************************************************)
(* Proofs about ControlFlow for every bound, every choice of statements    *)
(* and return types, and every outcome of back() on an empty block (where  *)
(* a theorem does not restrict it).                                        *)
(***************************************************************************)
EXTENDS ControlFlow, SequenceTheorems, TLAPS

-----------------------------------------------------------------------------
(* The inductive invariant behind TypeOK and TargetsCreated *)

\* Blocks are numbered 1..n, so a branch may lead to any of 2..n.
InstrOK(i, n) == i \in Instr /\ \A t \in 1..Len(i.to) : i.to[t] \in 2..n

CodeOK(c) ==
  /\ c \in Seq(Seq(Instr))
  /\ \A b \in 1..Len(c) : \A k \in 1..Len(c[b]) : InstrOK(c[b][k], Len(c))

\* The blocks of an if or while frame are created; those of an if differ.
FrameOK(f, n) ==
  /\ f \in Frame
  /\ f.kind = "block" <=> f.phase = "items"
  /\ f.kind = "while" <=> f.phase = "body"
  /\ f.kind # "block" => f.b1 \in 2..n /\ f.b2 \in 2..n /\ f.b1 # f.b2

StackOK(stk, n) == \A i \in 1..Len(stk) : FrameOK(stk[i], n)

WellFormed ==
  /\ src \in Seq(Token_)
  /\ stack \in Seq(Frame) /\ StackOK(stack, Len(code))
  /\ CodeOK(code)
  /\ layout \in Seq(1..Len(code))
  /\ ip \in 1..Len(code)
  /\ loops \in Seq((2..Len(code)) \X (2..Len(code)))
  /\ isInt \in BOOLEAN
  /\ status \in {"generating", "emitted", "error"}

-----------------------------------------------------------------------------
(* Lemmas about the operators of ControlFlow *)

\* Emit appends one instruction to one block and leaves the others alone.
LEMMA EmitAppends ==
  ASSUME NEW c, CodeOK(c), NEW b \in 1..Len(c), NEW i, InstrOK(i, Len(c))
  PROVE  /\ CodeOK(Emit(c, b, i))
         /\ Len(Emit(c, b, i)) = Len(c)
         /\ Emit(c, b, i)[b] = Append(c[b], i)
         /\ \A d \in 1..Len(c) : d # b => Emit(c, b, i)[d] = c[d]
<1> DEFINE e == Emit(c, b, i)
<1>1. c \in Seq(Seq(Instr)) /\ c[b] \in Seq(Instr) /\ i \in Instr /\ Len(c[b]) \in Nat
  BY ElementOfSeq, LenProperties DEF CodeOK, InstrOK
<1>2. /\ Append(c[b], i) \in Seq(Instr)
      /\ Len(Append(c[b], i)) = Len(c[b]) + 1
      /\ \A k \in 1..Len(c[b]) : Append(c[b], i)[k] = c[b][k]
      /\ Append(c[b], i)[Len(c[b]) + 1] = i
  BY <1>1, AppendProperties
<1>3. /\ e \in Seq(Seq(Instr))
      /\ Len(e) = Len(c)
      /\ \A d \in 1..Len(c) : e[d] = IF d = b THEN Append(c[b], i) ELSE c[d]
  BY <1>1, <1>2, ExceptSeq DEF Emit
<1>4. ASSUME NEW d \in 1..Len(e), NEW k \in 1..Len(e[d])
      PROVE  InstrOK(e[d][k], Len(e))
  <2>1. CASE d # b
    BY <1>3, <2>1 DEF CodeOK
  <2>2. CASE d = b
    <3>1. k \in 1..Len(c[b]) \/ k = Len(c[b]) + 1
      <4>1. e[d] = Append(c[b], i)
        BY <1>3, <2>2
      <4>2. k \in 1..(Len(c[b]) + 1)
        BY <1>2, <4>1
      <4> HIDE DEF e
      <4> QED BY <1>1, <4>2, SMTT(30)
    <3> QED BY <1>2, <1>3, <2>2, <3>1 DEF CodeOK
  <2> QED BY <2>1, <2>2
<1> QED
  BY <1>3, <1>4 DEF CodeOK

\* Create adds k empty blocks behind the ones there are.
LEMMA CreateAdds ==
  ASSUME NEW c, CodeOK(c), NEW k \in Nat
  PROVE  /\ CodeOK(Create(c, k))
         /\ Len(Create(c, k)) = Len(c) + k
         /\ \A b \in 1..Len(c) : Create(c, k)[b] = c[b]
         /\ \A b \in (Len(c) + 1)..(Len(c) + k) : Create(c, k)[b] = << >>
<1> DEFINE new == [i \in 1..k |-> << >>]
           e == Create(c, k)
<1>1. c \in Seq(Seq(Instr)) /\ Len(c) \in Nat
  BY LenProperties DEF CodeOK
<1>2. new \in Seq(Seq(Instr)) /\ Len(new) = k
  <2>1. new \in [1..k -> Seq(Instr)]
    BY EmptySeq
  <2> QED BY <2>1
<1>3. /\ e \in Seq(Seq(Instr))
      /\ Len(e) = Len(c) + k
      /\ \A i \in 1..(Len(c) + k) : e[i] = IF i <= Len(c) THEN c[i] ELSE new[i - Len(c)]
  <2> HIDE DEF new
  <2>1. /\ c \o new \in Seq(Seq(Instr))
        /\ Len(c \o new) = Len(c) + Len(new)
        /\ \A i \in 1..(Len(c) + Len(new)) :
             (c \o new)[i] = IF i <= Len(c) THEN c[i] ELSE new[i - Len(c)]
    BY <1>1, <1>2, ConcatProperties
  <2>2. e = c \o new
    BY DEF Create, new
  <2> QED BY <1>2, <2>1, <2>2
<1>4. \A b \in 1..Len(c) : e[b] = c[b]
  BY <1>1, <1>3
<1>5. \A b \in (Len(c) + 1)..(Len(c) + k) : e[b] = << >>
  BY <1>1, <1>3
<1>6. ASSUME NEW b \in 1..Len(e), NEW j \in 1..Len(e[b])
      PROVE  InstrOK(e[b][j], Len(e))
  <2>1. b \in 1..Len(c)
    <3>1. b > Len(c) => Len(e[b]) = 0
      BY <1>1, <1>3, <1>5, EmptySeq
    <3> QED BY <1>1, <1>3, <3>1
  <2>2. e[b] = c[b] /\ InstrOK(c[b][j], Len(c))
    BY <1>4, <2>1 DEF CodeOK
  <2>3. \A d \in 2..Len(c) : d \in 2..Len(e)
    BY <1>1, <1>3
  <2> HIDE DEF e
  <2> QED BY <2>2, <2>3 DEF InstrOK
<1> QED
  BY <1>3, <1>4, <1>5, <1>6 DEF CodeOK

\* The three blocks of an if or a while.
LEMMA CreateThree ==
  ASSUME NEW c, CodeOK(c), NEW n \in Nat, n = Len(c)
  PROVE  /\ CodeOK(Create(c, 3))
         /\ Len(Create(c, 3)) = n + 3
         /\ \A b \in 1..n : Create(c, 3)[b] = c[b]
         /\ \A b \in (n + 1)..(n + 3) : Create(c, 3)[b] = << >>
<1>1. PICK k \in Nat : k = 3
  OBVIOUS
<1>2. /\ CodeOK(Create(c, k))
      /\ Len(Create(c, k)) = n + k
      /\ \A b \in 1..n : Create(c, k)[b] = c[b]
      /\ \A b \in (n + 1)..(n + k) : Create(c, k)[b] = << >>
  BY CreateAdds
<1> QED BY <1>1, <1>2

\* Return only marks the statement that the calling handler waits for as done.
LEMMA ReturnMarks ==
  ASSUME NEW stk \in Seq(Frame)
  PROVE  /\ Return(stk) \in Seq(Frame)
         /\ Len(Return(stk)) = Len(stk)
         /\ \A i \in 1..Len(stk) :
              /\ Return(stk)[i].kind = stk[i].kind
              /\ Return(stk)[i].phase = stk[i].phase
              /\ Return(stk)[i].at = stk[i].at
              /\ Return(stk)[i].b1 = stk[i].b1
              /\ Return(stk)[i].b2 = stk[i].b2
<1> DEFINE n == Len(stk)
<1>1. CASE stk = << >> \/ stk[n].kind = "block"
  BY <1>1 DEF Return
<1>2. CASE stk # << >> /\ stk[n].kind # "block"
  <2>1. n \in 1..Len(stk) /\ stk[n] \in Frame
    BY <1>2, EmptySeq, ElementOfSeq
  <2>2. [stk[n] EXCEPT !.done = TRUE] \in Frame
    BY <2>1 DEF Frame
  <2> DEFINE f == [stk[n] EXCEPT !.done = TRUE]
  <2>3. Return(stk) = [stk EXCEPT ![n] = f]
    BY <1>2 DEF Return
  <2>4. /\ f.kind = stk[n].kind /\ f.phase = stk[n].phase /\ f.at = stk[n].at
        /\ f.b1 = stk[n].b1 /\ f.b2 = stk[n].b2
    BY <2>1 DEF Frame
  <2> HIDE DEF f
  <2> QED BY <2>1, <2>2, <2>3, <2>4, ExceptSeq DEF f
<1> QED BY <1>1, <1>2

LEMMA ReturnKeepsStack ==
  ASSUME NEW stk \in Seq(Frame), NEW n \in Nat, StackOK(stk, n)
  PROVE  Return(stk) \in Seq(Frame) /\ StackOK(Return(stk), n)
<1> DEFINE r == Return(stk)
<1>1. /\ r \in Seq(Frame) /\ Len(r) = Len(stk)
      /\ \A i \in 1..Len(stk) : /\ r[i].kind = stk[i].kind /\ r[i].phase = stk[i].phase
                                /\ r[i].b1 = stk[i].b1 /\ r[i].b2 = stk[i].b2
  BY ReturnMarks
<1> HIDE DEF r
<1>2. \A i \in 1..Len(r) : FrameOK(r[i], n)
  <2> TAKE i \in 1..Len(r)
  <2>1. r[i] \in Frame /\ FrameOK(stk[i], n)
    BY <1>1, ElementOfSeq DEF StackOK
  <2> QED BY <1>1, <2>1 DEF FrameOK
<1> QED BY <1>1, <1>2 DEF StackOK, r

\* Frames stay well formed when blocks are added.
LEMMA StackGrows ==
  ASSUME NEW stk, NEW n \in Nat, NEW m \in Nat, n <= m, StackOK(stk, n)
  PROVE  StackOK(stk, m)
BY DEF StackOK, FrameOK

LEMMA PushKeepsStack ==
  ASSUME NEW stk \in Seq(Frame), NEW n \in Nat, StackOK(stk, n),
         NEW f, FrameOK(f, n)
  PROVE  Append(stk, f) \in Seq(Frame) /\ StackOK(Append(stk, f), n)
<1>1. f \in Frame
  BY DEF FrameOK
<1>2. /\ Append(stk, f) \in Seq(Frame)
      /\ Len(Append(stk, f)) = Len(stk) + 1
      /\ \A i \in 1..Len(stk) : Append(stk, f)[i] = stk[i]
      /\ Append(stk, f)[Len(stk) + 1] = f
  BY <1>1, AppendProperties
<1> QED BY <1>2, LenProperties DEF StackOK

\* A prefix of a sequence, as the stacks of handlers and of loops are popped.
LEMMA Prefix ==
  ASSUME NEW S, NEW s \in Seq(S), s # << >>
  PROVE  LET p == SubSeq(s, 1, Len(s) - 1)
         IN  /\ p \in Seq(S)
             /\ Len(p) = Len(s) - 1
             /\ \A i \in 1..(Len(s) - 1) : p[i] = s[i]
<1>1. Len(s) \in Nat \ {0}
  BY EmptySeq
<1>2. PICK n \in Nat : n = Len(s) - 1
  BY <1>1
<1>3. \A i \in 1..n : s[i] \in S
  BY <1>1, <1>2, ElementOfSeq
<1>4. /\ SubSeq(s, 1, n) \in Seq(S)
      /\ Len(SubSeq(s, 1, n)) = IF 1 <= n THEN n - 1 + 1 ELSE 0
      /\ \A i \in 1..(n - 1 + 1) : SubSeq(s, 1, n)[i] = s[1 + i - 1]
  BY <1>3, SubSeqProperties
<1>5. n - 1 + 1 = n /\ (~(1 <= n) => n = 0) /\ \A i \in 1..n : 1 + i - 1 = i
  OBVIOUS
<1> QED BY <1>2, <1>4, <1>5

\* Pop removes the last frame.
LEMMA PopRemoves ==
  ASSUME stack \in Seq(Frame), stack # << >>
  PROVE  /\ Pop \in Seq(Frame)
         /\ Len(Pop) = Len(stack) - 1
         /\ \A i \in 1..(Len(stack) - 1) : Pop[i] = stack[i]
         /\ Len(stack) \in Nat \ {0}
BY Prefix, EmptySeq DEF Pop

\* src only grows, by tokens that name an earlier token or none.
LEMMA TokensAppend ==
  ASSUME WellFormed, NEW t, t \in Token_
  PROVE  Append(src, t) \in Seq(Token_)
BY AppendProperties DEF WellFormed

\* The frame on top is a frame, and its blocks exist.
LEMMA TopFrame ==
  ASSUME WellFormed, stack # << >>
  PROVE  /\ Len(stack) \in 1..Len(stack)
         /\ Top = stack[Len(stack)]
         /\ FrameOK(Top, Len(code))
         /\ Top \in Frame
BY EmptySeq, ElementOfSeq DEF WellFormed, StackOK, Top

\* A WellFormed state has finitely many blocks and tokens.
LEMMA Lengths ==
  ASSUME WellFormed
  PROVE  /\ Len(code) \in Nat \ {0}
         /\ Len(src) \in Nat /\ Here \in Nat \ {0}
         /\ Len(stack) \in Nat
         /\ StackOK(Return(stack), Len(code)) /\ Return(stack) \in Seq(Frame)
<1>1. Len(code) \in Nat /\ Len(src) \in Nat /\ Len(stack) \in Nat
  BY LenProperties DEF WellFormed, CodeOK
<1>2. Len(code) \in Nat \ {0} /\ Here \in Nat \ {0}
  BY <1>1 DEF WellFormed, Here
<1> QED BY <1>1, <1>2, ReturnKeepsStack DEF WellFormed

\* A closing handler pops its frame and reports to its caller.
LEMMA PopReturnKeepsStack ==
  ASSUME WellFormed, stack # << >>
  PROVE  Return(Pop) \in Seq(Frame) /\ StackOK(Return(Pop), Len(code))
<1>1. Pop \in Seq(Frame) /\ StackOK(Pop, Len(code))
  <2>1. /\ Pop \in Seq(Frame)
        /\ Len(Pop) = Len(stack) - 1 /\ Len(stack) \in Nat \ {0}
        /\ \A i \in 1..(Len(stack) - 1) : Pop[i] = stack[i]
    BY PopRemoves DEF WellFormed
  <2>2. \A i \in 1..Len(Pop) : i \in 1..(Len(stack) - 1) /\ i \in 1..Len(stack)
    BY <2>1
  <2>3. \A i \in 1..Len(stack) : FrameOK(stack[i], Len(code))
    BY DEF WellFormed, StackOK
  <2> QED BY <2>1, <2>2, <2>3 DEF StackOK
<1> QED BY <1>1, Lengths, ReturnKeepsStack

\* The instructions the handlers create are well formed if their targets are.
LEMMA Instructions ==
  ASSUME NEW at \in Nat, NEW n \in Nat
  PROVE  /\ InstrOK(Inst(at), n)
         /\ InstrOK(Ret(at), n)
         /\ \A b \in 2..n : InstrOK(Br(at, b), n)
         /\ \A b, d \in 2..n : InstrOK(CondBr(at, b, d), n)
<1>1. InstrOK(Inst(at), n) /\ InstrOK(Ret(at), n)
  BY EmptySeq DEF Inst, Ret, Instr, InstrOK
<1>2. ASSUME NEW b \in 2..n, NEW d \in 2..n
      PROVE  InstrOK(Br(at, b), n) /\ InstrOK(CondBr(at, b, d), n)
  <2>1. b \in Block /\ d \in Block
    BY DEF Block
  <2>2. <<b>> \in Seq(Block) /\ <<b, d>> \in Seq(Block) /\ Len(<<b>>) = 1 /\ Len(<<b, d>>) = 2
    BY <2>1
  <2>3. /\ Br(at, b) \in Instr /\ Br(at, b).to = <<b>>
        /\ CondBr(at, b, d) \in Instr /\ CondBr(at, b, d).to = <<b, d>>
    BY <2>2 DEF Br, CondBr, Instr
  <2>4. \A t \in 1..2 : t = 1 \/ t = 2
    OBVIOUS
  <2> QED BY <2>2, <2>3, <2>4 DEF InstrOK
<1> QED BY <1>1, <1>2

\* "prevent two branch insts case" touches the insert block only.
LEMMA JoinBranches ==
  ASSUME WellFormed, NEW b \in 2..Len(code), NEW tail
  PROVE  /\ CodeOK(BrUnlessBranch(code, b, tail))
         /\ Len(BrUnlessBranch(code, b, tail)) = Len(code)
         /\ \A d \in 1..Len(code) : d # ip => BrUnlessBranch(code, b, tail)[d] = code[d]
         /\ tail # "br" => BrUnlessBranch(code, b, tail)[ip] = Append(code[ip], Br(0, b))
<1>1. Len(code) \in Nat
  BY Lengths
<1>2. InstrOK(Br(0, b), Len(code))
  BY <1>1, Instructions
<1>3. ip \in 1..Len(code) /\ CodeOK(code)
  BY DEF WellFormed
<1>4. /\ CodeOK(Emit(code, ip, Br(0, b)))
      /\ Len(Emit(code, ip, Br(0, b))) = Len(code)
      /\ Emit(code, ip, Br(0, b))[ip] = Append(code[ip], Br(0, b))
      /\ \A d \in 1..Len(code) : d # ip => Emit(code, ip, Br(0, b))[d] = code[d]
  BY <1>2, <1>3, EmitAppends
<1> QED BY <1>3, <1>4 DEF BrUnlessBranch

-----------------------------------------------------------------------------
(* WellFormed is inductive *)

LEMMA InitWellFormed == Init => WellFormed
<1> SUFFICES ASSUME Init PROVE WellFormed
  OBVIOUS
<1>1. Token("block", 0) \in Token_ /\ BlockFrame(1) \in Frame
  BY DEF Token, Token_, BlockFrame, Frame, NoBlock
<1>2. src \in Seq(Token_) /\ stack \in Seq(Frame) /\ Len(stack) = 1 /\ stack[1] = BlockFrame(1)
  BY <1>1 DEF Init
<1>3. StackOK(stack, Len(code))
  <2>1. FrameOK(BlockFrame(1), Len(code))
    BY <1>1 DEF FrameOK, BlockFrame
  <2>2. \A i \in 1..Len(stack) : stack[i] = BlockFrame(1)
    BY <1>2
  <2> QED BY <2>1, <2>2 DEF StackOK
<1>4. code \in Seq(Seq(Instr)) /\ Len(code) = 1 /\ code[1] = << >> /\ Len(code[1]) = 0
  BY EmptySeq DEF Init
<1>5. CodeOK(code)
  BY <1>4 DEF CodeOK
<1>6. layout \in Seq(1..Len(code)) /\ ip \in 1..Len(code)
  BY <1>4 DEF Init, Entry
<1>7. loops \in Seq((2..Len(code)) \X (2..Len(code)))
  BY EmptySeq DEF Init
<1>8. isInt \in BOOLEAN /\ status \in {"generating", "emitted", "error"}
  BY RetIntAssumption DEF Init
<1> QED BY <1>2, <1>3, <1>5, <1>6, <1>7, <1>8 DEF WellFormed

LEMMA SimpleStatementsWellFormed ==
  ASSUME WellFormed,
         ExprStmt \/ EmptyStmt \/ ReturnStmt \/ ContinueStmt \/ BreakStmt
  PROVE  WellFormed'
<1> USE Lengths
<1>0. src' \in Seq(Token_)
  <2>1. PICK tok \in Leaves : Leaf(tok)
    BY DEF ExprStmt, EmptyStmt, ReturnStmt, ContinueStmt, BreakStmt, BreakOrContinue, Leaf
  <2>2. Token(tok, 0) \in Token_
    BY LeavesAssumption DEF Token, Token_
  <2> QED BY <2>1, <2>2, TokensAppend DEF Leaf
<1>1. layout' = layout /\ ip' = ip /\ loops' = loops /\ isInt' = isInt
  BY DEF ExprStmt, EmptyStmt, ReturnStmt, ContinueStmt, BreakStmt, BreakOrContinue, Leaf
<1>2. stack' = Return(stack) \/ stack' = stack
  BY DEF ExprStmt, EmptyStmt, ReturnStmt, ContinueStmt, BreakStmt, BreakOrContinue
<1>3. status' = status \/ status' = "error"
  BY DEF ExprStmt, EmptyStmt, ReturnStmt, ContinueStmt, BreakStmt, BreakOrContinue
<1>4. CodeOK(code') /\ Len(code') = Len(code)
  <2>1. \/ code' = code
        \/ code' = Emit(code, ip, Inst(Here))
        \/ code' = Emit(code, ip, Ret(Here))
        \/ loops # << >> /\ \E t \in 1..2 : code' = Emit(code, ip, Br(Here, loops[Len(loops)][t]))
    BY DEF ExprStmt, EmptyStmt, ReturnStmt, ContinueStmt, BreakStmt, BreakOrContinue
  <2>2. ASSUME NEW i, InstrOK(i, Len(code)), code' = Emit(code, ip, i)
        PROVE  CodeOK(code') /\ Len(code') = Len(code)
    BY <2>2, EmitAppends DEF WellFormed
  <2>3. CASE code' = code
    BY <2>3 DEF WellFormed
  <2>4. CASE code' = Emit(code, ip, Inst(Here)) \/ code' = Emit(code, ip, Ret(Here))
    BY <2>2, <2>4, Instructions
  <2>5. ASSUME NEW t \in 1..2, loops # << >>,
               code' = Emit(code, ip, Br(Here, loops[Len(loops)][t]))
        PROVE  CodeOK(code') /\ Len(code') = Len(code)
    <3>1. loops[Len(loops)] \in (2..Len(code)) \X (2..Len(code))
      BY <2>5, EmptySeq, ElementOfSeq DEF WellFormed
    <3>2. loops[Len(loops)][t] \in 2..Len(code)
      BY <3>1
    <3> QED BY <2>2, <2>5, <3>2, Instructions
  <2> QED BY <2>1, <2>3, <2>4, <2>5
<1> QED
  BY <1>0, <1>1, <1>2, <1>3, <1>4 DEF WellFormed

LEMMA BlocksWellFormed ==
  ASSUME WellFormed, OpenBlock \/ CloseBlock
  PROVE  WellFormed'
<1> USE Lengths
<1>1. CASE OpenBlock
  <2>1. Token("block", 0) \in Token_
    BY DEF Token, Token_
  <2>2. FrameOK(BlockFrame(Here), Len(code))
    BY DEF FrameOK, Frame, BlockFrame, NoBlock
  <2>3. stack' \in Seq(Frame) /\ StackOK(stack', Len(code))
    BY <1>1, <2>2, PushKeepsStack DEF OpenBlock, WellFormed
  <2>4. src' \in Seq(Token_)
    BY <1>1, <2>1, TokensAppend DEF OpenBlock
  <2> QED BY <1>1, <2>3, <2>4 DEF OpenBlock, WellFormed
<1>2. CASE CloseBlock
  <2>1. stack # << >> /\ src' = Append(src, Token("endblock", Top.at)) /\ stack' = Return(Pop)
    BY <1>2 DEF CloseBlock, AwaitsStmt
  <2>2. Token("endblock", Top.at) \in Token_
    BY <2>1, TopFrame DEF Token, Token_, Frame
  <2> QED BY <1>2, <2>1, <2>2, TokensAppend, PopReturnKeepsStack DEF CloseBlock, WellFormed
<1> QED BY <1>1, <1>2

LEMMA BeginIfWellFormed ==
  ASSUME WellFormed, BeginIf
  PROVE  WellFormed'
<1> USE Lengths
<1>1. PICK n \in Nat \ {0} : n = Len(code)
  OBVIOUS
<1> DEFINE c == Create(code, 3)
<1>2. /\ CodeOK(c) /\ Len(c) = n + 3
  BY <1>1, CreateThree DEF WellFormed
<1>3. n <= n + 3 /\ n + 3 \in Nat
  BY <1>1
<1>4. CodeOK(code') /\ Len(code') = n + 3
  <2>1. code' = Emit(c, ip, CondBr(Here, n + 1, n + 2))
    BY <1>1 DEF BeginIf
  <2>2. InstrOK(CondBr(Here, n + 1, n + 2), n + 3)
    BY <1>1, Instructions
  <2>3. ip \in 1..Len(c)
    BY <1>1, <1>2 DEF WellFormed
  <2> HIDE DEF c
  <2> QED BY <1>2, <2>1, <2>2, <2>3, EmitAppends
<1>5. src' \in Seq(Token_)
  <2>1. Token("if", 0) \in Token_
    BY DEF Token, Token_
  <2> QED BY <2>1, TokensAppend DEF BeginIf
<1>6. stack' \in Seq(Frame) /\ StackOK(stack', n + 3)
  <2>1. stack' = Append(stack, IfFrame(Here, n + 2, n + 3))
    BY <1>1 DEF BeginIf
  <2>2. FrameOK(IfFrame(Here, n + 2, n + 3), n + 3)
    BY <1>1 DEF FrameOK, Frame, IfFrame
  <2>3. stack \in Seq(Frame) /\ StackOK(stack, n + 3)
    BY <1>1, StackGrows DEF WellFormed
  <2> QED BY <2>1, <2>2, <2>3, PushKeepsStack
<1>7. layout' \in Seq(1..(n + 3)) /\ loops' \in Seq((2..(n + 3)) \X (2..(n + 3)))
  <2>1. layout \in Seq(1..(n + 3)) /\ loops \in Seq((2..(n + 3)) \X (2..(n + 3)))
    <3>1. layout \in Seq(1..n) /\ loops \in Seq((2..n) \X (2..n))
      BY <1>1 DEF WellFormed
    <3>2. 1..n \subseteq 1..(n + 3) /\ (2..n) \X (2..n) \subseteq (2..(n + 3)) \X (2..(n + 3))
      BY <1>1
    <3> QED BY <3>1, <3>2, SeqMonotonic
  <2>2. layout' = Append(layout, n + 1) /\ loops' = loops
    BY <1>1 DEF BeginIf
  <2> QED BY <2>1, <2>2, AppendProperties
<1>8. ip' \in 1..(n + 3) /\ isInt' = isInt /\ status' = status
  BY <1>1 DEF BeginIf
<1> QED BY <1>4, <1>5, <1>6, <1>7, <1>8 DEF WellFormed

LEMMA BeginWhileWellFormed ==
  ASSUME WellFormed, BeginWhile
  PROVE  WellFormed'
<1> USE Lengths
<1>1. PICK n \in Nat \ {0} : n = Len(code)
  OBVIOUS
<1> DEFINE c == Create(code, 3)
           jump == Emit(c, ip, Br(0, n + 1))
<1>2. /\ CodeOK(c) /\ Len(c) = n + 3
  BY <1>1, CreateThree DEF WellFormed
<1>3. n <= n + 3 /\ n + 3 \in Nat
  BY <1>1
<1>4. CodeOK(jump) /\ Len(jump) = n + 3
  <2>1. InstrOK(Br(0, n + 1), n + 3)
    BY <1>1, Instructions
  <2>2. ip \in 1..Len(c)
    BY <1>1, <1>2 DEF WellFormed
  <2> HIDE DEF c
  <2> QED BY <1>2, <2>1, <2>2, EmitAppends
<1>5. CodeOK(code') /\ Len(code') = n + 3
  <2>1. code' = Emit(jump, n + 1, CondBr(Here, n + 2, n + 3))
    BY <1>1 DEF BeginWhile
  <2>2. InstrOK(CondBr(Here, n + 2, n + 3), n + 3)
    BY <1>1, Instructions
  <2>3. n + 1 \in 1..Len(jump)
    BY <1>4
  <2> HIDE DEF jump
  <2> QED BY <1>4, <2>1, <2>2, <2>3, EmitAppends
<1>6. src' \in Seq(Token_)
  <2>1. Token("while", 0) \in Token_
    BY DEF Token, Token_
  <2> QED BY <2>1, TokensAppend DEF BeginWhile
<1>7. stack' \in Seq(Frame) /\ StackOK(stack', n + 3)
  <2>1. stack' = Append(stack, WhileFrame(Here, n + 1, n + 3))
    BY <1>1 DEF BeginWhile
  <2>2. FrameOK(WhileFrame(Here, n + 1, n + 3), n + 3)
    BY <1>1 DEF FrameOK, Frame, WhileFrame
  <2>3. stack \in Seq(Frame) /\ StackOK(stack, n + 3)
    BY <1>1, StackGrows DEF WellFormed
  <2> QED BY <2>1, <2>2, <2>3, PushKeepsStack
<1>8. layout' \in Seq(1..(n + 3)) /\ loops' \in Seq((2..(n + 3)) \X (2..(n + 3)))
  <2>1. layout \in Seq(1..(n + 3)) /\ loops \in Seq((2..(n + 3)) \X (2..(n + 3)))
    <3>1. layout \in Seq(1..n) /\ loops \in Seq((2..n) \X (2..n))
      BY <1>1 DEF WellFormed
    <3>2. 1..n \subseteq 1..(n + 3) /\ (2..n) \X (2..n) \subseteq (2..(n + 3)) \X (2..(n + 3))
      BY <1>1
    <3> QED BY <3>1, <3>2, SeqMonotonic
  <2>2. layout' = layout \o <<n + 1, n + 2>> /\ loops' = Append(loops, <<n + 1, n + 3>>)
    BY <1>1 DEF BeginWhile
  <2>3. <<n + 1, n + 2>> \in Seq(1..(n + 3)) /\ <<n + 1, n + 3>> \in (2..(n + 3)) \X (2..(n + 3))
    OBVIOUS
  <2> QED BY <2>1, <2>2, <2>3, ConcatProperties, AppendProperties
<1>9. ip' \in 1..(n + 3) /\ isInt' = isInt /\ status' = status
  BY <1>1 DEF BeginWhile
<1> QED BY <1>5, <1>6, <1>7, <1>8, <1>9 DEF WellFormed

LEMMA EndThenWellFormed ==
  ASSUME WellFormed, EndThen
  PROVE  WellFormed'
<1> USE Lengths
<1>1. stack # << >> /\ Top.phase = "then"
  BY DEF EndThen
<1>2. /\ FrameOK(Top, Len(code)) /\ Top \in Frame
      /\ Top = stack[Len(stack)] /\ Len(stack) \in 1..Len(stack)
  BY <1>1, TopFrame
<1>3. Top.kind = "if" /\ Top.b1 \in 2..Len(code) /\ Top.b2 \in 2..Len(code) /\ Top.at \in Nat
  BY <1>1, <1>2 DEF FrameOK, Frame
<1>4. CodeOK(code') /\ Len(code') = Len(code)
  <2>1. \E tail : code' = BrUnlessBranch(code, Top.b2, tail)
    BY DEF EndThen
  <2> QED BY <1>3, <2>1, JoinBranches
<1>5. PICK hasElse \in BOOLEAN :
        /\ src' = IF hasElse THEN Append(src, Token("else", Top.at)) ELSE src
        /\ stack' = [stack EXCEPT ![Len(stack)].phase = "else", ![Len(stack)].done = ~hasElse]
  BY DEF EndThen
<1>6. src' \in Seq(Token_)
  <2>1. Token("else", Top.at) \in Token_
    BY <1>3 DEF Token, Token_
  <2> QED BY <1>5, <2>1, TokensAppend DEF WellFormed
<1>7. stack' \in Seq(Frame) /\ StackOK(stack', Len(code))
  <2> DEFINE f == [Top EXCEPT !.phase = "else", !.done = ~hasElse]
  <2>1. FrameOK(f, Len(code)) /\ f \in Frame
    BY <1>1, <1>2, <1>3 DEF FrameOK, Frame
  <2>2. stack' = [stack EXCEPT ![Len(stack)] = f]
    BY <1>2, <1>5
  <2>3. stack \in Seq(Frame) /\ StackOK(stack, Len(code))
    BY DEF WellFormed
  <2> HIDE DEF f
  <2>4. /\ stack' \in Seq(Frame) /\ Len(stack') = Len(stack)
        /\ \A i \in 1..Len(stack) : stack'[i] = IF i = Len(stack) THEN f ELSE stack[i]
    BY <1>2, <2>1, <2>2, <2>3, ExceptSeq
  <2> QED BY <2>1, <2>3, <2>4 DEF StackOK
<1>8. layout' \in Seq(1..Len(code)) /\ ip' \in 1..Len(code)
  <2>1. layout' = Append(layout, Top.b1) /\ ip' = Top.b1 /\ Top.b1 \in 1..Len(code)
    BY <1>3 DEF EndThen
  <2> QED BY <2>1, AppendProperties DEF WellFormed
<1>9. loops' = loops /\ isInt' = isInt /\ status' = status
  BY DEF EndThen
<1> QED BY <1>4, <1>6, <1>7, <1>8, <1>9 DEF WellFormed

LEMMA EndIfWellFormed ==
  ASSUME WellFormed, EndIf
  PROVE  WellFormed'
<1> USE Lengths
<1>1. stack # << >> /\ Top.phase = "else"
  BY DEF EndIf
<1>2. FrameOK(Top, Len(code)) /\ Top \in Frame
  BY <1>1, TopFrame
<1>3. Top.b2 \in 2..Len(code) /\ Top.at \in Nat
  BY <1>1, <1>2 DEF FrameOK, Frame
<1>4. CodeOK(code') /\ Len(code') = Len(code)
  <2>1. \E tail : code' = BrUnlessBranch(code, Top.b2, tail)
    BY DEF EndIf
  <2> QED BY <1>3, <2>1, JoinBranches
<1>5. src' \in Seq(Token_)
  <2>1. Token("endif", Top.at) \in Token_
    BY <1>3 DEF Token, Token_
  <2> QED BY <2>1, TokensAppend DEF EndIf
<1>6. stack' \in Seq(Frame) /\ StackOK(stack', Len(code))
  BY <1>1, PopReturnKeepsStack DEF EndIf
<1>7. layout' \in Seq(1..Len(code)) /\ ip' \in 1..Len(code)
  <2>1. layout' = Append(layout, Top.b2) /\ ip' = Top.b2 /\ Top.b2 \in 1..Len(code)
    BY <1>3 DEF EndIf
  <2> QED BY <2>1, AppendProperties DEF WellFormed
<1>8. loops' = loops /\ isInt' = isInt /\ status' = status
  BY DEF EndIf
<1> QED BY <1>4, <1>5, <1>6, <1>7, <1>8 DEF WellFormed

LEMMA EndWhileWellFormed ==
  ASSUME WellFormed, EndWhile
  PROVE  WellFormed'
<1> USE Lengths
<1>1. stack # << >> /\ Top.phase = "body"
  BY DEF EndWhile
<1>2. FrameOK(Top, Len(code)) /\ Top \in Frame
  BY <1>1, TopFrame
<1>3. Top.b1 \in 2..Len(code) /\ Top.b2 \in 2..Len(code) /\ Top.at \in Nat
  BY <1>1, <1>2 DEF FrameOK, Frame
<1>4. CodeOK(code') /\ Len(code') = Len(code)
  <2>1. \E tail : code' = BrUnlessBranch(code, Top.b1, tail)
    BY DEF EndWhile
  <2> QED BY <1>3, <2>1, JoinBranches
<1>5. src' \in Seq(Token_)
  <2>1. Token("endwhile", Top.at) \in Token_
    BY <1>3 DEF Token, Token_
  <2> QED BY <2>1, TokensAppend DEF EndWhile
<1>6. stack' \in Seq(Frame) /\ StackOK(stack', Len(code))
  BY <1>1, PopReturnKeepsStack DEF EndWhile
<1>7. layout' \in Seq(1..Len(code)) /\ ip' \in 1..Len(code)
  <2>1. layout' = Append(layout, Top.b2) /\ ip' = Top.b2 /\ Top.b2 \in 1..Len(code)
    BY <1>3 DEF EndWhile
  <2> QED BY <2>1, AppendProperties DEF WellFormed
<1>8. loops' \in Seq((2..Len(code)) \X (2..Len(code)))
  <2>1. loops \in Seq((2..Len(code)) \X (2..Len(code))) /\ loops' = SubSeq(loops, 1, Len(loops) - 1)
    BY DEF EndWhile, LeaveLoop, WellFormed
  <2>2. CASE loops # << >>
    BY <2>1, <2>2, Prefix
  <2>3. CASE loops = << >>
    <3>1. loops' = << >>
      BY <2>1, <2>3, SubSeqEmpty
    <3> QED BY <3>1, EmptySeq
  <2> QED BY <2>2, <2>3
<1>9. isInt' = isInt /\ status' = status
  BY DEF EndWhile
<1> QED BY <1>4, <1>5, <1>6, <1>7, <1>8, <1>9 DEF WellFormed

LEMMA EndFuncWellFormed ==
  ASSUME WellFormed, EndFunc
  PROVE  WellFormed'
<1>1. CodeOK(code') /\ Len(code') = Len(code)
  <2>1. code' = code \/ code' = Emit(code, ip, Ret(0))
    BY DEF EndFunc, RetUnlessRet
  <2>2. InstrOK(Ret(0), Len(code))
    BY Lengths, Instructions
  <2> QED BY <2>1, <2>2, EmitAppends DEF WellFormed
<1> QED BY <1>1 DEF EndFunc, RetUnlessRet, WellFormed

LEMMA NextWellFormed == WellFormed /\ [Next]_vars => WellFormed'
<1> SUFFICES ASSUME WellFormed, [Next]_vars PROVE WellFormed'
  OBVIOUS
<1>1. CASE UNCHANGED vars
  BY <1>1 DEF vars, WellFormed
<1>2. CASE Step
  BY <1>2, SimpleStatementsWellFormed, BlocksWellFormed, BeginIfWellFormed,
     EndThenWellFormed, EndIfWellFormed, BeginWhileWellFormed, EndWhileWellFormed,
     EndFuncWellFormed DEF Step
<1>3. CASE Finished
  BY <1>1, <1>3 DEF Finished
<1> QED BY <1>1, <1>2, <1>3 DEF Next

THEOREM SpecWellFormed == Spec => []WellFormed
BY InitWellFormed, NextWellFormed, PTL DEF Spec

-----------------------------------------------------------------------------
(* What follows at once *)

\* The variables of the generator have the types of their C++ counterparts.
THEOREM TypeCorrect == Spec => []TypeOK
<1>1. WellFormed => TypeOK
  <2> SUFFICES ASSUME WellFormed PROVE TypeOK
    OBVIOUS
  <2>1. Len(code) \in Nat \ {0}
    BY Lengths
  <2>2. 1..Len(code) \subseteq Block /\ (2..Len(code)) \X (2..Len(code)) \subseteq Block \X Block
    BY <2>1 DEF Block
  <2>3. layout \in Seq(Block) /\ loops \in Seq(Block \X Block)
    BY <2>2, SeqMonotonic, ZenonT(60) DEF WellFormed
  <2> QED BY <2>2, <2>3 DEF WellFormed, CodeOK, TypeOK
<1> QED BY <1>1, SpecWellFormed, PTL

\* Branches, in the code and those break and continue would create, lead to
\* blocks that exist and never to the entry block, in a function of any size.
THEOREM TargetsExist == Spec => []TargetsCreated
<1>1. WellFormed => TargetsCreated
  <2> SUFFICES ASSUME WellFormed PROVE TargetsCreated
    OBVIOUS
  <2>1. \A b \in 2..Len(code) : b \in Created \ {Entry}
    BY DEF Created, Entry
  <2>2. \A b \in Created : \A k \in 1..Len(code[b]) :
          \A t \in 1..Len(code[b][k].to) : code[b][k].to[t] \in Created \ {Entry}
    BY <2>1 DEF WellFormed, CodeOK, InstrOK, Created
  <2>3. \A i \in 1..Len(loops) : \A t \in 1..2 : loops[i][t] \in Created \ {Entry}
    <3> TAKE i \in 1..Len(loops)
    <3>1. loops[i] \in (2..Len(code)) \X (2..Len(code))
      BY ElementOfSeq DEF WellFormed
    <3> QED BY <2>1, <3>1
  <2> QED BY <2>2, <2>3 DEF TargetsCreated
<1> QED BY <1>1, SpecWellFormed, PTL

-----------------------------------------------------------------------------
(* What the handlers of if and while do to the blocks *)

LEMMA BeginIfBlocks ==
  ASSUME WellFormed, BeginIf, NEW n \in Nat, n = Len(code)
  PROVE  /\ Len(code') = n + 3
         /\ \A b \in 1..n : b # ip => code'[b] = code[b]
         /\ code'[ip] = Append(code[ip], CondBr(Here, n + 1, n + 2))
         /\ \A b \in (n + 1)..(n + 3) : code'[b] = << >>
         /\ stack' = Append(stack, IfFrame(Here, n + 2, n + 3))
         /\ layout' = Append(layout, n + 1) /\ ip' = n + 1
<1> DEFINE c == Create(code, 3)
<1>1. /\ c \in Seq(Seq(Instr)) /\ Len(c) = n + 3
      /\ \A b \in 1..n : c[b] = code[b]
      /\ \A b \in (n + 1)..(n + 3) : c[b] = << >>
  BY CreateThree DEF WellFormed, CodeOK
<1>2. /\ code' = Emit(c, ip, CondBr(Here, n + 1, n + 2))
      /\ stack' = Append(stack, IfFrame(Here, n + 2, n + 3))
      /\ layout' = Append(layout, n + 1) /\ ip' = n + 1
  BY DEF BeginIf
<1>3. ip \in 1..n /\ ip \in 1..(n + 3) /\ ip \notin (n + 1)..(n + 3)
  BY DEF WellFormed
<1> HIDE DEF c
<1>4. /\ Len(code') = n + 3 /\ \A b \in 1..(n + 3) : b # ip => code'[b] = c[b]
      /\ code'[ip] = Append(c[ip], CondBr(Here, n + 1, n + 2))
  BY <1>1, <1>2, <1>3 DEF Emit
<1>5. \A b \in 1..n : b # ip => code'[b] = code[b]
  <2>1. \A b \in 1..n : b \in 1..(n + 3)
    OBVIOUS
  <2> QED BY <1>1, <1>4, <2>1
<1>6. \A b \in (n + 1)..(n + 3) : code'[b] = << >>
  BY <1>1, <1>3, <1>4
<1>7. code'[ip] = Append(code[ip], CondBr(Here, n + 1, n + 2))
  BY <1>1, <1>3, <1>4
<1> QED BY <1>2, <1>4, <1>5, <1>6, <1>7

LEMMA BeginWhileBlocks ==
  ASSUME WellFormed, BeginWhile, NEW n \in Nat, n = Len(code)
  PROVE  /\ Len(code') = n + 3
         /\ \A b \in 1..n : b # ip => code'[b] = code[b]
         /\ code'[ip] = Append(code[ip], Br(0, n + 1))
         /\ code'[n + 1] = Append(<< >>, CondBr(Here, n + 2, n + 3))
         /\ code'[n + 2] = << >> /\ code'[n + 3] = << >>
         /\ stack' = Append(stack, WhileFrame(Here, n + 1, n + 3))
         /\ layout' = layout \o <<n + 1, n + 2>> /\ ip' = n + 2
<1> DEFINE c == Create(code, 3)
           jump == Emit(c, ip, Br(0, n + 1))
<1>1. /\ c \in Seq(Seq(Instr)) /\ Len(c) = n + 3
      /\ \A b \in 1..n : c[b] = code[b]
      /\ \A b \in (n + 1)..(n + 3) : c[b] = << >>
  BY CreateThree DEF WellFormed, CodeOK
<1>2. /\ code' = Emit(jump, n + 1, CondBr(Here, n + 2, n + 3))
      /\ stack' = Append(stack, WhileFrame(Here, n + 1, n + 3))
      /\ layout' = layout \o <<n + 1, n + 2>> /\ ip' = n + 2
  BY DEF BeginWhile
<1>3. ip \in 1..n /\ ip \in 1..(n + 3) /\ ip \notin (n + 1)..(n + 3)
  BY DEF WellFormed
<1> HIDE DEF c
<1>4. /\ DOMAIN jump = 1..(n + 3) /\ Len(jump) = n + 3
      /\ \A b \in 1..(n + 3) : b # ip => jump[b] = c[b]
      /\ jump[ip] = Append(c[ip], Br(0, n + 1))
  BY <1>1, <1>3 DEF Emit
<1> HIDE DEF jump
<1>5. n + 1 \in 1..(n + 3) /\ n + 2 \in 1..(n + 3) /\ n + 3 \in 1..(n + 3)
  OBVIOUS
<1>6. /\ Len(code') = n + 3 /\ \A b \in 1..(n + 3) : b # n + 1 => code'[b] = jump[b]
      /\ code'[n + 1] = Append(jump[n + 1], CondBr(Here, n + 2, n + 3))
  BY <1>2, <1>4, <1>5 DEF Emit
<1>7. \A b \in 1..n : b # n + 1 /\ b \in 1..(n + 3)
  OBVIOUS
<1>8. \A b \in 1..n : b # ip => code'[b] = code[b]
  BY <1>1, <1>4, <1>6, <1>7
<1>9. code'[ip] = Append(code[ip], Br(0, n + 1))
  BY <1>1, <1>3, <1>4, <1>6, <1>7
<1>10. code'[n + 1] = Append(<< >>, CondBr(Here, n + 2, n + 3))
  <2>1. n + 1 \in (n + 1)..(n + 3) /\ n + 1 # ip
    BY <1>3
  <2>2. jump[n + 1] = << >>
    BY <1>1, <1>4, <1>5, <2>1
  <2> QED BY <1>6, <2>2
<1>11. code'[n + 2] = << >> /\ code'[n + 3] = << >>
  <2>1. n + 2 # n + 1 /\ n + 3 # n + 1 /\ n + 2 # ip /\ n + 3 # ip
    BY <1>3
  <2>2. n + 2 \in (n + 1)..(n + 3) /\ n + 3 \in (n + 1)..(n + 3)
    OBVIOUS
  <2> QED BY <1>1, <1>4, <1>5, <1>6, <2>1, <2>2
<1> QED BY <1>2, <1>6, <1>8, <1>9, <1>10, <1>11

-----------------------------------------------------------------------------
(* Ownership of blocks *)

Elems(s) == {s[i] : i \in 1..Len(s)}
Injective(s) == \A i, j \in 1..Len(s) : s[i] = s[j] => i = j
Held(stk, b) == \E i \in 1..Len(stk) : b \in Pending(stk[i])

\* Each of the blocks of c is in lay, once, or held by one frame of stk, empty.
Owned(c, lay, stk) ==
  /\ \A b \in 1..Len(c) : b \in Elems(lay) \/ Held(stk, b)
  /\ \A b \in Elems(lay) : b \in 1..Len(c) /\ ~Held(stk, b)
  /\ Injective(lay)
  /\ \A i \in 1..Len(stk) : \A b \in Pending(stk[i]) :
       /\ b \in 1..Len(c) /\ c[b] = << >>
       /\ \A j \in 1..Len(stk) : b \in Pending(stk[j]) => i = j

LEMMA OwnedIsBlocksOwnedOnce == Owned(code, layout, stack) => BlocksOwnedOnce
<1> SUFFICES ASSUME Owned(code, layout, stack) PROVE BlocksOwnedOnce
  OBVIOUS
<1>1. Inserted = Elems(layout)
  BY DEF Inserted, Elems
<1>2. \A b : Held(stack, b) <=> b \in UNION {Pending(stack[i]) : i \in 1..Len(stack)}
  BY DEF Held
<1>3. Created = Inserted \cup UNION {Pending(stack[i]) : i \in 1..Len(stack)}
  <2>1. \A b : b \in Created <=> b \in Inserted \/ Held(stack, b)
    BY <1>1 DEF Owned, Created, Held
  <2> QED BY <1>2, <2>1
<1>4. \A i \in 1..Len(stack) : Pending(stack[i]) \cap Inserted = {}
  BY <1>1 DEF Owned, Held
<1>5. \A i, j \in 1..Len(stack) : i # j => Pending(stack[i]) \cap Pending(stack[j]) = {}
  BY DEF Owned
<1>6. /\ \A i, j \in 1..Len(layout) : layout[i] = layout[j] => i = j
      /\ \A i \in 1..Len(stack) : \A b \in Pending(stack[i]) : code[b] = << >>
  BY DEF Owned, Injective
<1> QED BY <1>3, <1>4, <1>5, <1>6 DEF BlocksOwnedOnce

LEMMA AppendElems ==
  ASSUME NEW S, NEW s \in Seq(S), NEW e \in S
  PROVE  /\ Elems(Append(s, e)) = Elems(s) \cup {e}
         /\ Injective(s) /\ e \notin Elems(s) => Injective(Append(s, e))
<1>1. Len(s) \in Nat
  BY LenProperties
<1>2. /\ Len(Append(s, e)) = Len(s) + 1
      /\ \A i \in 1..Len(s) : Append(s, e)[i] = s[i]
      /\ Append(s, e)[Len(s) + 1] = e
  BY AppendProperties
<1>3. \A i : i \in 1..(Len(s) + 1) <=> i \in 1..Len(s) \/ i = Len(s) + 1
  BY <1>1
<1>4. Elems(Append(s, e)) = Elems(s) \cup {e}
  BY <1>2, <1>3 DEF Elems
<1>5. Injective(s) /\ e \notin Elems(s) => Injective(Append(s, e))
  BY <1>2, <1>3 DEF Elems, Injective
<1> QED BY <1>4, <1>5

\* Instructions are only ever added to blocks of the function.
LEMMA OwnedWhenEmitted ==
  ASSUME NEW c, NEW lay, NEW stk, Owned(c, lay, stk), NEW b \in Elems(lay),
         NEW e, Len(e) = Len(c), \A d \in 1..Len(c) : d # b => e[d] = c[d]
  PROVE  Owned(e, lay, stk)
BY ZenonT(60) DEF Owned, Held

LEMMA OwnedWhenReturned ==
  ASSUME NEW c, NEW lay, NEW stk \in Seq(Frame), Owned(c, lay, stk)
  PROVE  Owned(c, lay, Return(stk))
<1> DEFINE r == Return(stk)
<1>1. Len(r) = Len(stk) /\ \A i \in 1..Len(stk) : Pending(r[i]) = Pending(stk[i])
  BY ReturnMarks DEF Pending
<1> HIDE DEF r
<1>2. Owned(c, lay, r)
  BY <1>1 DEF Owned, Held
<1> QED BY <1>2 DEF r

\* The frame popped hands over the block it inserts, if it holds one.
LEMMA OwnedWhenPopped ==
  ASSUME NEW c, NEW S, NEW lay \in Seq(S), NEW b \in S,
         stack \in Seq(Frame), stack # << >>, Owned(c, lay, stack)
  PROVE  /\ Pending(Top) = {} => Owned(c, lay, Pop)
         /\ Pending(Top) = {b} => Owned(c, Append(lay, b), Pop)
<1> DEFINE n == Len(stack)
           p == Pop
<1>1. /\ n \in Nat \ {0} /\ Len(p) = n - 1
      /\ \A i \in 1..(n - 1) : p[i] = stack[i]
  BY PopRemoves
<1>2. Top = stack[n] /\ \A i : i \in 1..n <=> i \in 1..(n - 1) \/ i = n
  BY <1>1 DEF Top
<1>3. \A i \in 1..(n - 1) : i \in 1..n /\ i # n
  BY <1>1
<1> HIDE DEF n, p
<1>4. \A d : Held(stack, d) <=> Held(p, d) \/ d \in Pending(Top)
  BY <1>1, <1>2 DEF Held, n
<1>5. \A i \in 1..Len(p) : \A d \in Pending(p[i]) :
        /\ d \in 1..Len(c) /\ c[d] = << >> /\ d \notin Pending(Top)
        /\ \A j \in 1..Len(p) : d \in Pending(p[j]) => i = j
  BY <1>1, <1>2, <1>3 DEF Owned, n
<1>6. CASE Pending(Top) = {}
  BY <1>4, <1>5, <1>6 DEF Owned, p
<1>7. CASE Pending(Top) = {b}
  <2>1. b \in 1..Len(c) /\ b \notin Elems(lay) /\ ~Held(p, b)
    <3>1. Held(stack, b)
      BY <1>4, <1>7
    <3>2. b \in 1..Len(c) /\ b \notin Elems(lay)
      BY <3>1 DEF Owned, Held
    <3> QED BY <1>5, <1>7, <3>2 DEF Held
  <2>2. Elems(Append(lay, b)) = Elems(lay) \cup {b} /\ Injective(Append(lay, b))
    BY <2>1, AppendElems DEF Owned
  <2> QED BY <1>4, <1>5, <1>7, <2>1, <2>2 DEF Owned, p
<1> QED BY <1>6, <1>7

\* codeGenIfStmt inserts its else block and goes on holding the merge block.
LEMMA OwnedWhenInserted ==
  ASSUME NEW c, NEW S, NEW lay \in Seq(S), NEW b \in S, NEW n,
         NEW stk, NEW top, n \in 1..Len(stk), Len(top) = Len(stk),
         \A i \in 1..Len(stk) : i # n => top[i] = stk[i],
         b \in Pending(stk[n]), Pending(top[n]) = Pending(stk[n]) \ {b},
         Owned(c, lay, stk)
  PROVE  Owned(c, Append(lay, b), top)
<1>1. b \in 1..Len(c) /\ b \notin Elems(lay)
  BY DEF Owned, Held
<1>2. Elems(Append(lay, b)) = Elems(lay) \cup {b} /\ Injective(Append(lay, b))
  BY <1>1, AppendElems DEF Owned
<1>3. \A d : Held(top, d) <=> Held(stk, d) /\ d # b
  <2> TAKE d
  <2>1. \A i \in 1..Len(stk) : d \in Pending(top[i]) => d \in Pending(stk[i])
    OBVIOUS
  <2>2. \A i \in 1..Len(stk) : d \in Pending(stk[i]) /\ d # b => d \in Pending(top[i])
    OBVIOUS
  <2>3. \A i \in 1..Len(stk) : b \notin Pending(top[i])
    BY DEF Owned
  <2> QED BY <2>1, <2>2, <2>3 DEF Held
<1>4. \A i \in 1..Len(top) : Pending(top[i]) \subseteq Pending(stk[i])
  OBVIOUS
<1> QED BY <1>1, <1>2, <1>3, <1>4 DEF Owned

\* A new handler frame holds some of the new blocks, the others are inserted.
LEMMA OwnedWhenPushed ==
  ASSUME NEW c, NEW lay, NEW stk \in Seq(Frame), Owned(c, lay, stk), NEW b \in Elems(lay),
         NEW fresh, \A d \in fresh : d \notin 1..Len(c),
         NEW e, 1..Len(e) = (1..Len(c)) \cup fresh,
         \A d \in 1..Len(c) : d # b => e[d] = c[d],
         NEW f \in Frame, Pending(f) \subseteq fresh,
         \A d \in Pending(f) : e[d] = << >>,
         NEW lay2, Injective(lay2), Elems(lay2) = Elems(lay) \cup (fresh \ Pending(f))
  PROVE  Owned(e, lay2, Append(stk, f))
<1> DEFINE p == Append(stk, f)
           q == Len(stk)
<1>1. /\ q \in Nat /\ Len(p) = q + 1 /\ p[q + 1] = f
      /\ \A i \in 1..q : p[i] = stk[i]
  BY LenProperties, AppendProperties
<1>2. \A i : i \in 1..(q + 1) <=> i \in 1..q \/ i = q + 1
  BY <1>1
<1> HIDE DEF p, q
<1>5. \A d : Held(p, d) <=> Held(stk, d) \/ d \in Pending(f)
  BY <1>1, <1>2 DEF Held, q
<1>6. \A d : Held(stk, d) => d \in 1..Len(c) /\ d # b /\ c[d] = << >>
  BY DEF Owned, Held
<1>7. \A d \in 1..Len(e) : d \in Elems(lay2) \/ Held(p, d)
  BY <1>5 DEF Owned
<1>8. \A d \in Elems(lay2) : d \in 1..Len(e) /\ ~Held(p, d)
  BY <1>5, <1>6 DEF Owned
<1>9. \A i \in 1..Len(p) : \A d \in Pending(p[i]) :
        /\ d \in 1..Len(e) /\ e[d] = << >>
        /\ \A j \in 1..Len(p) : d \in Pending(p[j]) => i = j
  <2> TAKE i \in 1..Len(p)
  <2> TAKE d \in Pending(p[i])
  <2>1. CASE i \in 1..q
    <3>1. d \in Pending(stk[i]) /\ Held(stk, d)
      BY <1>1, <2>1 DEF Held, q
    <3>2. d \in 1..Len(c) /\ e[d] = << >> /\ d \notin Pending(f)
      BY <1>6, <3>1
    <3> QED BY <1>1, <1>2, <2>1, <3>1, <3>2 DEF Owned, q
  <2>2. CASE i = q + 1
    <3>1. d \in Pending(f) /\ ~Held(stk, d)
      BY <1>1, <1>6, <2>2
    <3> QED BY <1>1, <1>2, <2>2, <3>1 DEF Held, q
  <2> QED BY <1>1, <1>2, <2>1, <2>2
<1> QED BY <1>7, <1>8, <1>9 DEF Owned, p

Ownership == WellFormed /\ Owned(code, layout, stack) /\ ip \in Elems(layout)

LEMMA InitOwnership == Init => Ownership
<1> SUFFICES ASSUME Init PROVE Ownership
  OBVIOUS
<1>1. /\ Len(code) = 1 /\ layout = <<1>> /\ Len(layout) = 1 /\ layout[1] = 1 /\ ip = 1
      /\ Len(stack) = 1 /\ stack[1] = BlockFrame(1)
  BY DEF Init, Entry
<1>2. Pending(stack[1]) = {}
  BY <1>1 DEF Pending, BlockFrame
<1>3. 1..1 = {1}
  OBVIOUS
<1>4. Elems(layout) = {1} /\ Injective(layout) /\ \A b : ~Held(stack, b)
  BY <1>1, <1>2, <1>3 DEF Elems, Injective, Held
<1>5. Owned(code, layout, stack)
  BY <1>1, <1>2, <1>3, <1>4 DEF Owned
<1> QED BY <1>1, <1>4, <1>5, InitWellFormed DEF Ownership

\* Branching to the block that follows keeps every block where it is.
LEMMA OwnedWhenJoined ==
  ASSUME Ownership, NEW b \in 2..Len(code), NEW tail
  PROVE  Owned(BrUnlessBranch(code, b, tail), layout, stack)
BY JoinBranches, OwnedWhenEmitted DEF Ownership

LEMMA SimpleStatementsOwnership ==
  ASSUME Ownership,
         ExprStmt \/ EmptyStmt \/ ReturnStmt \/ ContinueStmt \/ BreakStmt \/ EndFunc
  PROVE  Owned(code', layout', stack') /\ ip' \in Elems(layout')
<1>1. layout' = layout /\ ip' = ip /\ (stack' = stack \/ stack' = Return(stack))
  BY DEF ExprStmt, EmptyStmt, ReturnStmt, ContinueStmt, BreakStmt, BreakOrContinue, Leaf, EndFunc, RetUnlessRet
<1>2. Len(code') = Len(code) /\ \A d \in 1..Len(code) : d # ip => code'[d] = code[d]
  <2>1. code' = code \/ \E i : code' = Emit(code, ip, i)
    BY DEF ExprStmt, EmptyStmt, ReturnStmt, ContinueStmt, BreakStmt, BreakOrContinue, EndFunc, RetUnlessRet
  <2>2. CASE code' = code
    BY <2>2
  <2>3. CASE \E i : code' = Emit(code, ip, i)
    <3>1. PICK i : code' = [code EXCEPT ![ip] = Append(@, i)]
      BY <2>3 DEF Emit
    <3>2. code \in Seq(Seq(Instr))
      BY DEF Ownership, WellFormed, CodeOK
    <3> QED BY <3>1, <3>2
  <2> QED BY <2>1, <2>2, <2>3
<1>3. Owned(code', layout, stack)
  BY <1>2, OwnedWhenEmitted DEF Ownership
<1> QED BY <1>1, <1>3, OwnedWhenReturned DEF Ownership, WellFormed

LEMMA BlocksOwnership ==
  ASSUME Ownership, OpenBlock \/ CloseBlock
  PROVE  Owned(code', layout', stack') /\ ip' \in Elems(layout')
<1> USE DEF Ownership
<1>1. CASE OpenBlock
  <2>1. stack' = Append(stack, BlockFrame(Here)) /\ code' = code /\ layout' = layout /\ ip' = ip
    BY <1>1 DEF OpenBlock
  <2>2. BlockFrame(Here) \in Frame /\ Pending(BlockFrame(Here)) = {}
    BY Lengths DEF BlockFrame, Frame, NoBlock, Pending
  <2>3. /\ \A d \in {} : d \notin 1..Len(code)
        /\ 1..Len(code) = (1..Len(code)) \cup {}
        /\ Elems(layout) = Elems(layout) \cup ({} \ Pending(BlockFrame(Here)))
    OBVIOUS
  <2>6. Injective(layout) /\ stack \in Seq(Frame)
    BY DEF Owned, WellFormed
  <2>7. Owned(code, layout, Append(stack, BlockFrame(Here)))
    BY <2>2, <2>3, <2>6, OwnedWhenPushed
  <2> QED BY <2>1, <2>7
<1>2. CASE CloseBlock
  <2>1. /\ stack # << >> /\ Top.kind = "block" /\ stack' = Return(Pop)
        /\ code' = code /\ layout' = layout /\ ip' = ip
    BY <1>2 DEF CloseBlock, AwaitsStmt
  <2>2. Pending(Top) = {}
    BY <2>1 DEF Pending
  <2>3. layout \in Seq(1..Len(code)) /\ ip \in 1..Len(code) /\ stack \in Seq(Frame)
    BY DEF WellFormed
  <2>4. Owned(code, layout, Pop) /\ Pop \in Seq(Frame)
    BY <2>1, <2>2, <2>3, OwnedWhenPopped, PopRemoves
  <2> QED BY <2>1, <2>4, OwnedWhenReturned
<1> QED BY <1>1, <1>2

LEMMA BeginIfOwnership ==
  ASSUME Ownership, BeginIf
  PROVE  Owned(code', layout', stack') /\ ip' \in Elems(layout')
<1> USE DEF Ownership
<1>1. PICK n \in Nat : n = Len(code)
  BY Lengths
<1> DEFINE f == IfFrame(Here, n + 2, n + 3)
<1>2. f \in Frame /\ Pending(f) = {n + 2, n + 3}
  BY Lengths DEF IfFrame, Frame, Pending
<1> HIDE DEF f
<1>3. /\ Len(code') = n + 3
      /\ \A b \in 1..n : b # ip => code'[b] = code[b]
      /\ \A b \in (n + 1)..(n + 3) : code'[b] = << >>
      /\ stack' = Append(stack, f)
      /\ layout' = Append(layout, n + 1) /\ ip' = n + 1
  BY <1>1, BeginIfBlocks DEF f
<1> DEFINE fresh == {n + 1, n + 2, n + 3}
<1>4. \A d \in fresh : d \notin 1..Len(code)
  BY <1>1
<1>5. 1..Len(code') = (1..Len(code)) \cup fresh
  <2>1. 1..(n + 3) = (1..n) \cup fresh
    OBVIOUS
  <2> QED BY <1>1, <1>3, <2>1
<1>6. Pending(f) \subseteq fresh /\ fresh \ Pending(f) = {n + 1}
  BY <1>2
<1>7. \A b \in Pending(f) : code'[b] = << >>
  BY <1>2, <1>3
<1>8. Elems(layout') = Elems(layout) \cup {n + 1} /\ Injective(layout')
  <2>1. n + 1 \notin Elems(layout) /\ Injective(layout)
    BY <1>1 DEF Owned
  <2>2. layout \in Seq(Nat) /\ n + 1 \in Nat
    <3>1. 1..Len(code) \subseteq Nat
      OBVIOUS
    <3> QED BY <3>1, SeqMonotonic DEF WellFormed
  <2> QED BY <1>3, <2>1, <2>2, AppendElems
<1>9. stack \in Seq(Frame)
  BY DEF WellFormed
<1> HIDE DEF fresh
<1>10. /\ \A d \in 1..Len(code) : d # ip => code'[d] = code[d]
       /\ Elems(layout') = Elems(layout) \cup (fresh \ Pending(f))
  BY <1>1, <1>3, <1>6, <1>8
<1>11. Owned(code', layout', Append(stack, f))
  BY <1>2, <1>4, <1>5, <1>6, <1>7, <1>8, <1>9, <1>10, OwnedWhenPushed
<1> QED BY <1>3, <1>8, <1>11

LEMMA BeginWhileOwnership ==
  ASSUME Ownership, BeginWhile
  PROVE  Owned(code', layout', stack') /\ ip' \in Elems(layout')
<1> USE DEF Ownership
<1>1. PICK n \in Nat : n = Len(code)
  BY Lengths
<1> DEFINE f == WhileFrame(Here, n + 1, n + 3)
<1>2. f \in Frame /\ Pending(f) = {n + 3}
  BY Lengths DEF WhileFrame, Frame, Pending
<1> HIDE DEF f
<1>3. /\ Len(code') = n + 3
      /\ \A b \in 1..n : b # ip => code'[b] = code[b]
      /\ code'[n + 3] = << >>
      /\ stack' = Append(stack, f)
      /\ layout' = layout \o <<n + 1, n + 2>> /\ ip' = n + 2
  BY <1>1, BeginWhileBlocks DEF f
<1> DEFINE fresh == {n + 1, n + 2, n + 3}
<1>4. \A d \in fresh : d \notin 1..Len(code)
  BY <1>1
<1>5. 1..Len(code') = (1..Len(code)) \cup fresh
  <2>1. 1..(n + 3) = (1..n) \cup fresh
    OBVIOUS
  <2> QED BY <1>1, <1>3, <2>1
<1>6. Pending(f) \subseteq fresh /\ fresh \ Pending(f) = {n + 1, n + 2}
  BY <1>2
<1>7. \A b \in Pending(f) : code'[b] = << >>
  BY <1>2, <1>3
<1>8. Elems(layout') = Elems(layout) \cup {n + 1, n + 2} /\ Injective(layout')
  <2>1. n + 1 \notin Elems(layout) /\ n + 2 \notin Elems(layout) /\ Injective(layout)
    BY <1>1 DEF Owned
  <2>2. layout \in Seq(Nat) /\ n + 1 \in Nat /\ n + 2 \in Nat
    <3>1. 1..Len(code) \subseteq Nat
      OBVIOUS
    <3> QED BY <3>1, SeqMonotonic DEF WellFormed
  <2>3. layout' = Append(Append(layout, n + 1), n + 2)
    BY <1>3, <2>2
  <2>4. /\ Append(layout, n + 1) \in Seq(Nat)
        /\ Elems(Append(layout, n + 1)) = Elems(layout) \cup {n + 1}
        /\ Injective(Append(layout, n + 1))
    BY <2>1, <2>2, AppendElems, AppendProperties
  <2>5. PICK half : half = Append(layout, n + 1)
    OBVIOUS
  <2>6. half \in Seq(Nat) /\ n + 2 \notin Elems(half) /\ Injective(half)
    BY <2>1, <2>4, <2>5
  <2>7. Elems(Append(half, n + 2)) = Elems(half) \cup {n + 2} /\ Injective(Append(half, n + 2))
    BY ONLY <2>2, <2>6, AppendElems
  <2> QED BY <2>3, <2>4, <2>5, <2>7
<1>9. stack \in Seq(Frame)
  BY DEF WellFormed
<1> HIDE DEF fresh
<1>10. /\ \A d \in 1..Len(code) : d # ip => code'[d] = code[d]
       /\ Elems(layout') = Elems(layout) \cup (fresh \ Pending(f))
  BY <1>1, <1>3, <1>6, <1>8
<1>11. Owned(code', layout', Append(stack, f))
  BY <1>2, <1>4, <1>5, <1>6, <1>7, <1>8, <1>9, <1>10, OwnedWhenPushed
<1> QED BY <1>3, <1>8, <1>11

LEMMA EndThenOwnership ==
  ASSUME Ownership, EndThen
  PROVE  Owned(code', layout', stack') /\ ip' \in Elems(layout')
<1> USE DEF Ownership
<1>1. /\ stack # << >> /\ FrameOK(Top, Len(code)) /\ Top \in Frame /\ Top.phase = "then"
      /\ Top = stack[Len(stack)] /\ Len(stack) \in 1..Len(stack)
  BY TopFrame DEF EndThen
<1>2. Top.kind = "if" /\ Top.b1 \in 2..Len(code) /\ Top.b2 \in 2..Len(code) /\ Top.b1 # Top.b2
  BY <1>1 DEF FrameOK, Frame
<1>3. PICK hasElse \in BOOLEAN :
        /\ \E tail : code' = BrUnlessBranch(code, Top.b2, tail)
        /\ stack' = [stack EXCEPT ![Len(stack)].phase = "else", ![Len(stack)].done = ~hasElse]
        /\ layout' = Append(layout, Top.b1) /\ ip' = Top.b1
  BY DEF EndThen
<1> DEFINE f == [Top EXCEPT !.phase = "else", !.done = ~hasElse]
<1>4. Pending(Top) = {Top.b1, Top.b2} /\ Pending(f) = {Top.b2}
  BY <1>1, <1>2 DEF Pending, Frame
<1>5. stack' = [stack EXCEPT ![Len(stack)] = f]
  BY <1>1, <1>3
<1>6. Owned(code', layout, stack)
  BY <1>2, <1>3, OwnedWhenJoined
<1>7. /\ Len(stack') = Len(stack) /\ stack'[Len(stack)] = f
      /\ \A i \in 1..Len(stack) : i # Len(stack) => stack'[i] = stack[i]
  <2> HIDE DEF f
  <2>1. stack \in Seq(Frame)
    BY DEF WellFormed
  <2> QED BY <1>1, <1>5, <2>1
<1>8. layout \in Seq(1..Len(code)) /\ Top.b1 \in 1..Len(code)
  BY <1>2 DEF WellFormed
<1>9. Top.b1 \in Pending(stack[Len(stack)]) /\ Pending(stack'[Len(stack)]) = Pending(stack[Len(stack)]) \ {Top.b1}
  BY <1>1, <1>2, <1>4, <1>7
<1>10. Owned(code', Append(layout, Top.b1), stack')
  <2> HIDE DEF f
  <2> QED BY <1>1, <1>6, <1>7, <1>8, <1>9, OwnedWhenInserted
<1>11. Top.b1 \in Elems(Append(layout, Top.b1))
  BY <1>8, AppendElems
<1> QED BY <1>3, <1>10, <1>11

LEMMA EndIfWhileOwnership ==
  ASSUME Ownership, EndIf \/ EndWhile
  PROVE  Owned(code', layout', stack') /\ ip' \in Elems(layout')
<1> USE DEF Ownership
<1>1. /\ stack # << >> /\ FrameOK(Top, Len(code)) /\ Top \in Frame
      /\ Top.phase = "else" \/ Top.phase = "body"
  BY TopFrame DEF EndIf, EndWhile
<1>2. Top.b1 \in 2..Len(code) /\ Top.b2 \in 2..Len(code) /\ Pending(Top) = {Top.b2}
  BY <1>1 DEF FrameOK, Pending, Frame
<1>3. \E b \in {Top.b1, Top.b2} : \E tail : code' = BrUnlessBranch(code, b, tail)
  BY DEF EndIf, EndWhile
<1>4. layout' = Append(layout, Top.b2) /\ ip' = Top.b2 /\ stack' = Return(Pop)
  BY DEF EndIf, EndWhile
<1>5. Owned(code', layout, stack)
  BY <1>2, <1>3, OwnedWhenJoined
<1>6. layout \in Seq(1..Len(code)) /\ Top.b2 \in 1..Len(code) /\ stack \in Seq(Frame)
  BY <1>2 DEF WellFormed
<1>7. Owned(code', Append(layout, Top.b2), Pop) /\ Pop \in Seq(Frame)
  BY <1>1, <1>2, <1>5, <1>6, OwnedWhenPopped, PopRemoves
<1>8. Top.b2 \in Elems(Append(layout, Top.b2))
  BY <1>6, AppendElems
<1> QED BY <1>4, <1>7, <1>8, OwnedWhenReturned

LEMMA NextOwnership == Ownership /\ [Next]_vars => Ownership'
<1> SUFFICES ASSUME Ownership, [Next]_vars PROVE Ownership'
  OBVIOUS
<1>1. WellFormed'
  BY NextWellFormed DEF Ownership
<1>2. Owned(code', layout', stack') /\ ip' \in Elems(layout')
  <2>1. CASE UNCHANGED vars
    BY <2>1 DEF vars, Ownership
  <2>2. CASE Step
    BY <2>2, SimpleStatementsOwnership, BlocksOwnership, BeginIfOwnership, BeginWhileOwnership,
       EndThenOwnership, EndIfWhileOwnership DEF Step
  <2>3. CASE Finished
    BY <2>1, <2>3 DEF Finished
  <2> QED BY <2>1, <2>2, <2>3 DEF Next
<1> QED BY <1>1, <1>2 DEF Ownership

\* No block the handlers create is ever lost, inserted twice or held by two of
\* them, in a function of any size and whatever back() finds in an empty block.
THEOREM BlocksHaveOneOwner == Spec => []BlocksOwnedOnce
<1>1. Ownership => BlocksOwnedOnce
  BY OwnedIsBlocksOwnedOnce DEF Ownership
<1> QED BY <1>1, InitOwnership, NextOwnership, PTL DEF Spec

-----------------------------------------------------------------------------
(* Where the tail tests find an instruction of the right kind: if back() of an *)
(* empty block is never taken for a branch, no block is left open, and if it is *)
(* not taken for a return either, the function handed on is closed.            *)

Term(s) == s # << >> /\ IsTerminator(s[Len(s)])

SealedBut(c, lay, b) == \A d \in Elems(lay) \ {b} : Term(c[d])

Sealing == Ownership /\ SealedBut(code, layout, ip)

-----------------------------------------------------------------------------
(* Terminators *)

LEMMA AppendTerm ==
  ASSUME NEW s \in Seq(Instr), NEW i \in Instr, IsTerminator(i)
  PROVE  Term(Append(s, i))
<1>1. Len(s) \in Nat /\ Len(Append(s, i)) = Len(s) + 1 /\ Append(s, i)[Len(s) + 1] = i
  BY LenProperties, AppendProperties
<1>2. Append(s, i) # << >>
  BY <1>1
<1> QED BY <1>1, <1>2 DEF Term

LEMMA Branches ==
  ASSUME NEW at \in Nat, NEW n \in Nat, NEW b \in 2..n, NEW d \in 2..n
  PROVE  /\ Br(at, b) \in Instr /\ IsTerminator(Br(at, b))
         /\ CondBr(at, b, d) \in Instr /\ IsTerminator(CondBr(at, b, d))
BY Instructions DEF InstrOK, Br, CondBr, IsTerminator

\* The tail test leaves the insert block with a terminator, whether it finds a
\* branch there or appends one.
LEMMA JoinSeals ==
  ASSUME WellFormed, "br" \notin EmptyTail, NEW b \in 2..Len(code), NEW tail \in TailOps(ip)
  PROVE  Term(BrUnlessBranch(code, b, tail)[ip])
<1>1. ip \in 1..Len(code) /\ code[ip] \in Seq(Instr) /\ Len(code) \in Nat
  BY ElementOfSeq, Lengths DEF WellFormed, CodeOK
<1>2. CASE tail = "br"
  <2>1. code[ip] # << >> /\ code[ip][Len(code[ip])].op = "br"
    BY <1>2 DEF TailOps
  <2>2. BrUnlessBranch(code, b, tail) = code
    BY <1>2 DEF BrUnlessBranch
  <2> QED BY <2>1, <2>2 DEF Term, IsTerminator
<1>3. CASE tail # "br"
  <2>1. BrUnlessBranch(code, b, tail)[ip] = Append(code[ip], Br(0, b))
    BY <1>3, JoinBranches
  <2>2. Br(0, b) \in Instr /\ IsTerminator(Br(0, b))
    BY <1>1, Branches
  <2> QED BY <1>1, <2>1, <2>2, AppendTerm
<1> QED BY <1>2, <1>3

-----------------------------------------------------------------------------
(* Sealing is inductive *)

LEMMA InitSealing == Init => Sealing
<1> SUFFICES ASSUME Init PROVE SealedBut(code, layout, ip)
  BY InitOwnership DEF Sealing
<1>1. layout = <<1>> /\ Len(layout) = 1 /\ layout[1] = 1 /\ ip = 1
  BY DEF Init, Entry
<1>2. Elems(layout) = {1}
  BY <1>1 DEF Elems
<1> QED BY <1>1, <1>2 DEF SealedBut

\* Handlers that do not change the insert block add to it at most.
LEMMA StayingSeals ==
  ASSUME Sealing,
         ExprStmt \/ EmptyStmt \/ ReturnStmt \/ ContinueStmt \/ BreakStmt
           \/ OpenBlock \/ CloseBlock \/ EndFunc
  PROVE  SealedBut(code', layout', ip')
<1>1. layout' = layout /\ ip' = ip
  BY DEF ExprStmt, EmptyStmt, ReturnStmt, ContinueStmt, BreakStmt, BreakOrContinue, Leaf,
         OpenBlock, CloseBlock, EndFunc
<1>2. code' = code \/ \E i : code' = Emit(code, ip, i)
  BY DEF ExprStmt, EmptyStmt, ReturnStmt, ContinueStmt, BreakStmt, BreakOrContinue,
         OpenBlock, CloseBlock, EndFunc, RetUnlessRet
<1>3. \A d \in Elems(layout) : d # ip => code'[d] = code[d]
  <2>1. CASE code' = code
    BY <2>1
  <2>2. CASE \E i : code' = Emit(code, ip, i)
    <3>1. PICK i : code' = [code EXCEPT ![ip] = Append(@, i)]
      BY <2>2 DEF Emit
    <3>2. code \in Seq(Seq(Instr)) /\ \A d \in Elems(layout) : d \in 1..Len(code)
      BY DEF Sealing, Ownership, Owned, WellFormed, CodeOK
    <3> QED BY <3>1, <3>2
  <2> QED BY <1>2, <2>1, <2>2
<1> QED BY <1>1, <1>3 DEF Sealing, SealedBut

LEMMA BeginIfSeals ==
  ASSUME Sealing, BeginIf
  PROVE  SealedBut(code', layout', ip')
<1> USE DEF Sealing, Ownership
<1>1. PICK n \in Nat : n = Len(code)
  BY Lengths
<1>2. /\ \A b \in 1..n : b # ip => code'[b] = code[b]
      /\ code'[ip] = Append(code[ip], CondBr(Here, n + 1, n + 2))
      /\ layout' = Append(layout, n + 1) /\ ip' = n + 1
  BY <1>1, BeginIfBlocks
<1>3. \A d \in Elems(layout) : d # ip => code'[d] = code[d]
  BY <1>1, <1>2 DEF Owned
<1>4. Term(code'[ip])
  <2>1. CondBr(Here, n + 1, n + 2) \in Instr /\ IsTerminator(CondBr(Here, n + 1, n + 2))
    <3>1. Here \in Nat /\ n # 0
      BY <1>1, Lengths
    <3>2. n + 1 \in 2..(n + 3) /\ n + 2 \in 2..(n + 3) /\ n + 3 \in Nat
      BY <3>1
    <3> QED BY <3>1, <3>2, Branches
  <2>2. code[ip] \in Seq(Instr)
    BY ElementOfSeq DEF WellFormed, CodeOK
  <2> QED BY <1>2, <2>1, <2>2, AppendTerm
<1>5. Elems(layout') = Elems(layout) \cup {n + 1}
  <2>1. layout \in Seq(Nat) /\ n + 1 \in Nat
    <3>1. 1..Len(code) \subseteq Nat
      OBVIOUS
    <3> QED BY <3>1, SeqMonotonic DEF WellFormed
  <2> QED BY <1>2, <2>1, AppendElems
<1>6. \A d \in {n + 1} : d # ip' => Term(code'[d])
  BY <1>2
<1>7. ip \in Elems(layout) /\ SealedBut(code, layout, ip)
  OBVIOUS
<1> QED BY ONLY <1>3, <1>4, <1>5, <1>6, <1>7 DEF SealedBut

\* Two elements are appended one after the other.
LEMMA AppendTwo ==
  ASSUME NEW S, NEW s \in Seq(S), NEW a \in S, NEW b \in S
  PROVE  s \o <<a, b>> = Append(Append(s, a), b)
<1>1. /\ s \o <<a, b>> \in Seq(S) /\ Append(s, a) \in Seq(S)
      /\ Append(Append(s, a), b) \in Seq(S)
  OBVIOUS
<1>2. Len(s \o <<a, b>>) = Len(Append(Append(s, a), b))
  OBVIOUS
<1>3. \A i \in 1..Len(s \o <<a, b>>) : (s \o <<a, b>>)[i] = Append(Append(s, a), b)[i]
  OBVIOUS
<1> QED BY <1>1, <1>2, <1>3

LEMMA BeginWhileSeals ==
  ASSUME Sealing, BeginWhile
  PROVE  SealedBut(code', layout', ip')
<1> USE DEF Sealing, Ownership
<1>1. PICK n \in Nat : n = Len(code)
  BY Lengths
<1>2. /\ \A b \in 1..n : b # ip => code'[b] = code[b]
      /\ code'[ip] = Append(code[ip], Br(0, n + 1))
      /\ code'[n + 1] = Append(<< >>, CondBr(Here, n + 2, n + 3))
      /\ layout' = layout \o <<n + 1, n + 2>> /\ ip' = n + 2
  BY <1>1, BeginWhileBlocks
<1>3. \A d \in Elems(layout) : d # ip => code'[d] = code[d]
  BY <1>1, <1>2 DEF Owned
<1>4. /\ Here \in Nat /\ n # 0 /\ n + 3 \in Nat
      /\ n + 1 \in 2..(n + 3) /\ n + 2 \in 2..(n + 3) /\ n + 3 \in 2..(n + 3)
  BY <1>1, Lengths
<1>5. Term(code'[ip])
  <2>1. Br(0, n + 1) \in Instr /\ IsTerminator(Br(0, n + 1))
    BY <1>4, Branches
  <2>2. code[ip] \in Seq(Instr)
    BY ElementOfSeq DEF WellFormed, CodeOK
  <2> QED BY <1>2, <2>1, <2>2, AppendTerm
<1>6. Term(code'[n + 1])
  <2>1. CondBr(Here, n + 2, n + 3) \in Instr /\ IsTerminator(CondBr(Here, n + 2, n + 3))
    BY <1>4, Branches
  <2> QED BY <1>2, <2>1, EmptySeq, AppendTerm
<1>7. Elems(layout') = Elems(layout) \cup {n + 1, n + 2}
  <2>1. layout \in Seq(Nat) /\ n + 1 \in Nat /\ n + 2 \in Nat
    <3>1. 1..Len(code) \subseteq Nat
      OBVIOUS
    <3> QED BY <3>1, SeqMonotonic DEF WellFormed
  <2>2. layout' = Append(Append(layout, n + 1), n + 2)
    <3>1. layout \o <<n + 1, n + 2>> = Append(Append(layout, n + 1), n + 2)
      BY ONLY <2>1, AppendTwo
    <3> QED BY ONLY <1>2, <3>1
  <2>3. PICK half : half = Append(layout, n + 1)
    OBVIOUS
  <2>4. half \in Seq(Nat) /\ Elems(half) = Elems(layout) \cup {n + 1}
    BY <2>1, <2>3, AppendElems, AppendProperties
  <2>5. Elems(Append(half, n + 2)) = Elems(half) \cup {n + 2}
    BY ONLY <2>1, <2>4, AppendElems, SMTT(30)
  <2> QED BY <2>2, <2>3, <2>4, <2>5
<1>8. \A d \in {n + 1, n + 2} : d # ip' => Term(code'[d])
  BY <1>2, <1>6
<1>9. ip \in Elems(layout) /\ SealedBut(code, layout, ip)
  OBVIOUS
<1> QED BY ONLY <1>3, <1>5, <1>7, <1>8, <1>9 DEF SealedBut

LEMMA ClosingSeals ==
  ASSUME Sealing, "br" \notin EmptyTail, EndThen \/ EndIf \/ EndWhile
  PROVE  SealedBut(code', layout', ip')
<1> USE DEF Sealing, Ownership
<1>1. /\ stack # << >> /\ FrameOK(Top, Len(code)) /\ Top \in Frame
      /\ Top.phase = "then" \/ Top.phase = "else" \/ Top.phase = "body"
  BY TopFrame DEF EndThen, EndIf, EndWhile
<1>2. Top.b1 \in 2..Len(code) /\ Top.b2 \in 2..Len(code)
  BY <1>1 DEF FrameOK, Frame
<1>3. PICK b \in {Top.b1, Top.b2}, next \in {Top.b1, Top.b2} :
        /\ \E tail \in TailOps(ip) : code' = BrUnlessBranch(code, b, tail)
        /\ layout' = Append(layout, next) /\ ip' = next
  BY DEF EndThen, EndIf, EndWhile
<1>4. Term(code'[ip])
  BY <1>2, <1>3, JoinSeals
<1>5. \A d \in Elems(layout) : d # ip => code'[d] = code[d]
  <2>1. \A d \in Elems(layout) : d \in 1..Len(code)
    BY DEF Owned
  <2> QED BY <1>2, <1>3, <2>1, JoinBranches
<1>6. Elems(layout') = Elems(layout) \cup {next}
  <2>1. layout \in Seq(1..Len(code)) /\ next \in 1..Len(code)
    BY <1>2 DEF WellFormed
  <2> QED BY <1>3, <2>1, AppendElems
<1>7. \A d \in {next} : d # ip' => Term(code'[d])
  BY <1>3
<1>8. ip \in Elems(layout) /\ SealedBut(code, layout, ip)
  OBVIOUS
<1> QED BY ONLY <1>4, <1>5, <1>6, <1>7, <1>8 DEF SealedBut

LEMMA NextSealing ==
  ASSUME "br" \notin EmptyTail
  PROVE  Sealing /\ [Next]_vars => Sealing'
<1> SUFFICES ASSUME Sealing, [Next]_vars PROVE SealedBut(code', layout', ip')
  BY NextOwnership DEF Sealing
<1>1. CASE UNCHANGED vars
  BY <1>1 DEF vars, Sealing
<1>2. CASE Step
  BY <1>2, StayingSeals, BeginIfSeals, BeginWhileSeals, ClosingSeals DEF Step
<1>3. CASE Finished
  BY <1>1, <1>3 DEF Finished
<1> QED BY <1>1, <1>2, <1>3 DEF Next

\* Whatever breaks, continues and returns a function has, and however it nests,
\* the insert block only ever moves on from a block with a terminator.
THEOREM BlocksAreSealed ==
  ASSUME "br" \notin EmptyTail
  PROVE  Spec => []BlocksSealed
<1>1. Sealing => BlocksSealed
  BY DEF Sealing, SealedBut, BlocksSealed, Inserted, Elems, Terminated, Term
<1>2. Sealing /\ [Next]_vars => Sealing'
  BY NextSealing
<1> QED BY <1>1, <1>2, InitSealing, PTL DEF Spec

-----------------------------------------------------------------------------
(* The emitted function *)

Closing == Sealing /\ (status = "emitted" => stack = << >> /\ Term(code[ip]))

LEMMA NextClosing ==
  ASSUME "br" \notin EmptyTail, "ret" \notin EmptyTail
  PROVE  Closing /\ [Next]_vars => Closing'
<1> SUFFICES ASSUME Closing, [Next]_vars, status' = "emitted"
             PROVE  stack' = << >> /\ Term(code'[ip'])
  BY NextSealing DEF Closing
<1>1. CASE UNCHANGED vars
  BY <1>1 DEF vars, Closing
<1>2. CASE EndFunc
  <2>1. /\ stack' = << >> /\ ip' = ip
        /\ \E tail \in TailOps(ip) : code' = IF tail = "ret" THEN code ELSE Emit(code, ip, Ret(0))
    BY <1>2 DEF EndFunc, RetUnlessRet
  <2>2. PICK tail \in TailOps(ip) : code' = IF tail = "ret" THEN code ELSE Emit(code, ip, Ret(0))
    BY <2>1
  <2>3. ip \in 1..Len(code) /\ CodeOK(code) /\ code[ip] \in Seq(Instr) /\ Len(code) \in Nat
    BY ElementOfSeq, Lengths DEF Closing, Sealing, Ownership, WellFormed, CodeOK
  <2>4. CASE tail = "ret"
    BY <2>1, <2>2, <2>4 DEF TailOps, Term, IsTerminator
  <2>5. CASE tail # "ret"
    <3>1. InstrOK(Ret(0), Len(code)) /\ Ret(0) \in Instr /\ IsTerminator(Ret(0))
      BY <2>3, Instructions DEF InstrOK, Ret, IsTerminator
    <3>2. code'[ip] = Append(code[ip], Ret(0))
      BY <2>2, <2>3, <2>5, <3>1, EmitAppends
    <3> QED BY <2>1, <2>3, <3>1, <3>2, AppendTerm
  <2> QED BY <2>1, <2>4, <2>5
<1>3. CASE Step /\ ~EndFunc
  BY <1>3 DEF Step, ExprStmt, EmptyStmt, ReturnStmt, ContinueStmt, BreakStmt, BreakOrContinue,
              Leaf, AwaitsStmt, OpenBlock, CloseBlock, BeginIf, EndThen, EndIf, BeginWhile, EndWhile
<1>4. CASE Finished
  BY <1>1, <1>4 DEF Finished
<1> QED BY <1>1, <1>2, <1>3, <1>4 DEF Next

\* The function handed on is closed: its blocks are distinct and all of those
\* created, each ends in a terminator, and branches stay inside it.
THEOREM FunctionIsClosed ==
  ASSUME "br" \notin EmptyTail, "ret" \notin EmptyTail
  PROVE  Spec => []EmittedFunctionClosed
<1>1. Closing /\ TargetsCreated => EmittedFunctionClosed
  <2> SUFFICES ASSUME Closing, TargetsCreated, status = "emitted"
               PROVE  /\ Created = Inserted
                      /\ \A i, j \in 1..Len(layout) : layout[i] = layout[j] => i = j
                      /\ \A b \in Inserted : Terminated(b)
                      /\ \A b \in Inserted : \A k \in 1..Len(code[b]) :
                           \A t \in 1..Len(code[b][k].to) : code[b][k].to[t] \in Inserted \ {Entry}
    BY DEF EmittedFunctionClosed
  <2>1. stack = << >> /\ Term(code[ip]) /\ Owned(code, layout, stack)
    BY DEF Closing, Sealing, Ownership
  <2>2. \A b : ~Held(stack, b)
    <3>1. Len(stack) = 0
      BY <2>1
    <3> QED BY <3>1 DEF Held
  <2>3. Inserted = Elems(layout)
    BY DEF Inserted, Elems
  <2>4. Created = Inserted
    BY <2>1, <2>2, <2>3 DEF Owned, Created
  <2>5. \A i, j \in 1..Len(layout) : layout[i] = layout[j] => i = j
    BY <2>1 DEF Owned, Injective
  <2>6. \A b \in Inserted : Terminated(b)
    BY <2>1, <2>3 DEF Closing, Sealing, SealedBut, Term, Terminated
  <2> QED BY <2>4, <2>5, <2>6 DEF TargetsCreated
<1>2. Init => Closing
  BY InitSealing DEF Closing, Init
<1>3. Closing /\ [Next]_vars => Closing'
  BY NextClosing
<1> QED BY <1>1, <1>2, <1>3, TargetsExist, PTL DEF Spec
=============================================================================
