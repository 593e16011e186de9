--------------------------- MODULE StatementFlow ---------------------------
(***************************************************************************)
(* What the statements of an l24 function mean, and what the blocks that   *)
(* ControlFlow emits for them do.  The meaning is read off the token       *)
(* sequence of the source, without _nested_blocks and without blocks; the  *)
(* emitted code is run from block to block.  Both are reduced to the same  *)
(* observations: which effect, condition or return comes next.             *)
(*                                                                         *)
(* A block runs its instructions in order up to the first terminator.      *)
(* That is what the repository's tests expect of the generated assembly    *)
(* when a terminator is not the last instruction (test/lv6/0_if.l24,       *)
(* test/lv6/6_multiple_returns.l24, test/lv7/09_continue.l24).             *)
(***************************************************************************)
EXTENDS ControlFlow

FallsOff == 0   \* control reaches the end of the function body
Stuck == "stuck"  \* control runs off a block, or branches for ever

-----------------------------------------------------------------------------
(* The source *)

Positions == 1..Len(src)
Tok(i) == src[i].tok

\* Effects, conditions and returns are observed; other tokens only steer.
Observed(i) == Tok(i) \in {"effect", "if", "while", "return_void", "return_value"}

Closer(i) == CHOOSE j \in Positions :
               src[j].of = i /\ Tok(j) \in {"endblock", "endif", "endwhile"}

LoopsAround(i) == {w \in Positions : Tok(w) = "while" /\ w < i /\ i < Closer(w)}
LoopAround(i) == CHOOSE w \in LoopsAround(i) : \A v \in LoopsAround(i) : v <= w

\* SourceNext[i]: the first observation when control stands before token i.
SourceNext ==
  LET next[i \in 1..(Len(src) + 1)] ==
        IF i = Len(src) + 1 THEN FallsOff
        ELSE IF Observed(i) THEN i
        ELSE CASE Tok(i) \in {"block", "endblock", "endif", "empty"} -> next[i + 1]
               [] Tok(i) = "else"     -> next[Closer(src[i].of) + 1]
               [] Tok(i) = "endwhile" -> src[i].of
               [] Tok(i) = "break"    -> next[Closer(LoopAround(i)) + 1]
               [] Tok(i) = "continue" -> LoopAround(i)
  IN next

\* The observation that follows condition i when it is nonzero, and zero.
WhenTrue(i) == SourceNext[i + 1]
WhenFalse(i) ==
  LET elses == {j \in Positions : Tok(j) = "else" /\ src[j].of = i}
  IN  IF elses # {} THEN SourceNext[(CHOOSE j \in elses : TRUE) + 1]
      ELSE SourceNext[Closer(i) + 1]

-----------------------------------------------------------------------------
(* The emitted code *)

\* The observation made from the k-th instruction of block b on, given the
\* observations land[t] made from the start of each block t.
Observe(b, k, land) ==
  IF k > Len(code[b]) THEN Stuck
  ELSE LET i == code[b][k]
       IN  IF i.op = "br" /\ Len(i.to) = 1 THEN land[i.to[1]] ELSE i.at

\* From the start of a block: control that takes more silent branches than the
\* source has tokens goes round in a circle.
Land ==
  LET land[n \in 0..Len(src)] ==
        IF n = 0 THEN [b \in Created |-> Stuck]
        ELSE [b \in Created |-> Observe(b, 1, land[n - 1])]
  IN land[Len(src)]

CodeNext(b, k) == Observe(b, k, Land)

-----------------------------------------------------------------------------
(* Properties *)

\* The emitted blocks take the path the statements describe: from the entry,
\* after every effect, and on both outcomes of every condition, the next effect,
\* condition or return reached in the code is the one that comes next in the
\* source.  This holds for unreachable statements too.
CodeFollowsSource ==
  status = "emitted" =>
    /\ CodeNext(Entry, 1) = SourceNext[1]
    /\ \A b \in Created : \A k \in 1..Len(code[b]) :
         LET i == code[b][k]
         IN  /\ i.op = "other" => CodeNext(b, k + 1) = SourceNext[i.at + 1]
             /\ Len(i.to) = 2 => /\ CodeNext(i.to[1], 1) = WhenTrue(i.at)
                                 /\ CodeNext(i.to[2], 1) = WhenFalse(i.at)

\* A program is rejected by codeGenStmt exactly when its last statement is a
\* break or continue outside every loop.
RejectedOutsideLoopOnly ==
  LET open == {w \in Positions : Tok(w) = "while" /\
                 ~ \E j \in Positions : src[j].of = w /\ Tok(j) = "endwhile"}
  IN  \A i \in Positions : Tok(i) \in {"break", "continue"} =>
        (\E w \in Positions : /\ Tok(w) = "while" /\ w < i
                              /\ (w \in open \/ i < Closer(w)))
        <=> ~(status = "error" /\ i = Len(src))
=============================================================================
