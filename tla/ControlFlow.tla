---------------------------- MODULE ControlFlow ----------------------------
(***************************************************************************)
(* The statement half of the l24 code generator: how CodeGenBase turns the *)
(* statements of one function body into LLVM basic blocks                  *)
(* (src/src/backend/code_gen.cpp, codeGenFunc ... codeGenWhileStmt).       *)
(*                                                                         *)
(* codeGenStmt is a recursive descent over the syntax tree.  Its C++ call  *)
(* stack is the variable stack, one frame per active handler; an action is *)
(* what a handler does between two recursive calls.  The syntax tree is    *)
(* not a constant: the handlers meet its statements one at a time, and the *)
(* specification lets the next statement be any one the grammar allows, so *)
(* that its behaviours are the compilations of all programs.  src records  *)
(* the statements met, as the tokens of the source text.                   *)
(*                                                                         *)
(* Expressions are abstracted: what an expression or an assignment emits   *)
(* is one instruction, the condition of an if or a while is part of its    *)
(* conditional branch.  Named-value layers are in module NamedValues.      *)
(***************************************************************************)
EXTENDS Naturals, Sequences, FiniteSets

CONSTANTS
  MaxTokens,  \* no new statement of a block starts once src is this long
  Leaves,     \* the simple statements the program may contain
  RetInt,     \* the return types of the function: TRUE for int, FALSE for void
  EmptyTail   \* what isa<> may see in back() of a block with no instruction

LeafTokens == {"effect", "empty", "return_void", "return_value", "break", "continue"}

\* A single-statement slot (then, else, loop body) must always be fillable.
ASSUME LeavesAssumption == Leaves \subseteq LeafTokens /\ "empty" \in Leaves
ASSUME BoundAssumption == MaxTokens \in Nat \ {0}
ASSUME RetIntAssumption == RetInt \subseteq BOOLEAN /\ RetInt # {}

\* back() of an empty block is undefined: the C++ code then classifies memory
\* that is not an instruction.
ASSUME EmptyTailAssumption ==
  EmptyTail \subseteq {"br", "ret", "other"} /\ EmptyTail # {}

VARIABLES
  src,     \* source tokens met so far (history, read by the properties only)
  stack,   \* active codeGenBlock / codeGenIfStmt / codeGenWhileStmt calls
  code,    \* instructions of every basic block created so far
  layout,  \* the function's block list: blocks in the order of insertion
  ip,      \* the IRBuilder's insert block
  loops,   \* _nested_blocks: <<loop_bb, after_bb>> of the loops being generated
  isInt,   \* the function's return type is int
  status   \* "generating", "emitted", or "error" after LogError's exit(1)

vars == <<src, stack, code, layout, ip, loops, isInt, status>>

-----------------------------------------------------------------------------
(* Instructions and blocks *)

Entry == 1     \* the block "entry" of codeGenFunc
NoBlock == 0   \* an unset BasicBlock pointer of a frame

Block == Nat \ {0}

\* at is the source token an instruction was generated for, 0 for the return
\* that codeGenFunc appends on its own.
Inst(at)         == [op |-> "other", at |-> at, to |-> << >>]
Br(at, b)        == [op |-> "br", at |-> at, to |-> <<b>>]
CondBr(at, t, e) == [op |-> "br", at |-> at, to |-> <<t, e>>]
Ret(at)          == [op |-> "ret", at |-> at, to |-> << >>]

Instr == [op : {"other", "br", "ret"}, at : Nat, to : Seq(Block)]

IsTerminator(i) == i.op \in {"br", "ret"}

\* Mutant of Create: one block too few is created.
Create_OneShort(c, k) == c \o [i \in 1..(k - 1) |-> << >>]

\* BasicBlock::Create, k times: fresh blocks without instructions.
Create(c, k) == c \o [i \in 1..k |-> << >>]

\* _builder->Create...: append to the insert block.
Emit(c, b, i) == [c EXCEPT ![b] = Append(@, i)]

\* The classes isa<BranchInst>(back()) and isa<ReturnInst>(back()) can find.
TailOps(b) == IF code[b] = << >> THEN EmptyTail ELSE {code[b][Len(code[b])].op}

\* Mutant of BrUnlessBranch: the sense of the test is inverted.
BrUnlessBranch_Inverted(c, b, tail) == IF tail = "br" THEN Emit(c, ip, Br(0, b)) ELSE c

\* "prevent two branch insts case": branch to b unless the tail is a branch.
BrUnlessBranch(c, b, tail) == IF tail = "br" THEN c ELSE Emit(c, ip, Br(0, b))

\* Mutant of RetUnlessRet: only a void function gets the missing return.
RetUnlessRet_VoidOnly(c, tail) == IF tail = "ret" \/ isInt THEN c ELSE Emit(c, ip, Ret(0))

\* "if the last instruction is not a return inst, append one".
RetUnlessRet(c, tail) == IF tail = "ret" THEN c ELSE Emit(c, ip, Ret(0))

-----------------------------------------------------------------------------
(* Handler frames *)

Top == stack[Len(stack)]
Pop == SubSeq(stack, 1, Len(stack) - 1)

\* Mutants of IfFrame and WhileFrame: an else block only where the source has
\* an else, the two blocks of a loop in the other order.
IfFrame_NoElseBlock(at, elseBB, mergeBB) ==
  [kind |-> "if", at |-> at, done |-> FALSE, phase |-> "then", b1 |-> NoBlock, b2 |-> mergeBB]
WhileFrame_Swapped(at, loop_bb, after_bb) ==
  [kind |-> "while", at |-> at, done |-> FALSE, phase |-> "body", b1 |-> after_bb, b2 |-> loop_bb]

\* done: the statement that the frame's phase asked for has been generated.
BlockFrame(at) ==
  [kind |-> "block", at |-> at, done |-> FALSE, phase |-> "items", b1 |-> NoBlock, b2 |-> NoBlock]
IfFrame(at, elseBB, mergeBB) ==
  [kind |-> "if", at |-> at, done |-> FALSE, phase |-> "then", b1 |-> elseBB, b2 |-> mergeBB]
WhileFrame(at, loop_bb, after_bb) ==
  [kind |-> "while", at |-> at, done |-> FALSE, phase |-> "body", b1 |-> loop_bb, b2 |-> after_bb]

Frame == [kind : {"block", "if", "while"}, at : Nat, done : BOOLEAN,
          phase : {"items", "then", "else", "body"}, b1 : Nat, b2 : Nat]

\* Blocks that a frame holds and has not yet inserted into the function.
Pending(f) ==
  CASE f.kind = "if" /\ f.phase = "then" -> {f.b1, f.b2}
    [] f.kind = "if" /\ f.phase = "else" -> {f.b2}
    [] f.kind = "while" -> {f.b2}
    [] OTHER -> {}

\* codeGenStmt returns to the handler that called it.
Return(stk) ==
  IF stk # << >> /\ stk[Len(stk)].kind # "block"
  THEN [stk EXCEPT ![Len(stk)].done = TRUE]
  ELSE stk

\* Mutants of LeaveLoop: the loop stays, the outermost loop goes.
LeaveLoop_Stays == loops
LeaveLoop_Outermost == SubSeq(loops, 2, Len(loops))

\* _nested_blocks.pop_back()
LeaveLoop == SubSeq(loops, 1, Len(loops) - 1)

AwaitsStmt == status = "generating" /\ stack # << >> /\ ~Top.done
Here == Len(src) + 1
Room == Len(src) < MaxTokens
Token(tok, of) == [tok |-> tok, of |-> of]

-----------------------------------------------------------------------------
(* Handlers *)

\* codeGenFunc up to codeGenBlock: the entry block is created in the function.
Init ==
  /\ src = <<Token("block", 0)>>
  /\ stack = <<BlockFrame(1)>>
  /\ code = << << >> >>
  /\ layout = <<Entry>>
  /\ ip = Entry
  /\ loops = << >>
  /\ isInt \in RetInt
  /\ status = "generating"

\* A simple statement of kind tok is next in the source.  A slot for a single
\* statement is always filled, a block may end instead.
Leaf(tok) ==
  /\ AwaitsStmt
  /\ tok \in Leaves
  /\ Room \/ Top.kind # "block"
  /\ src' = Append(src, Token(tok, 0))
  /\ UNCHANGED <<layout, ip, loops, isInt>>

\* An expression statement or an assignment that emits code.
ExprStmt ==
  /\ Leaf("effect")
  /\ code' = Emit(code, ip, Inst(Here))
  /\ stack' = Return(stack)
  /\ UNCHANGED status

\* ";", or an expression statement the IRBuilder folds away.
EmptyStmt ==
  /\ Leaf("empty")
  /\ stack' = Return(stack)
  /\ UNCHANGED <<code, status>>

ReturnStmt ==
  /\ Leaf("return_void") \/ Leaf("return_value")
  /\ code' = Emit(code, ip, Ret(Here))
  /\ stack' = Return(stack)
  /\ UNCHANGED status

\* continue branches to .first of the innermost loop, break to .second.
BreakOrContinue(tok, target) ==
  /\ Leaf(tok)
  /\ IF loops = << >>
     THEN status' = "error" /\ UNCHANGED <<code, stack>>
     ELSE /\ code' = Emit(code, ip, Br(Here, loops[Len(loops)][target]))
          /\ stack' = Return(stack)
          /\ UNCHANGED status

\* Mutant of ContinueStmt: continue leaves the loop.
ContinueStmt_Leaves == BreakOrContinue("continue", 2)

ContinueStmt == BreakOrContinue("continue", 1)
BreakStmt    == BreakOrContinue("break", 2)

\* codeGenBlock
OpenBlock ==
  /\ AwaitsStmt /\ Room
  /\ src' = Append(src, Token("block", 0))
  /\ stack' = Append(stack, BlockFrame(Here))
  /\ UNCHANGED <<code, layout, ip, loops, isInt, status>>

CloseBlock ==
  /\ AwaitsStmt /\ Top.kind = "block"
  /\ src' = Append(src, Token("endblock", Top.at))
  /\ stack' = Return(Pop)
  /\ UNCHANGED <<code, layout, ip, loops, isInt, status>>

\* codeGenIfStmt up to the then statement.  Only the then block is inserted.
BeginIf ==
  LET n == Len(code)
      thenBB == n + 1
      elseBB == n + 2
      mergeBB == n + 3
  IN  /\ AwaitsStmt /\ Room
      /\ src' = Append(src, Token("if", 0))
      /\ stack' = Append(stack, IfFrame(Here, elseBB, mergeBB))
      /\ code' = Emit(Create(code, 3), ip, CondBr(Here, thenBB, elseBB))
      /\ layout' = Append(layout, thenBB)
      /\ ip' = thenBB
      /\ UNCHANGED <<loops, isInt, status>>

\* codeGenIfStmt after the then statement, up to the else statement if the
\* source has one.
EndThen ==
  /\ status = "generating" /\ stack # << >>
  /\ Top.phase = "then" /\ Top.done
  /\ \E tail \in TailOps(ip) : code' = BrUnlessBranch(code, Top.b2, tail)
  /\ layout' = Append(layout, Top.b1)
  /\ ip' = Top.b1
  /\ \E hasElse \in BOOLEAN :
       /\ src' = IF hasElse THEN Append(src, Token("else", Top.at)) ELSE src
       /\ stack' = [stack EXCEPT ![Len(stack)].phase = "else",
                                 ![Len(stack)].done = ~hasElse]
  /\ UNCHANGED <<loops, isInt, status>>

\* codeGenIfStmt after the else part.
EndIf ==
  /\ status = "generating" /\ stack # << >>
  /\ Top.phase = "else" /\ Top.done
  /\ src' = Append(src, Token("endif", Top.at))
  /\ \E tail \in TailOps(ip) : code' = BrUnlessBranch(code, Top.b2, tail)
  /\ layout' = Append(layout, Top.b2)
  /\ ip' = Top.b2
  /\ stack' = Return(Pop)
  /\ UNCHANGED <<loops, isInt, status>>

\* codeGenWhileStmt up to the body: loop_bb is entered, tests the condition
\* and branches to the body or past the loop.
BeginWhile ==
  LET n == Len(code)
      loop_bb == n + 1
      body_bb == n + 2
      after_bb == n + 3
      jump == Emit(Create(code, 3), ip, Br(0, loop_bb))
  IN  /\ AwaitsStmt /\ Room
      /\ src' = Append(src, Token("while", 0))
      /\ stack' = Append(stack, WhileFrame(Here, loop_bb, after_bb))
      /\ loops' = Append(loops, <<loop_bb, after_bb>>)
      /\ code' = Emit(jump, loop_bb, CondBr(Here, body_bb, after_bb))
      /\ layout' = layout \o <<loop_bb, body_bb>>
      /\ ip' = body_bb
      /\ UNCHANGED <<isInt, status>>

\* codeGenWhileStmt after the body.
EndWhile ==
  /\ status = "generating" /\ stack # << >>
  /\ Top.phase = "body" /\ Top.done
  /\ src' = Append(src, Token("endwhile", Top.at))
  /\ \E tail \in TailOps(ip) : code' = BrUnlessBranch(code, Top.b1, tail)
  /\ layout' = Append(layout, Top.b2)
  /\ ip' = Top.b2
  /\ loops' = LeaveLoop
  /\ stack' = Return(Pop)
  /\ UNCHANGED <<isInt, status>>

\* codeGenFunc after codeGenBlock.  verifyFunction's verdict is not used.
EndFunc ==
  /\ status = "generating" /\ stack = << >>
  /\ \E tail \in TailOps(ip) : code' = RetUnlessRet(code, tail)
  /\ status' = "emitted"
  /\ UNCHANGED <<src, stack, layout, ip, loops, isInt>>

\* The function is generated, or the process has exited.
Finished == status # "generating" /\ UNCHANGED vars

Step ==
  \/ ExprStmt \/ EmptyStmt \/ ReturnStmt \/ ContinueStmt \/ BreakStmt
  \/ OpenBlock \/ CloseBlock
  \/ BeginIf \/ EndThen \/ EndIf
  \/ BeginWhile \/ EndWhile
  \/ EndFunc

Next == Step \/ Finished

Spec == Init /\ [][Next]_vars

\* The compiler is one thread that runs until it is done.
FairSpec == Spec /\ WF_vars(Step)

-----------------------------------------------------------------------------
(* Properties *)

Token_ == [tok : LeafTokens \cup {"block", "endblock", "if", "else", "endif", "while", "endwhile"},
           of : Nat]

\* The variables have the types of their C++ counterparts.
TypeOK ==
  /\ src \in Seq(Token_)
  /\ stack \in Seq(Frame)
  /\ code \in Seq(Seq(Instr))
  /\ layout \in Seq(Block)
  /\ ip \in Block
  /\ loops \in Seq(Block \X Block)
  /\ isInt \in BOOLEAN
  /\ status \in {"generating", "emitted", "error"}

Created == 1..Len(code)
Inserted == {layout[i] : i \in 1..Len(layout)}
Terminated(b) == code[b] # << >> /\ IsTerminator(code[b][Len(code[b])])

\* Every basic block the handlers create (BasicBlock::Create in codeGenFunc,
\* codeGenIfStmt and codeGenWhileStmt) is at every moment either in the function
\* or held, still empty, by exactly one active handler, and no block is inserted
\* twice: no block is lost and none is in two places.
BlocksOwnedOnce ==
  /\ Created = Inserted \cup UNION {Pending(stack[i]) : i \in 1..Len(stack)}
  /\ \A i, j \in 1..Len(layout) : layout[i] = layout[j] => i = j
  /\ \A i \in 1..Len(stack) : Pending(stack[i]) \cap Inserted = {}
  /\ \A i, j \in 1..Len(stack) : i # j => Pending(stack[i]) \cap Pending(stack[j]) = {}
  /\ \A i \in 1..Len(stack) : \A b \in Pending(stack[i]) : code[b] = << >>

\* The insert block moves on only from a block that ends in a terminator: every
\* other block of the function is sealed, whatever break, continue and return
\* did inside it (the isa<BranchInst>(back()) tests of codeGenIfStmt and
\* codeGenWhileStmt).  README.md asks for it: the next block in the list is not
\* where execution goes by itself.
BlocksSealed ==
  \A b \in Inserted \ {ip} : Terminated(b)

\* Branches lead to blocks that exist, and never to the entry block.
TargetsCreated ==
  /\ \A b \in Created : \A k \in 1..Len(code[b]) :
       \A t \in 1..Len(code[b][k].to) : code[b][k].to[t] \in Created \ {Entry}
  /\ \A i \in 1..Len(loops) : \A t \in 1..2 : loops[i][t] \in Created \ {Entry}

\* What codeGenFunc hands on: the function's blocks are distinct, each ends in a
\* terminator, every branch target is in the function, the entry block has no
\* predecessor, and no block that was created is missing.
EmittedFunctionClosed ==
  status = "emitted" =>
    /\ Created = Inserted
    /\ \A i, j \in 1..Len(layout) : layout[i] = layout[j] => i = j
    /\ \A b \in Inserted : Terminated(b)
    /\ \A b \in Inserted : \A k \in 1..Len(code[b]) :
         \A t \in 1..Len(code[b][k].to) : code[b][k].to[t] \in Inserted \ {Entry}

WhileFrames == {i \in 1..Len(stack) : stack[i].kind = "while"}

\* _nested_blocks lists the loops whose codeGenWhileStmt is active, outermost
\* first, each with its own blocks: break and continue leave or repeat the
\* innermost loop around them, in the presence of any nesting.
LoopsMirrorHandlers ==
  status # "error" =>
    /\ Len(loops) = Cardinality(WhileFrames)
    /\ \A i \in WhileFrames :
         loops[Cardinality({j \in WhileFrames : j <= i})] = <<stack[i].b1, stack[i].b2>>

\* Every loop that is entered in _nested_blocks is removed from it again, so that
\* none is left for the break of a later function: the handlers come to their
\* end, on every path through them.
LoopsUnwind == loops # << >> ~> loops = << >> \/ status = "error"

-----------------------------------------------------------------------------
(* What the repository says of the generated code and the code does not do *)

\* codeGenFunc: "Validate the generated code, checking for consistency."  What
\* the verifier demands of a block is one terminator, at its end; README.md says
\* that two jumps in a row are not allowed.
EmittedBlocksVerify ==
  status = "emitted" =>
    \A b \in Inserted : \A k \in 1..Len(code[b]) :
      IsTerminator(code[b][k]) <=> k = Len(code[b])

\* README.md: back() is how to get the last instruction of a block.  So there is
\* one wherever codeGenIfStmt, codeGenWhileStmt and codeGenFunc call it.
ReadsTail ==
  status = "generating" /\ (stack = << >> \/ (Top.kind # "block" /\ Top.done))
BackFindsInstruction == ReadsTail => code[ip] # << >>
=============================================================================
