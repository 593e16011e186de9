# A TLA+ model of the l24 compiler

`src/` is a compiler for l24, a small C-like language: ANTLR parses the source,
`ASTBuilder` makes a syntax tree of the parse tree, `CodeGenBase` walks the tree and
builds an LLVM module through `CodeGenContext`, and `asmGen` has LLVM write
`output.S`. The compiler is one thread; all that outlives a run is the `output.S` it
left in the directory. What makes it hard to get right is state that one recursive
handler leaves for another: the IRBuilder's insert block, the stack of loops, the stack
of name tables, LLVM's symbol table, the values an operator waits for. The modules here
are about that state.

## 1. The system

| Component | Source | State it keeps | Operations |
|---|---|---|---|
| Driver | `src/driver.cpp` | none | check the argument, parse, generate, emit |
| Front end | `frontend/front_end.cpp` | none | lex, parse, (in debug builds) stop at the parser's syntax errors |
| AST builder | `frontend/ast_builder.cpp`, `ast.h` | none | one `visit…` per grammar rule |
| Statement generator | `backend/code_gen.cpp` | the C++ call stack, blocks of the function, insert block, `_nested_blocks` | `codeGenFunc`, `codeGenBlock`, `codeGenStmt`, `codeGenIfStmt`, `codeGenWhileStmt` |
| Named values | `backend/code_gen_ctx.*` | `_nested_named_values`, global variables | push, pop, `defineValue`, `getValue`, `setValue` and their global counterparts |
| Functions and calls | `backend/code_gen.cpp`, `code_gen_ctx.cpp` | symbol table of the LLVM module | `codeGenStandardLibrary`, `codeGenProgram`, `codeGenFunc`, calls in `codeGenUnaryExp` |
| Expression generator | `backend/code_gen.cpp` | the C++ call stack with the values of operands | `codeGenLorExp` … `codeGenPrimaryExp` |
| Initial values, arrays | `backend/code_gen.cpp`, `code_gen_ctx.*` | `val_vec`, the insert block of the last function | `codeGenConstDef`, `codeGenVarDef`, `getInitVals`, element stores, initializers |
| Emission | `asmGen` | `output.S` | target lookup, write |

(Paths in this table are below `src/src/`.)

They interact by calls on one stack. `main` runs front end, generator and emission in
order and looks at none of their results. `codeGenProgram` takes declarations and
functions in file order; `codeGenFunc` opens the layer of the parameters and calls
`codeGenBlock`, which calls `codeGenStmt` for each item, which calls back into block,
if and while. All of them share the one `CodeGenContext`. An error the generator
notices itself is `LogError`, which exits the process; nothing is undone and nothing
has been written by then.

What makes each part correct:

- *Statement generator.* Every block created ends up in the function exactly once;
  only blocks that end in a terminator are left; branches lead to blocks of the
  function; `_nested_blocks` is the list of loops being generated; and the result runs
  like the source.
- *Named values.* The search through the layers is block scoping; nothing of one
  function is visible in another; constants stay constant.
- *Functions and calls.* A call reaches the function the source means, with the right
  number of arguments; a function is defined once and known in its own body.
- *Expressions.* The instructions have the effects of the source in its order, each
  once, with the operands of 64 bits the source means; an i1 stands only where an
  instruction takes one.
- *Initial values.* Element *i* of an array gets the *i*-th initial value or zero, what
  yields it is evaluated once and in order, and a definition that is not well-formed is
  stopped.
- *Front end, driver, emission.* Definitions are generated in file order; a failure
  shows in the exit code; an old `output.S` is not taken for a new one, nor lost to a
  program that is wrong.

Hard behaviours: arbitrary nesting and order of statements (`break`, `continue` and
`return` anywhere, dead code behind them), undefined behaviour of `back()` on an empty
block, shadowing, one symbol table for two kinds of names, calls in arguments of calls,
constants folded at compile time, an insert block that stays behind when a function
ends, failures that are reported and then ignored, a run that is killed with half of
`output.S` written. There are no threads, messages, timeouts or retries.

## 2. Modules

| Module | Models | Uses |
|---|---|---|
| `ControlFlow` | the statement generator as a recursive descent with an explicit stack | |
| `StatementFlow` | what statements mean, and what emitted blocks do | extends `ControlFlow` |
| `LexicalScope` | block scoping, abstractly | |
| `NamedValues` | layers, globals, definition, lookup, assignment | refines `LexicalScope` |
| `FunctionTable` | a table of declared functions, abstractly | |
| `Symbols` | LLVM's symbol table, function definitions, globals, nested calls | refines `FunctionTable` |
| `Expressions` | the expression generator, and what the builder makes of numbers | |
| `ExpressionMeaning` | what expressions mean, and what emitted instructions do | extends `Expressions` |
| `Initializers` | definitions with sizes and initial values, in functions and at file scope | |
| `Driver` | compilations one after the other, from the command line to `output.S` | |
| `ControlFlowProofs`, `ControlFlowLoops`, `StatementFlowProofs` | theorems about `ControlFlow` and `StatementFlow` | each extends the one before |
| `ExpressionsProofs` | theorems about `Expressions` and `ExpressionMeaning` | extends `ExpressionMeaning` |
| `NamedValuesProofs`, `SymbolsProofs`, `InitializersProofs`, `DriverProofs` | theorems about the module of that name | extend it |
| `MC...` | bounds, symmetry, the programs compiled | extend the module of that name |

### ControlFlow

The handlers are recursive functions over the syntax tree. `stack` holds one frame for
each active `codeGenBlock`, `codeGenIfStmt` and `codeGenWhileStmt`, with the local
variables (`elseBB`, `mergeBB`, `loop_bb`, `after_bb`) it still needs and the place it
has reached. An action is a maximal piece of a handler without a recursive call:
`BeginIf` runs from the start of `codeGenIfStmt` to its first `codeGenStmt`, `EndThen`
from there to the second, `EndIf` from there to the end. The tree itself is not
modelled: whenever `codeGenStmt` is entered, the next statement may be any that the
grammar allows. The behaviours are thus the compilations of all programs. `src` records
the statements met; it is read by properties only.

`code` has the instructions of each block, numbered in order of creation, `layout` the
block list of the function, `ip` the insert block. An expression or assignment is one
instruction (or none: IRBuilder folds constants), a condition is part of its
conditional branch. `codeGenIfStmt` and `codeGenWhileStmt` return early when the
condition's value is null; `codeGenExp` has no path that returns null for a tree that
the grammar can produce, so these returns are not modelled.

`EmptyTail` is what `isa<BranchInst>(back())` and `isa<ReturnInst>(back())` may find
when the block is empty and `back()` is undefined. `{"other"}` is what the repository's
own tests need (`test/lv6/0_if.l24` has an if without else, `test/lv8/01_void_func.l24`
an empty function): the missing instruction is neither a branch nor a return. The full
set stands for any build. Properties are stated with the weakest choice under which
they hold.

### StatementFlow

`SourceNext` gives each place of the source the next effect, condition or return that
control reaches, by the meaning of the statements. `CodeNext` gives each place of the
emitted code the next one reached by running blocks up to their first terminator, which
is what the tests expect of statements behind a terminator (`test/lv7/09_continue.l24`,
`test/lv6/6_multiple_returns.l24`). `CodeFollowsSource` compares the two everywhere.

### NamedValues and LexicalScope

`layers` is `_nested_named_values`, `globals` what `getGlobalVariable` returns, `values`
the allocas and global variables. `item` is what the source says at the last step, and
`access` the instructions it made the code emit for an identifier: on which value, at the
slot, an element or the pointee, and at which type. `GetLocal`, `GetGlobal`, `SetLocal`,
`SetGlobal` are the instruction builders `createGetValueInst`, `getGlobalValue`,
`createSetValueInst`, `setGlobalValue`; the last emits a load before its store.

A parameter is entered under the name LLVM gives its `Argument`. That is its own unless an
earlier parameter has it, and then the name with a number behind it, which may well be
another identifier of the program: with parameters `a` and `a` and a global `a1`, `a1` in
the body is the second parameter. `Numbered` has these identifiers. Which number LLVM takes
depends on all the names it has made up before, so `ArgumentNames` lets it be any, or one
that no identifier of the program has (`AddUnspelled`).

`LexicalScope` has no search: a scope starts with what its parent sees, a declaration
changes one binding, leaving restores the parent. `item` is one of its variables, so that
what comes of a step is determined by what the source says. A repeated parameter is no
step of block scoping; `RepeatedParam` says what happens to one, and
`ImplementsLexicalScope` is the refinement with these steps admitted. The refinement maps
scope *n* + 1 to what a search from layer *n* would find, so that a property of all layers
at once is checked in each step.

### Symbols and FunctionTable

`symtab` is LLVM's table for both functions and variables. Creating a value under a taken
name gives it a name no identifier spells (for functions and global variables LLVM puts a
dot before the number). `pending` is the stack of active `codeGenUnaryExp` calls whose
arguments are being generated. A call in the initial value of a global crashes the
compiler when the value is found not to be a constant; the model lets such an initial
value make one outermost call.

`FunctionTable` is a map from names to arities, the calls that are open, each with the
number of its arguments that have no value yet, and the calls that have happened. A call
happens when its last argument has its value, and only then does the call around it go on:
so the order of nested calls is fixed, and calls emitted before those in their arguments,
or arguments taken up out of turn, are no refinement. The refinement is
stated for programs in which no name has been given to a variable and then to a function
(`NamesApart`). In the others LLVM renames the function; `CallsBindToSource` says that
even there no call goes wrong, and `FunctionsDefinedOnce` is what does go wrong.

### Expressions and ExpressionMeaning

A statement is given as its parse tree. `stack` holds a frame for each handler that
waits for the value of a child, `entered` is the node whose handler is called, `result`
the value handed up. `Begin`, `AfterLeft`, `AfterRight...`, `NextChild` and the `End...`
actions are the pieces of `codeGenLorExp` ... `codeGenLVal` between their recursive
calls; the frame at the bottom is the statement. Nodes that only hand on their child's
value are left out of the trees.

`code` has the instructions in order. `Build` is IRBuilder: constant operands are folded
(`Fold`), to poison where the operation is undefined. `NumberNode` cuts what `stoll`
returns to an int, `Throws` is where `stoll` throws. `IntLimit` and `LongLimit` are the
widths, constants of the module.

`Globals` and `Arrays` say which names are global variables and which are arrays. The name
of a local array is its address (type `ptr`) and an element of it an int. For a global
array `getGlobalValue` loads at the array's type both times: `ValueType` and `ElementType`
are `aggregate`, and an operator applied to such a value is an instruction of that type.
`AssignsGlobal` is where `setGlobalValue` loads the variable before it stores to it.

`ExpressionMeaning` gives a tree and a list of instructions their effects (loads, element
accesses, calls, stores, returns, branches) in order with the values of their operands, in
a *world* that decides what reads and calls yield. The meaning of the operators is stated
without the operations of the code: a quotient is the number that leaves a remainder of
the right size and sign, a sum the number of the right width congruent to it. Where the
language says nothing (division by zero, a literal that is no int, a void call used as a
value) the code may do anything. Two departures for global variables are named where they
are made. `IdleLoad`: an assignment to one has one instruction without counterpart in the
source, the load right before the store, whose value the store does not take; the effects
compared are those of the other instructions (`Needed`). `IsKnown`: of the value of an
element of a global array, loaded at the wrong type, nothing is said. The access itself,
its place and its subscript are compared like all others. `Trees` are the expressions of
each height up to `MaxHeight`; the statements have their operands there, and the world's
numbers, `Worlds`, go on with zeros. Evaluation and execution are recursive functions over
the height and over the code.

### Initializers

A program is a sequence of definitions, each in a function or at file scope. The
constant `Programs` is the set of them. An expression is a number, a name or a call:
what they differ in for a definition. `size` and `vals` are the locals of `getInitVals`;
its loop takes one step for each element, `DefineLocal` and `DefineGlobal` what follows.
`within` is the function being generated, `inserting` the one whose block the builder
inserts into: `codeGenFunc` leaves it behind, and an initial value at file scope that
needs an instruction is emitted there, before the compiler finds that it is no constant.

### Driver

One machine and one directory, in which up to `MaxRuns` compilations follow each other.
An action is a step of `main`, `FrontEnd::parse`, `codeGenEntry`, `codeGenProgram` or
`asmGen`, with a second one for each way it may fail; `Killed` may happen between any
two. What is in a file is left open, so generating a definition may fail or not; that the
lexer reported a character that starts no token (`lexed`) and that the parser counted a
syntax error (`parsed`) are told apart, as only the latter is ever asked for (`Stopped`).
`pending` counts the active calls of `codeGenProgram`, which descends to the first
definition of a left-recursive list and generates on the way back. `output` is what
`output.S` holds and of which compilation. `Exit` codes are what a shell sees.

## 3. Runs

| Run | Question | Bounds |
|---|---|---|
| `cf` | are blocks sealed and functions closed, does the code do what the statements say, is every loop left? | 6 tokens |
| `cf_blocks` | ownership of blocks, targets, `_nested_blocks`, for any `EmptyTail` | 5 tokens |
| `nv` | is the search lexical scoping? | 2 identifiers, `a` and `a1`, 3 layers, 2 functions, 3 values |
| `sym` | are definition and call what a function table says, does any call go wrong where names are shared? | 3 functions, 3 calls, nested 2 deep, arities 0-2; two names also of variables |
| `expr` | do the instructions compute what the source says, at the types they need? | up to two operators, calls or subscripts (`MaxHeight` 3); ints of 3 bits, values of 4; locals, a global scalar, arrays of both kinds |
| `init` | are elements initialized in order and once, what gets past, what is left behind? | up to 3 definitions in two functions and the file, sizes -1 to 3 |
| `driver` | what do an exit code and an `output.S` say after failures and kills? | 3 compilations of files with 1 or 3 definitions |
| `cf_verify`, `cf_back` | statements of the repository about blocks that the code does not keep | 4 tokens |
| `nv_const`, `nv_array` | the same about names | 2 layers, 2 values |
| `sym_redefined` | the same about functions | as `sym` |

`MaxTokens` bounds where a new statement of a block may start, not the program's
length: whatever has been opened is completed. Every statement counts, and so does the
end of each block, if and loop. Five tokens behind the body's own brace admit an if with
both parts, a loop in a loop, a break between the ends of two loops, and every pair of
adjacent control statements; six, a statement behind an inner loop or a continue there.
A loop with an if, a break in it and an effect behind it needs seven and is not in the
run. A handler only sees its own frame, the tail of the current block and the innermost
loop; section 5 shows that size matters neither for sealing, ownership and
`_nested_blocks` nor for `CodeFollowsSource`.

Two identifiers and three layers give parameter, body and inner block, each able to shadow
a global and each other; two functions are what it takes for one to see the other's
layers. That one identifier is the other with a number behind it is what a repeated
parameter needs to take the name of something else. Three function names are one of the
library, one that is also a variable's, and one that is neither.

Ints of 3 bits and values of 4 have every boundary 32 and 64 bits have: literals that
fit, that are cut to zero or to a negative number, that make `stoll` throw; sums and
products that wrap; the smallest number divided by -1. Two operators are what it takes
for one handler to wait while another one runs, on its left and on its right.

Three definitions are one to refer to, one of every kind, and one behind it that must
not be disturbed. Three compilations let a failure follow a success and be followed by
one.

In `expr`, `a` is a local scalar, `b` a global one, `x` a local array and `y` a global one,
each read with and without a subscript; `a`, `b` and an element of `x` are assigned to.

Deadlock is checked in every run: a compilation that is over repeats its last state
(`Finished`, `Exited`, `Rest`), anything else that could not go on would be reported.

Liveness is checked under `FairSpec` in `cf`, `init` and `driver`: weak fairness of the
compiler's own step as a whole. It is one thread that waits for nobody, so while it has
a step it takes one; invocations, kills and the removal of a file are not fair.
`LoopsUnwind` says that every loop entered in `_nested_blocks` leaves it unless the
compiler exits with an error; `DefinitionsEnd` that the loop of `getInitVals` and the
walk over definitions end, whatever the sizes; `EveryRunEnds` that every compilation
comes to an exit code. The program being finite is the bound on tokens, definitions or
tree.

Each property of a passing run has a mutant, a definition named
`<Original>_<WhatIsWrong>` before the definition it would replace.

## 4. Where the code departs from what it says

- `EmittedBlocksVerify`: `codeGenFunc` validates the code it generated and ignores the
  verdict. Code behind a terminator passes. The README of the compiler says LLVM does
  not allow two jumps in a row and that if and while check for it; `break; break;` is
  not checked. The return that `codeGenFunc` appends (`code_gen.cpp:135`) is a void one
  in int functions too, and passes for the same reason.
- `BackFindsInstruction`: `back()` is called on empty blocks.
- `ConstsAreReadOnly`: a const at file scope can be assigned to.
- `ArraysAreNotLoaded`: global arrays are loaded whole, by name and by
  element, where local ones give an address and an int. `OperandsTyped` and
  `CodeComputesSource` have this as an exception.
- `FunctionsDefinedOnce`: two functions of one name, if a global has that name.

Some things are no disagreement with a text of the repository but limit what the passing
runs can say.

- `asmGen` returns to `main` when LLVM does not know the machine or cannot emit assembly
  for it, and the exit code is zero: `ZeroExitMeansFresh` speaks of supported machines only.
- The test for syntax errors is compiled into debug builds only and asks only the parser
  (`front_end.cpp:47`): `SyntaxErrorsShow` speaks of these builds and of the errors the
  parser counts. The grammar has no token for every character. One that starts none is
  reported by the lexer and dropped, and a file that is correct without it ends with zero
  in every build.
- A repeated parameter is not reported, although `defineValue` reports a redefinition
  (`code_gen_ctx.cpp:45`): the name it is asked for is not the one in the source.
  `ImplementsLexicalScope` admits what happens instead and nothing else.
- `ImplementsLexicalScope` compares the places an item touches and assigns to, not the number
  of instructions: the idle load of `setGlobalValue` touches the place the store does.
  `CodeComputesSource` counts instructions, and has the load as its one exception.
- Returns carry no type in `ControlFlow`: `EmittedFunctionClosed` and `CodeFollowsSource`
  say that the appended return is there and where control reaches it, not that it is a void
  one in a function that returns an int.
- `OnlyWellFormedPasses` takes an array of negative size in a function for well-formed, as
  the code does, which tests for zero only.

## 5. Proofs

Checked by TLAPS, for all values of the constants.

*ControlFlow.*

- `TypeCorrect`, `TargetsExist`. `TypeOK` is not inductive: a branch emitted later
  takes its target from a frame or from `loops`. `WellFormed` adds that frames, loops
  and branches name blocks among `2..Len(code)`, that a frame's phase goes with its
  kind, and that the two blocks of a frame differ. Each action has a lemma.
- `BlocksHaveOneOwner`. `Owned` says, for any code, layout and stack, what
  `BlocksOwnedOnce` says, in a form in which emitting, pushing, popping and inserting
  each have a lemma; it uses `WellFormed` for the blocks a frame holds.
- `LoopsAreMirrored`. The *n*-th pair of `_nested_blocks` belongs to the *n*-th while
  frame; `Mirrors` counts the while frames below each frame, and pushing, popping and
  going on in a frame each have a lemma about the count.
- `RejectionIsExact`. `Located` relates the tokens to the stack: a handler on the stack is
  that of a statement that has not ended, no two are of the same one, a loop without a
  handler has ended. With the theorem before it, an empty `_nested_blocks` means that no
  loop of the source is open, and a break that passed has a loop around it for good.
- `BlocksAreSealed`, assuming `"br" \notin EmptyTail`. `Sealing` is `Ownership` and a
  terminator at the end of every inserted block but the current one. Ownership is
  needed because sealing a block must not concern one that sits elsewhere in the layout.
- `FunctionIsClosed`, assuming `"br"` and `"ret"` are not in `EmptyTail`. It adds that
  an emitted function has an empty stack and a sealed last block. With an empty stack
  ownership says that all blocks are in the layout.

The two assumptions are needed: where `back()` of an empty block is taken for a branch,
an if without else leaves an open block. They are what the code relies on.

*StatementFlow.* `PointsAreKept` and, from it, `CodeTakesSourcePath`, under the same two
assumptions, for functions of any length and nesting. The run compares two paths when the
function is done; the invariant, `Following`, has to say something of code that is not.
It gives every token of the source a *point* (`blk`, `idx`), the place in a block where
control is when it stands before that token:

- `Path` and `Does`: what was generated for a token is at its point, and leads to the point
  of the token behind it, or to a block of the if or loop the token belongs to (`num`
  numbers these blocks);
- `Origin`: what can be observed in the code was generated for a token and is at its point;
- `Current`: the point of the next token is the end of the insert block, or, where an if
  without else is about to close, the end of its then part;
- `Holding`, `Handled`: handlers hold the blocks of their statements, and a statement with
  blocks that has not ended has its handler; `Final`: the end of the function is a return,
  or nothing gets there.

Points never move, and what is at them stays (`DoesGrows`, `PathGrows`): each step adds
tokens with their points, and code behind what is there. When the function is done, the
code at the point of a token leads where the token does, from the end of the source
backwards (`PointsArrive`, `ArrivesStep`); loops are where that needs care, since their
ends lead back to their conditions. A state where the compiler stopped with an error has
no points.

*NamedValues.* `TypeCorrect`, `LayersAreThisFunctions`, `SearchIsLexical`. `IInv` adds to
`TypeOK` that there are as many layers as active handlers, that a local entry is an alloca
of the current function and const exactly when that is, and that a global's entry is a
global variable. The refinement needs what the search finds from every layer, after every
step. `ScopesOf` states it with layers and globals as parameters, and pushing, popping and
putting an entry each have a lemma about it; a handler's step then only has to be
recognised as one of these. The theorem is about the refinement with `RepeatedParam`: a
program without repeated parameters has block scoping, and one with them has it but for
the binding that the repeated one gets.

*Symbols.* `TypeCorrect`, `CallsBind`, `TableOfFunctions`. `TableKnows` says that the
symbol table knows a function only while it is the only one written so, `CallsBound` that
what a pending or emitted call was bound to is what its name still denotes. The latter is
why the callee may be looked up before the arguments are generated. `Waiting`, that
an outer call waits for the argument the inner one is in, is needed for the order of
calls: when the inner call is emitted, the outer one still lacks that argument, as the open
call of `FunctionTable` does. The refinement is proved where `NamesApart` holds.

*Expressions.* `TypeCorrect`, `OperandsAreTyped`, for trees of any depth and any widths.
Induction over trees is avoided by assuming a *forest*: a set of trees closed under
children (`IsForest`), of the node kinds the grammar has, from which the operands of all
statements come. `IInv` says of each frame on the stack that its node is in the forest or,
at the bottom, is the statement, that the child being generated is one of its children,
and that the values it holds are results of instructions already emitted, of the type the
handler left them in: i1 for the left operand of `&&` and `||`, else the value as it was
handed up. What is handed up next has to be usable by the frame on top. A value of another
type comes from an instruction that gives one (`GivesForeign`): the load of an array's
name, a void call, the element of a global array, or arithmetic on such a value.

`CodeComputesTheSource` is the theorem about `ExpressionMeaning`: whatever the statement,
its code has the effects of the source, in its order, with the operands the source gives
them, in every world and at any widths. The forest is that of the trees of `MaxHeight`,
which is any natural number. `MeaningInv` follows the source alongside the handlers. It
says of every frame that there is a place in the source (`Places`: the height of its
children and the effects seen when it was entered) at which

- the frame below called it, behind the effects its children so far have in the source
  (`Called`, `Tracks`);
- the values it holds, in the code executed so far, contain those the source gives the
  same children, or their truth values for `&&` and `||` (`FrameMeans`, `Held`);
- the handler entered is called where the source is, and what is handed up contains what
  the source means, after the same effects (`Goes`).

`IdleInv` stands beside it for assignments to global variables: the frame of a statement is
at the bottom only, so that the idle load is emitted once, right before the store, and no
operand of the store is its value (`IdleAssign`). Leaving it out moves no value the store
takes (`TwoMore`, `AllNeeded`).

Of the code it needs that executing more leaves values and effects as they were
(`ExecutionGrows`, `Continues`), so that what a waiting frame knows stays true while
another handler emits. What `Build` makes of an operation, at compile time or at run
time, has the operation's value (`BuildComputes`), and the operations are those of the
source: `QuotientMeans` (the only number that leaves a small remainder of the dividend's
sign), `ArithmeticMeans`, `RelationalMeans`, `LogicalMeans`.

The meanings are recursive functions, over places of the source in `StatementFlow`, over
heights, children and code in `ExpressionMeaning`. That such a function exists, and so
satisfies its equation, is proved by induction over the numbers up to a bound: a set of
numbers that lacks one lacks a least one (`Least`, from `WellFoundedInduction`; `Induct`,
`Downward`). No induction over data is needed beyond that.

*Driver.* `TypeCorrect`, `FileOrder`, `ZeroMeansFresh`, `ErrorsShow`, `OldStays`, for files
of any length and any number of compilations. `Progress` says that on the way back the
active calls and the definitions generated add up to the tree, that `asmGen` only runs
when all are generated, and what an exit code of zero means.

*Initializers.* All six safety properties of the run `init` (`TypeCorrect`,
`ElementsAreInitialised`, `EvaluationIsInOrder`, `NamesAreResolved`, `NothingStrays`,
`WellFormedPass`), for any set of programs with definitions of any size and number. That
the definitions of a function are one behind the other comes from `ProgramsAssumption`.
Only the first of the six is part of the invariant as it stands. `IInv` has what is known
of each definition that is done (`Past`): where its size came from, that it is
well-formed, and its stores or its initializer. `Past` takes instructions and globals as
parameters, and the lemma `PastStays` says that adding more of both leaves it true.
`Placed` says that functions are entered once, `Scopes` that the names in the layer and
in the module are those of the definitions before, `Current` what the values in `val_vec`
are, `Latest` that an instruction emitted at file scope leaves a value that is no
constant, by which the compiler will stop.

Only model-checked: liveness (`LoopsUnwind`, `DefinitionsEnd`, `EveryRunEnds`), which is
beyond TLAPS here. Every other property of a passing run is stated by a theorem. The
invariants `Following` and `MeaningInv`, which ask for points and places to exist, are too
large for TLC to search; that they hold in every state is the proof's.

## 6. Not modelled

- The lexer and parser are generated, LLVM and the run-time library are third-party;
  they appear as the operations the generator uses.
- The part of the AST builder that copies names from one tree to the other without
  deciding anything.
- Where parsing stops: the entry rule does not ask for the end of the file
  (`front_end.cpp:43`), so a file may be cut short at a token that starts no definition.
  `Driver` counts the definitions that were parsed.
- The stack a program needs: `CreateEntryBlockAlloca` allocates *n* arrays of *n*
  elements (`code_gen_ctx.h:38`). Only the first is used, no value is wrong.
- `ConstantInt::get` with the array type of a global (`code_gen_ctx.cpp:236` and `260`):
  what it gives depends on LLVM's build. The model takes it for the index zero the comment
  there means.
- What `CreateNeg` makes of a void call's value, which has no zero to subtract from.
- In `Symbols`, the types of parameters and arguments; `Expressions` has arrays and void
  calls where a number is needed. In `NamedValues`, the contents of variables.

## 7. Plan

Done: the statement generator with its meaning, named values, functions and calls,
expressions with their meaning, initial values and arrays, driver and emission; the
theorems of section 5.

1. `Program`: the composition of `Symbols`, `NamedValues` and `Initializers`, in which
   one name is looked up as a local, a global and a function.
2. In `Symbols`, the types of parameters and arguments, so that an array passed where a
   number is expected is stopped or goes wrong there.
