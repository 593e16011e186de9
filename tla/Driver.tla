------------------------------- MODULE Driver -------------------------------
(***************************************************************************)
(* main (driver.cpp), FrontEnd::parse, codeGenEntry, codeGenProgram and    *)
(* asmGen: a compilation from its arguments to its exit code, and the one  *)
(* output file that every compilation in a directory writes.               *)
(*                                                                         *)
(* What is in the source is left open: parsing, building the tree,         *)
(* generating a definition and writing may each fail the way the code lets *)
(* it.  An exit code is what a shell sees: 1 from main, LogError and       *)
(* LLVM's fatal errors, Signalled from a null pointer, an uncaught         *)
(* exception or a kill.                                                    *)
(***************************************************************************)
EXTENDS Integers, Sequences

CONSTANTS
  Sources,  \* the command lines, see SourcesAssumption
  Builds,   \* "debug" or "release"
  Targets,  \* what LLVM can do for this machine
  MaxRuns   \* compilations one after the other

\* lexed: no character of the file is one that no token of the grammar starts with.
\* The lexer reports such a one and drops it, the parser does not see it.
\* parsed: the parser counts no syntax error in the tokens.
\* definitions is the number of those before the end of the file, or before the
\* first token that starts none: entry does not ask for the end of the file.
ASSUME SourcesAssumption ==
  Sources \subseteq [given : BOOLEAN, readable : BOOLEAN, lexed : BOOLEAN, parsed : BOOLEAN,
                    definitions : Nat \ {0}]
ASSUME BuildsAssumption == Builds \subseteq {"debug", "release"}
ASSUME TargetsAssumption == Targets \subseteq {"supported", "unknown", "no assembly"}
ASSUME MaxRunsAssumption == MaxRuns \in Nat

VARIABLES
  build, target, \* the machine the compiler runs on
  runs,      \* compilations begun, the number of the current one
  source,    \* its command line
  phase,     \* where it is
  tree,      \* what parse returned: definitions in the tree, NoTree for nullptr
  pending,   \* active calls of codeGenProgram
  generated, \* definitions generated
  isOpen,    \* dest has a file
  output,    \* output.S: the compilation it is of, and how much of it
  exit       \* exit code

vars == <<build, target, runs, source, phase, tree, pending, generated, isOpen, output, exit>>
machine == <<build, target, runs, source>>

NoTree == 0
NoExit == -1
Signalled == 139
File(of, state) == [of |-> of, state |-> state]
NoFile == File(0, "absent")

Running == phase \notin {"idle", "exited"}

Init ==
  /\ build \in Builds /\ target \in Targets
  /\ runs = 0 /\ source \in Sources
  /\ phase = "idle"
  /\ tree = NoTree /\ pending = 0 /\ generated = << >>
  /\ isOpen = FALSE /\ output = NoFile /\ exit = NoExit

-----------------------------------------------------------------------------
(* Outside *)

Invoke ==
  /\ ~Running /\ runs < MaxRuns
  /\ runs' = runs + 1 /\ source' \in Sources
  /\ phase' = "main"
  /\ tree' = NoTree /\ pending' = 0 /\ generated' = << >> /\ isOpen' = FALSE /\ exit' = NoExit
  /\ UNCHANGED <<build, target, output>>

\* "idle" again: the exit code says nothing about the file any more.
Remove ==
  /\ ~Running /\ output # NoFile
  /\ phase' = "idle" /\ output' = NoFile
  /\ UNCHANGED <<machine, tree, pending, generated, isOpen, exit>>

\* The process ends; what it had written stays.
Exit(code) ==
  /\ phase' = "exited" /\ exit' = code
  /\ UNCHANGED <<machine, tree, pending, generated, isOpen>>

Killed == Running /\ Exit(Signalled) /\ UNCHANGED output

-----------------------------------------------------------------------------
(* main and FrontEnd::parse *)

Refuse ==
  /\ phase = "main" /\ ~(source.given /\ source.readable)
  /\ Exit(1) /\ UNCHANGED output

Readable == phase = "main" /\ source.given /\ source.readable

\* The test for syntax errors is there in a debug build only, and asks the parser
\* only: whether source.lexed makes no difference.
Stopped == build = "debug" /\ ~source.parsed

Parsed(result) ==
  /\ phase' = "parsed" /\ tree' = result
  /\ UNCHANGED <<machine, pending, generated, isOpen, output, exit>>

ParseFails == Readable /\ Stopped /\ Parsed(NoTree)
ParseBuilds == Readable /\ ~Stopped /\ Parsed(source.definitions)

\* stoll, or any_cast on the tree of a file with syntax errors
BuilderThrows == Readable /\ ~Stopped /\ Exit(Signalled) /\ UNCHANGED output

-----------------------------------------------------------------------------
(* codeGenEntry and codeGenProgram *)

\* Mutant of NullEntry: main returns when there is no tree.
NullEntry_Returns == phase = "parsed" /\ tree = NoTree /\ Exit(0) /\ UNCHANGED output

\* entry_node->_prog of nullptr
NullEntry == phase = "parsed" /\ tree = NoTree /\ Exit(Signalled) /\ UNCHANGED output

\* Mutant of EnterProgram: the output file is opened first.
EnterProgram_Opens ==
  /\ phase = "parsed" /\ tree # NoTree
  /\ phase' = "generating" /\ pending' = 1 /\ output' = File(runs, "partial")
  /\ UNCHANGED <<machine, tree, generated, isOpen, exit>>

EnterProgram ==
  /\ phase = "parsed" /\ tree # NoTree
  /\ phase' = "generating" /\ pending' = 1
  /\ UNCHANGED <<machine, tree, generated, isOpen, output, exit>>

\* Mutant of HasRest: the recursion goes one node too far.
HasRest_Always == generated = << >> /\ pending <= tree

\* prog_node->_prog, on the way down
HasRest == generated = << >> /\ pending < tree

Descend ==
  /\ phase = "generating" /\ HasRest
  /\ pending' = pending + 1
  /\ UNCHANGED <<machine, phase, tree, generated, isOpen, output, exit>>

\* Mutant of DefinitionAt: the first definition is at the top of the tree.
DefinitionAt_TopFirst(depth) == depth

\* program is left-recursive: the last definition of the file is at the top.
DefinitionAt(depth) == tree - depth + 1

Generating == phase = "generating" /\ ~HasRest /\ pending > 0

\* codeGenDecl or codeGenFunc, and the return to the node above
Generate ==
  /\ Generating
  /\ generated' = Append(generated, DefinitionAt(pending)) /\ pending' = pending - 1
  /\ UNCHANGED <<machine, phase, tree, isOpen, output, exit>>

GenerateFails == Generating /\ (Exit(1) \/ Exit(Signalled)) /\ UNCHANGED output

PrintModule ==
  /\ phase = "generating" /\ ~HasRest /\ pending = 0
  /\ phase' = "lookup"
  /\ UNCHANGED <<machine, tree, pending, generated, isOpen, output, exit>>

-----------------------------------------------------------------------------
(* asmGen *)

\* asmGen returns and main does not know.
UnknownTarget ==
  /\ phase = "lookup" /\ target = "unknown"
  /\ Exit(0) /\ UNCHANGED output

\* Opening truncates.  When it fails that is reported, and asmGen goes on.
OpenOutput ==
  /\ phase = "lookup" /\ target # "unknown"
  /\ phase' = "passes"
  /\ \/ isOpen' = TRUE /\ output' = File(runs, "empty")
     \/ UNCHANGED <<isOpen, output>>
  /\ UNCHANGED <<machine, tree, pending, generated, exit>>

\* addPassesToEmitFile
CannotEmit ==
  /\ phase = "passes" /\ target = "no assembly"
  /\ Exit(0) /\ UNCHANGED output

RunPasses ==
  /\ phase = "passes" /\ target = "supported"
  /\ phase' = "writing"
  /\ output' = IF isOpen THEN File(runs, "partial") ELSE output
  /\ UNCHANGED <<machine, tree, pending, generated, isOpen, exit>>

\* Mutant of Flush: nobody asks whether the file was open.
Flush_Unchecked ==
  /\ phase = "writing"
  /\ output' = IF isOpen THEN File(runs, "complete") ELSE output
  /\ Exit(0)

Flush ==
  /\ phase = "writing" /\ isOpen
  /\ output' = File(runs, "complete")
  /\ Exit(0)

\* Mutant of WriteFails: the passes are run once more.
WriteFails_Retries ==
  /\ phase = "writing"
  /\ phase' = "passes"
  /\ UNCHANGED <<machine, tree, pending, generated, isOpen, output, exit>>

\* dest's destructor finds that a write has failed, as every write does without a
\* file, and ends the process.
WriteFails == phase = "writing" /\ Exit(1) /\ UNCHANGED output

\* A module that verifyFunction had found fault with may bring LLVM down.
PassesCrash == phase = "writing" /\ Exit(Signalled) /\ UNCHANGED output

Step ==
  \/ Refuse \/ ParseFails \/ ParseBuilds \/ BuilderThrows
  \/ NullEntry \/ EnterProgram \/ Descend \/ Generate \/ GenerateFails \/ PrintModule
  \/ UnknownTarget \/ OpenOutput \/ CannotEmit \/ RunPasses \/ Flush \/ WriteFails \/ PassesCrash

\* The last compilation is over.
Rest == ~Running /\ runs = MaxRuns /\ UNCHANGED vars

Next == Invoke \/ Remove \/ Killed \/ Step \/ Rest

Spec == Init /\ [][Next]_vars
FairSpec == Spec /\ WF_vars(Step)

-----------------------------------------------------------------------------
(* Properties *)

Phases == {"idle", "main", "parsed", "generating", "lookup", "passes", "writing", "exited"}
States == {"absent", "empty", "partial", "complete"}

\* The types of the variables.  codeGenProgram is called once for each node.
TypeOK ==
  /\ build \in Builds /\ target \in Targets
  /\ runs \in 0..MaxRuns /\ source \in Sources
  /\ phase \in Phases
  /\ tree \in {NoTree, source.definitions}
  /\ pending \in Nat /\ generated \in Seq(Nat) /\ pending + Len(generated) <= tree
  /\ isOpen \in BOOLEAN
  /\ output \in [of : 0..runs, state : States]
  /\ exit \in {NoExit, 0, 1, Signalled}

\* Definitions are generated from the first to the last, although the last is at
\* the top of the tree: what a definition uses has been generated before it.
GeneratedInFileOrder == \A i \in 1..Len(generated) : generated[i] = i

\* Where LLVM knows the machine and can emit assembly for it, an exit code of
\* zero means that output.S is of this compilation and complete, and all of the
\* definitions went into it.  asmGen's two early returns are why it does not hold
\* elsewhere.
ZeroExitMeansFresh ==
  phase = "exited" /\ exit = 0 /\ target = "supported" =>
    output = File(runs, "complete") /\ Len(generated) = source.definitions

\* A debug build gives no file in which the parser has counted a syntax error an
\* exit code of zero, although main does not look at what parse returns.  Of the
\* lexer's errors nothing is promised: a file with a character that starts no
\* token and is correct without it may end with zero in any build.
SyntaxErrorsShow ==
  phase = "exited" /\ exit = 0 => source.parsed \/ build = "release"

\* An output.S is not touched by a compilation that has not generated everything.
OldOutputStays ==
  [][output' # output =>
       output' = NoFile \/ (tree # NoTree /\ Len(generated) = tree /\ output'.of = runs)]_vars

\* Every compilation comes to its end.
EveryRunEnds == Running ~> phase = "exited"
=============================================================================
