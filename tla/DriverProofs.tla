---------------------------- MODULE DriverProofs ----------------------------
(***************************************************************************)
(* Proofs about Driver for any command lines, machines and number of       *)
(* compilations.                                                           *)
(***************************************************************************)
EXTENDS Driver, SequenceTheorems, TLAPS

\* Everything in the tree has been generated.
AllGenerated == tree # NoTree /\ Len(generated) = tree

Progress ==
  /\ GeneratedInFileOrder
  /\ tree # NoTree => ~Stopped
  /\ phase \in {"main", "parsed"} => pending = 0 /\ generated = << >>
  /\ phase = "generating" =>
       tree # NoTree /\ (generated = << >> \/ pending + Len(generated) = tree)
  /\ phase \in {"lookup", "passes", "writing"} => AllGenerated
  /\ phase = "exited" /\ exit = 0 =>
       AllGenerated /\ (target = "supported" => output = File(runs, "complete"))

IInv == TypeOK /\ Progress

-----------------------------------------------------------------------------
(* Preservation *)

LEMMA SourceTypes ==
  ASSUME TypeOK
  PROVE  /\ source.definitions \in Nat \ {0} /\ tree \in Nat /\ runs \in Nat
         /\ Len(generated) \in Nat
         /\ \A n \in 0..runs, s \in States : File(n, s) \in [of : 0..runs, state : States]
<1>1. source.definitions \in Nat \ {0}
  BY SourcesAssumption DEF TypeOK
<1>2. tree \in Nat /\ runs \in Nat
  BY <1>1, MaxRunsAssumption DEF TypeOK, NoTree
<1>3. Len(generated) \in Nat
  BY LenProperties DEF TypeOK
<1> QED BY <1>1, <1>2, <1>3 DEF File

LEMMA InitIInv == Init => IInv
<1> SUFFICES ASSUME Init PROVE IInv
  OBVIOUS
<1>1. source.definitions \in Nat \ {0} /\ runs = 0 /\ runs \in 0..MaxRuns
  BY SourcesAssumption, MaxRunsAssumption DEF Init
<1>2. Len(generated) = 0 /\ generated \in Seq(Nat)
  BY DEF Init
<1>3. output \in [of : 0..runs, state : States]
  BY <1>1 DEF Init, NoFile, File, States
<1>4. pending \in Nat /\ pending + Len(generated) <= tree
  BY <1>2 DEF Init, NoTree
<1>5. TypeOK
  BY <1>1, <1>2, <1>3, <1>4 DEF Init, TypeOK, Phases
<1>6. Progress
  BY <1>2 DEF Init, Progress, GeneratedInFileOrder
<1> QED BY <1>5, <1>6 DEF IInv

\* A compilation ends without success.
LEMMA ExitIInv ==
  ASSUME IInv, NEW code \in {1, Signalled}, Exit(code), UNCHANGED output
  PROVE  IInv'
<1>1. code # 0 /\ code \in {NoExit, 0, 1, Signalled}
  BY DEF Signalled
<1>2. TypeOK'
  BY <1>1 DEF IInv, TypeOK, Exit, machine, Phases
<1>3. Progress'
  BY <1>1 DEF IInv, Progress, Exit, machine, GeneratedInFileOrder, Stopped
<1> QED BY <1>2, <1>3 DEF IInv

LEMMA FailuresIInv ==
  ASSUME IInv, \/ Killed \/ Refuse \/ BuilderThrows \/ NullEntry \/ GenerateFails
               \/ WriteFails \/ PassesCrash
  PROVE  IInv'
<1>1. \E code \in {1, Signalled} : Exit(code) /\ UNCHANGED output
  BY DEF Killed, Refuse, BuilderThrows, NullEntry, GenerateFails, WriteFails, PassesCrash
<1> QED BY <1>1, ExitIInv

LEMMA InvokeIInv ==
  ASSUME IInv, Invoke
  PROVE  IInv'
<1>1. /\ runs \in 0..MaxRuns /\ runs < MaxRuns /\ runs' = runs + 1 /\ MaxRuns \in Nat
      /\ source' \in Sources /\ source'.definitions \in Nat
  BY MaxRunsAssumption, SourcesAssumption DEF IInv, TypeOK, Invoke
<1>2. output' \in [of : 0..runs', state : States] /\ runs' \in 0..MaxRuns
  <2>1. 0..runs \subseteq 0..runs'
    BY <1>1
  <2> QED BY <1>1, <2>1 DEF IInv, TypeOK, Invoke
<1>3. generated' = << >> /\ Len(generated') = 0 /\ generated' \in Seq(Nat)
  BY DEF Invoke
<1>4. TypeOK'
  <2>1. pending' \in Nat /\ pending' + Len(generated') <= tree'
    BY <1>3 DEF Invoke, NoTree
  <2> QED BY <1>1, <1>2, <1>3, <2>1 DEF IInv, TypeOK, Invoke, Phases
<1>5. Progress'
  BY <1>3 DEF Progress, Invoke, GeneratedInFileOrder, NoTree
<1> QED BY <1>4, <1>5 DEF IInv

LEMMA RemoveIInv ==
  ASSUME IInv, Remove
  PROVE  IInv'
<1>1. NoFile \in [of : 0..runs, state : States]
  BY SourceTypes DEF IInv, NoFile, File, States
<1>2. TypeOK'
  BY <1>1 DEF IInv, TypeOK, Remove, machine, Phases
<1>3. Progress'
  BY DEF IInv, Progress, Remove, machine, GeneratedInFileOrder, Stopped
<1> QED BY <1>2, <1>3 DEF IInv

LEMMA ParseIInv ==
  ASSUME IInv, ParseFails \/ ParseBuilds
  PROVE  IInv'
<1>1. /\ phase = "main" /\ phase' = "parsed" /\ tree' \in {NoTree, source.definitions}
      /\ tree' = source.definitions => ~Stopped
      /\ pending' = pending /\ generated' = generated /\ output' = output /\ exit' = exit
      /\ isOpen' = isOpen /\ UNCHANGED machine
  BY SourceTypes DEF IInv, ParseFails, ParseBuilds, Parsed, Readable, NoTree
<1>2. pending = 0 /\ generated = << >>
  BY <1>1 DEF IInv, Progress
<1>3. pending' + Len(generated') = 0 /\ tree' >= 0
  BY <1>1, <1>2, SourceTypes DEF IInv, NoTree
<1>4. TypeOK'
  BY <1>1, <1>2, <1>3, SourceTypes DEF IInv, TypeOK, machine, Phases
<1>5. Progress'
  BY <1>1, <1>2, SourceTypes DEF IInv, Progress, machine, GeneratedInFileOrder, Stopped, NoTree
<1> QED BY <1>4, <1>5 DEF IInv

LEMMA EnterIInv ==
  ASSUME IInv, EnterProgram
  PROVE  IInv'
<1>1. pending = 0 /\ generated = << >> /\ Len(generated) = 0 /\ tree >= 1
  BY SourceTypes DEF IInv, Progress, EnterProgram, NoTree
<1>2. TypeOK'
  BY <1>1 DEF IInv, TypeOK, EnterProgram, machine, Phases
<1>3. Progress'
  BY <1>1 DEF IInv, Progress, EnterProgram, machine, GeneratedInFileOrder, Stopped
<1> QED BY <1>2, <1>3 DEF IInv

LEMMA DescendIInv ==
  ASSUME IInv, Descend
  PROVE  IInv'
<1>1. /\ generated = << >> /\ Len(generated) = 0 /\ pending < tree /\ pending \in Nat
      /\ tree \in Nat /\ pending' = pending + 1
  BY SourceTypes DEF IInv, TypeOK, Descend, HasRest
<1>2. TypeOK'
  BY <1>1 DEF IInv, TypeOK, Descend, machine
<1>3. Progress'
  BY <1>1 DEF IInv, Progress, Descend, machine, GeneratedInFileOrder, Stopped
<1> QED BY <1>2, <1>3 DEF IInv

\* The definition at the depth reached is the first one not generated yet.
LEMMA GenerateIInv ==
  ASSUME IInv, Generate
  PROVE  IInv'
<1>1. /\ phase = "generating" /\ ~HasRest /\ pending > 0 /\ phase' = phase
      /\ generated' = Append(generated, DefinitionAt(pending)) /\ pending' = pending - 1
      /\ pending \in Nat /\ tree \in Nat /\ generated \in Seq(Nat) /\ Len(generated) \in Nat
  BY SourceTypes DEF IInv, TypeOK, Generate, Generating
<1>2. pending + Len(generated) = tree
  <2>1. CASE generated = << >>
    BY <1>1, <2>1 DEF IInv, TypeOK, HasRest
  <2>2. CASE generated # << >>
    BY <1>1, <2>2 DEF IInv, Progress
  <2> QED BY <2>1, <2>2
<1>3. DefinitionAt(pending) = Len(generated) + 1
  BY <1>1, <1>2 DEF DefinitionAt
<1>4. /\ generated' \in Seq(Nat) /\ Len(generated') = Len(generated) + 1
      /\ \A i \in 1..Len(generated) : generated'[i] = generated[i]
      /\ generated'[Len(generated) + 1] = Len(generated) + 1
  BY <1>1, <1>3, AppendProperties
<1>5. GeneratedInFileOrder'
  BY <1>1, <1>4 DEF IInv, Progress, GeneratedInFileOrder
<1>6. pending' \in Nat /\ pending' + Len(generated') = tree
  <2>1. Len(generated) \in Nat
    BY SourceTypes DEF IInv
  <2>2. Len(generated') = Len(generated) + 1 /\ pending' = pending - 1 /\ pending > 0
    BY <1>1, <1>4
  <2>3. pending \in Nat
    BY <1>1
  <2> QED BY <1>2, <2>1, <2>2, <2>3
<1>7. TypeOK'
  BY <1>1, <1>4, <1>6 DEF IInv, TypeOK, Generate, machine
<1>8. Progress'
  BY <1>1, <1>5, <1>6 DEF IInv, Progress, Generate, machine, Stopped
<1> QED BY <1>7, <1>8 DEF IInv

LEMMA PrintIInv ==
  ASSUME IInv, PrintModule
  PROVE  IInv'
<1>1. /\ phase = "generating" /\ tree # NoTree /\ pending = 0 /\ ~HasRest
      /\ tree \in Nat /\ Len(generated) \in Nat
  BY SourceTypes DEF IInv, Progress, PrintModule
<1>2. AllGenerated
  BY <1>1 DEF IInv, Progress, AllGenerated, HasRest, NoTree
<1>3. TypeOK'
  BY DEF IInv, TypeOK, PrintModule, machine, Phases
<1>4. Progress'
  BY <1>2 DEF IInv, Progress, PrintModule, machine, GeneratedInFileOrder, Stopped, AllGenerated
<1> QED BY <1>3, <1>4 DEF IInv

\* The steps of asmGen up to the writing.
LEMMA PrepareIInv ==
  ASSUME IInv, OpenOutput \/ RunPasses
  PROVE  IInv'
<1>1. /\ phase \in {"lookup", "passes"} /\ phase' \in {"passes", "writing"}
      /\ isOpen' \in BOOLEAN
      /\ output' = output \/ \E s \in {"empty", "partial"} : output' = File(runs, s)
      /\ UNCHANGED <<machine, tree, pending, generated, exit>>
  BY DEF OpenOutput, RunPasses, IInv, TypeOK
<1>2. output' \in [of : 0..runs, state : States]
  <2>1. output \in [of : 0..runs, state : States]
    BY DEF IInv, TypeOK
  <2>2. \A s \in States : File(runs, s) \in [of : 0..runs, state : States]
    BY SourceTypes DEF IInv
  <2>3. {"empty", "partial", "complete"} \subseteq States
    BY DEF States
  <2> QED BY <1>1, <2>1, <2>2, <2>3
<1>3. TypeOK'
  BY <1>1, <1>2 DEF IInv, TypeOK, machine, Phases
<1>4. Progress'
  BY <1>1 DEF IInv, Progress, machine, GeneratedInFileOrder, Stopped, AllGenerated
<1> QED BY <1>3, <1>4 DEF IInv

\* The three ways to an exit code of zero.
LEMMA ZeroIInv ==
  ASSUME IInv, UnknownTarget \/ CannotEmit \/ Flush
  PROVE  IInv'
<1>1. /\ phase \in {"lookup", "passes", "writing"} /\ Exit(0)
      /\ output' = output \/ output' = File(runs, "complete")
      /\ target = "supported" => output' = File(runs, "complete")
  BY DEF UnknownTarget, CannotEmit, Flush
<1>2. output' \in [of : 0..runs, state : States]
  <2>1. output \in [of : 0..runs, state : States]
    BY DEF IInv, TypeOK
  <2>2. \A s \in States : File(runs, s) \in [of : 0..runs, state : States]
    BY SourceTypes DEF IInv
  <2>3. {"empty", "partial", "complete"} \subseteq States
    BY DEF States
  <2> QED BY <1>1, <2>1, <2>2, <2>3
<1>3. TypeOK'
  BY <1>1, <1>2 DEF IInv, TypeOK, Exit, machine, Phases
<1>4. Progress'
  BY <1>1 DEF IInv, Progress, Exit, machine, GeneratedInFileOrder, Stopped, AllGenerated
<1> QED BY <1>3, <1>4 DEF IInv

LEMMA NextIInv == IInv /\ [Next]_vars => IInv'
<1> SUFFICES ASSUME IInv, [Next]_vars PROVE IInv'
  OBVIOUS
<1>1. CASE UNCHANGED vars
  BY <1>1 DEF vars, IInv, TypeOK, Progress, GeneratedInFileOrder, Stopped, AllGenerated
<1> QED BY <1>1, FailuresIInv, InvokeIInv, RemoveIInv, ParseIInv, EnterIInv, DescendIInv,
           GenerateIInv, PrintIInv, PrepareIInv, ZeroIInv DEF Next, Step, Rest

THEOREM SpecIInv == Spec => []IInv
BY InitIInv, NextIInv, PTL DEF Spec

-----------------------------------------------------------------------------
(* Theorems *)

\* The variables keep their types: codeGenProgram is called once for each node.
THEOREM TypeCorrect == Spec => []TypeOK
<1>1. IInv => TypeOK
  BY DEF IInv
<1> QED BY <1>1, SpecIInv, PTL

\* In a file of any number of definitions, they are generated from the first to
\* the last, although codeGenProgram starts from the node of the last.
THEOREM FileOrder == Spec => []GeneratedInFileOrder
<1>1. IInv => GeneratedInFileOrder
  BY DEF IInv, Progress
<1> QED BY <1>1, SpecIInv, PTL

\* After any compilations, some of them failed or killed, an exit code of zero on
\* a supported machine means a complete output.S of this very compilation.
THEOREM ZeroMeansFresh == Spec => []ZeroExitMeansFresh
<1>1. IInv => ZeroExitMeansFresh
  BY DEF IInv, TypeOK, Progress, AllGenerated, ZeroExitMeansFresh
<1> QED BY <1>1, SpecIInv, PTL

\* In a debug build a file in which the parser has counted a syntax error never
\* has an exit code of zero.  A character that the lexer drops is not one.
THEOREM ErrorsShow == Spec => []SyntaxErrorsShow
<1>1. IInv => SyntaxErrorsShow
  BY BuildsAssumption DEF IInv, TypeOK, Progress, AllGenerated, SyntaxErrorsShow, Stopped
<1> QED BY <1>1, SpecIInv, PTL

\* Whatever goes wrong before asmGen, the output.S that is there stays.
THEOREM OldStays == Spec => OldOutputStays
<1>1. IInv /\ [Next]_vars =>
        [output' # output =>
           output' = NoFile \/ (tree # NoTree /\ Len(generated) = tree /\ output'.of = runs)]_vars
  <2> SUFFICES ASSUME IInv, Next, output' # output
               PROVE  output' = NoFile \/ (tree # NoTree /\ Len(generated) = tree /\ output'.of = runs)
    BY DEF vars
  <2>1. CASE Remove
    BY <2>1 DEF Remove
  <2>2. CASE OpenOutput \/ RunPasses \/ Flush
    <3>1. /\ phase \in {"lookup", "passes", "writing"}
          /\ \E s \in States : output' = File(runs, s)
      BY <2>2 DEF OpenOutput, RunPasses, Flush, States
    <3> QED BY <3>1 DEF IInv, Progress, AllGenerated, File
  <2> QED BY <2>1, <2>2 DEF Next, Step, Rest, vars, Invoke, Killed, Refuse, ParseFails, ParseBuilds,
                Parsed, BuilderThrows, NullEntry, EnterProgram, Descend, Generate, GenerateFails,
                PrintModule, UnknownTarget, CannotEmit, WriteFails, PassesCrash
<1> QED BY <1>1, SpecIInv, PTL DEF Spec, OldOutputStays
=============================================================================
