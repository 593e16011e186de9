SPECIFICATION FairSpec
CONSTANTS
  Programs <- MCPrograms
  Names = {"a", "b"}
  Functions = {"f", "g"}
  FileScope = "file"
INVARIANTS TypeOK ElementsInitialised EvaluatedOnceInOrder NamesReadAreInScope FileScopeLeavesNothing OnlyWellFormedPasses
PROPERTY DefinitionsEnd
