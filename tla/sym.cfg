SPECIFICATION Spec
CONSTANTS
  FuncName = {"getint", "f", "g"}
  VarName = {"getint", "f", "v"}
  Arities = {0, 1, 2}
  MaxFuncs = 3
  MaxCalls = 3
  MaxPending = 2
INVARIANTS
  TypeOK
  CallsBindToSource
PROPERTIES
  ImplementsFunctionTable
