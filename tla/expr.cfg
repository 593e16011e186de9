SPECIFICATION Spec
CONSTANTS
  TreeOf <- MCTreeOf
  Statements <- MCStatements
  Arrays = {"x", "y"}
  Globals = {"b", "y"}
  VoidFunctions = {"v"}
  IntLimit = 4
  LongLimit = 8
  Worlds <- MCWorlds
  MaxHeight = 3
INVARIANTS TypeOK OperandsTyped CodeComputesSource
