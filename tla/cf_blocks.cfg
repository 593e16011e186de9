SPECIFICATION Spec
CONSTANTS
  MaxTokens = 5
  Leaves <- AllLeaves
  RetInt = {TRUE}
  EmptyTail = {"br", "ret", "other"}
INVARIANTS
  TypeOK
  BlocksOwnedOnce
  TargetsCreated
  LoopsMirrorHandlers
