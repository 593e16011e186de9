SPECIFICATION Spec
CONSTANTS
  MaxTokens = 4
  Leaves <- AllLeaves
  RetInt = {TRUE, FALSE}
  EmptyTail = {"other"}
INVARIANT BackFindsInstruction
