SPECIFICATION FairSpec
CONSTANTS
  MaxTokens = 6
  Leaves <- FlowLeaves
  RetInt = {TRUE}
  EmptyTail = {"other"}
INVARIANTS
  BlocksSealed
  EmittedFunctionClosed
  CodeFollowsSource
  RejectedOutsideLoopOnly
PROPERTIES
  LoopsUnwind
