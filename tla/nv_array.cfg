SPECIFICATION Spec
CONSTANTS
  a = a
  a1 = a1
  Ident <- TwoIdents
  Numbered <- TwoNumbered
  MaxLayers = 2
  MaxFuncs = 2
  MaxValues = 2
INVARIANT ArraysAreNotLoaded
