SPECIFICATION Spec
CONSTANTS
  a = a
  a1 = a1
  Ident <- TwoIdents
  Numbered <- TwoNumbered
  MaxLayers = 3
  MaxFuncs = 2
  MaxValues = 3
INVARIANTS
  TypeOK
  LayersOfThisFunction
PROPERTIES
  ImplementsLexicalScope
