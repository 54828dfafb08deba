\* Four blocks: the root and three entries, enough for a list with a middle.
SPECIFICATION Spec
CONSTANTS
  BlockNum = 4
  MaxDepth = 2
  n1 = n1
  n2 = n2
  n3 = n3
  Names <- MCNames
SYMMETRY MCSymmetry
INVARIANTS
  TypeOK
  LinksSound
PROPERTIES
  NamesPromise
