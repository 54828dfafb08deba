\* A name that dev_remove removed is found still.
SPECIFICATION Spec
CONSTANTS
  BlockNum = 4
  MaxDepth = 2
  n1 = n1
  n2 = n2
  n3 = n3
  Names <- MCNames
PROPERTIES
  RemovedIsGone
