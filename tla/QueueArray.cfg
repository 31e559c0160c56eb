\* Four cells: first, last and two between them.
SPECIFICATION ArraySpec
CONSTANTS
  QUE_MAX = 4
  Nums = {1, 2, 3}
INVARIANTS
  ArrayTypeOK
PROPERTIES
  ImplementsQueue
