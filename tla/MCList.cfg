CONSTANTS
  l1 = l1
  l2 = l2
  n1 = n1
  n2 = n2
  n3 = n3
  NULL = NULL
  Garbage = Garbage
  Lists <- MCLists
  Nodes <- MCNodes
SPECIFICATION Spec
INVARIANTS TypeOK Represents
PROPERTIES ImplementsFifo ClearEnds
