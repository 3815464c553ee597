CONSTANTS
  NULL = NULL
  Node = {n1, n2, n3}
  GC_NODE_INIT_THRESH = 2
  MaxStack = 3
  Val = {v}
  Literal = {v}
SYMMETRY Symmetry
SPECIFICATION Spec
INVARIANTS
  TypeOK
  LiveNodesAllocated
  ListExact
  MarksClear
  IInv
PROPERTIES
  CollectsAllGarbage
  ThresholdDoubles
  ImplementsObjectGraph
