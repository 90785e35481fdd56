SPECIFICATION Spec
CONSTANTS
  Chunks = 8
  ChunkSize = 2
  MaxSize = 8
INVARIANTS
  TypeOK
  Sorted
  Disjoint
  NoneLost
  CounterExact
PROPERTIES
  ImplementsHeap
