SPECIFICATION Spec
CONSTANTS
  Chunks = 9
  ChunkSize = 8
  MaxSize = 16
  BlockSize = 16
  WordBits = 32
  Pools = {space, tcb}
  space = space
  tcb = tcb
  ObjSize <- MCObjSize
CHECK_DEADLOCK FALSE
INVARIANTS ObjectsApart
