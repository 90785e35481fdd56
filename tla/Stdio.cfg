SPECIFICATION StdioSpec
CONSTANTS
  Heap = 6
  Message = 4
INVARIANTS
  HandlersFollowResult
PROPERTIES
  TransferReturns
