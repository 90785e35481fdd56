SPECIFICATION UartSpec
CONSTANTS
  NumPackets = 2
  Streams = {"tx", "rx"}
  Char = {"a", "b", "k"}
  Typed = {"a", "k"}
  CtrlK = "k"
  FifoDepth = 2
  MinLength = 1
  MaxLength = 2
  MaxArrivals = 3
  MaxSent = 2
INVARIANTS
  InBuffer
  IdleIsClean
  WireInOrder
PROPERTIES
  FifoServed

CHECK_DEADLOCK FALSE
