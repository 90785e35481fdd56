SPECIFICATION Spec
CONSTANTS
  NumPackets = 3
  Streams = {"tx", "rx"}
  Char = {"a", "b", "nl", "cr", "k", "?"}
  Typed = {"a"}
  CtrlK = "k"
  NL = "nl"
  CR = "cr"
  Junk = "?"
  Counts = {1, 2}
  FifoDepth = 2
  MinLength = 1
  MaxLength = 2
  MaxArrivals = 0
  MaxSent = 4
  MaxReads = 3
INVARIANTS
  WriteIsExact
CHECK_DEADLOCK FALSE
