SPECIFICATION Spec
CONSTANTS
  NumPackets = 4
  Streams = {tx, rx}
PROPERTIES
  ImplementsQueues
