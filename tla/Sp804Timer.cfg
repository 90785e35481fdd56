SPECIFICATION TimerSpec
CONSTANTS
  Full = 8
  Epoch = 16
  Delays = {0, 1, 2, 5}
  Settings = {9}
  Latency = 2
  MaxGap = 1
  AckDelay = 0
INVARIANTS CountHonest Punctual
PROPERTIES NeverEarly Expires
