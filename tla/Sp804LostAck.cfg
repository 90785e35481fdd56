SPECIFICATION TimerSpec
CONSTANTS
  Full = 8
  Epoch = 16
  Delays = {1, 2}
  Settings = {9}
  Latency = 2
  MaxGap = 1
  AckDelay = 1
INVARIANTS CountHonest
