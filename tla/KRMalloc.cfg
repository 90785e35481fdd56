SPECIFICATION MallocSpec
CONSTANTS
  Units = 24
  Odd = 6
  Requests = {4, 16, 20}
  MaxLive = 3
INVARIANTS Tiled HonestNull
