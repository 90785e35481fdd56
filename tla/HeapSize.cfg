SPECIFICATION Spec
CONSTANTS
  PageChunks = 4
  PageWords = 32
  Layouts = {1}
  SizeLimit = 2
  Descriptions <- MCDescriptions
CHECK_DEADLOCK FALSE
INVARIANTS HeapWhole
