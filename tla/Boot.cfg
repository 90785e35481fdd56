SPECIFICATION BootSpec
CONSTANTS
  Chunks = 28
  ChunkSize = 8
  MaxSize = 32
  Size <- MCSize
  TableBytes <- MCTableBytes
  BlockSize = 16
  WordBits = 32
  ObjSize <- MCObjSize
  PageChunks = 2
  UtcbBytes = 16
  UtcbsPerPage = 2
  UtcbBitmap = 3
  ListBytes <- MCListBytes
  Descriptions <- MCDescriptions
  Layouts = {1}
  SizeLimit = 16
  PageWords = 64
CHECK_DEADLOCK FALSE
INVARIANTS ScriptInStep MappedWhole UtcbsApart ReadyRing MemoryApart
PROPERTIES ImplementsAddressMap BootEnds
