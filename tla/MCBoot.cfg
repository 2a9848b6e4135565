SPECIFICATION Spec
CONSTANTS
  BYTES = 16
  WORD = 2
  BLOCK_WORDS = 2
  DEST_IMEM = 0
  DEST_DRAM = 2
  ACK = ACK
  NAK = NAK
  None = None
  Image <- MCImage
  BYTE_TIME = 10
  REPLY_TIME = 10
  POWER_UP = 15
  LOW = 5
  FIRST = 10
  ERRORS = 2
  Deltas <- MCDeltas
INVARIANTS NoByteDropped AckMeansWritten CoreStartsOnImage ReplyOnPin HandoffKeepsRequest
PROPERTY BootEnds
