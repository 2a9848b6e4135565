CONSTANTS
  s1 = s1
  t1 = t1
  t2 = t2
  t3 = t3
  t4 = t4
  t5 = t5
  w1 = w1
  w2 = w2
  v0 = v0
  v1 = v1
  None = None
  Sets <- MCSets
  Tags <- MCTags
  Words = {w1, w2}
  Val <- MCVal
  InitLine <- MCInitLine
  WB_FIFO_DEPTH = 2
  Starved <- MCDesign
  Accesses <- MCAccesses
  IoAccess <- MCIo
SPECIFICATION Spec
SYMMETRY MCOthers
INVARIANTS TypeOK SingleCopy CleanLinesMatchMemory RequestAlwaysTaken
PROPERTY ActsAsAtomicMemory
