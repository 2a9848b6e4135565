SPECIFICATION FairSpec
CONSTANTS
  None = None
  WORD_BITS = 8
  UPPER = 16
  Regs <- MCRegs
  IMEM_DEPTH = 16
  BTB_DEPTH = 1
  IoPage <- MCIoPage
  D_MEM_DEPTH = 2
  EXIT_OFFSET = 252
  StoreList = "s_type_instr"
  MaxRetired = 40
  Programs <- MCPrograms
INVARIANTS NothingMismatches AccessesInProgramOrder MemoryEndsAsGolden VerdictIsTrue
PROPERTY EveryTestEnds
