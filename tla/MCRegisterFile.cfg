SPECIFICATION FairSpec
CONSTANTS
  None = None
  Addr <- MCAddr
  Data <- MCData
  TESTS = 3
  TIMEOUT = 4
INVARIANT NoMismatch
PROPERTY EveryTransactionChecked
