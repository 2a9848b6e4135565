SPECIFICATION Spec
SYMMETRY MCSymm
CONSTANTS
  a = a
  b = b
  pass = pass
  fail = fail
  None = None
  Bytes <- MCBytes
  Codes <- MCCodes
  Requests <- MCRequests
INVARIANTS TypeOK ActsExactlyOnce NoByteForgotten NoErrorForgotten SendsWhatWasAccepted EveryRequestAnswered
