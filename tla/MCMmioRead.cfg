SPECIFICATION Spec
CONSTANTS
  a = a
  b = b
  pass = pass
  fail = fail
  None = None
  Bytes <- MCBytes
  Codes <- MCCodes
  Requests <- MCRequests
INVARIANT ReadConsumesByte
