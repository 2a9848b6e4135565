SPECIFICATION Spec
CONSTANTS
  None = None
  SAMPLES = 16
  DRIFT = 6
  Formats <- MCFormats
  Bytes <- MCBytes
INVARIANTS ReceivesWhatIsSent NoneSwallowed
