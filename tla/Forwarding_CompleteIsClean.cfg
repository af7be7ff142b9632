\* The streams of the stub backend, sent in full.
SPECIFICATION Spec
CONSTANTS
  Chunks = 1
  IdleSecs = 300
  TotalSecs = 600
  Hangs <- Nowhere
INVARIANT
  CompleteIsClean
